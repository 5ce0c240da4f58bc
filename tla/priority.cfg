CONSTANTS
    NN = 2
    Strategy = {1, 4}
    MaxPolls = 1
    MaxClicks = 0
SPECIFICATION Spec
PROPERTY StrategiesInOrder
CHECK_DEADLOCK FALSE
