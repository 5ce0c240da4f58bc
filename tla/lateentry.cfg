CONSTANTS
    NN = 2
    Strategy = {1}
    MaxPolls = 2
    MaxClicks = 1
SPECIFICATION Spec
PROPERTY NoExpandAllWhenListed
CHECK_DEADLOCK FALSE
