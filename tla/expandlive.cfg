CONSTANTS
    NN = 2
    Strategy = {1}
    MaxPolls = 3
    MaxClicks = 2
SPECIFICATION FairSpec
PROPERTY ExpandsOnceRendered
CHECK_DEADLOCK FALSE
