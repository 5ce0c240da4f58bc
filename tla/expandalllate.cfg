CONSTANTS
    NN = 3
    MaxClicks = 0
    MaxPolls = 2
    MaxTries = 2
    PromptRender = FALSE
SPECIFICATION FairSpec
PROPERTY TreeFullyExpanded
CHECK_DEADLOCK FALSE
