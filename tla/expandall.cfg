CONSTANTS
    NN = 4
    MaxClicks = 0
    MaxPolls = 3
    MaxTries = 3
    PromptRender = TRUE
SPECIFICATION FairSpec
PROPERTY TreeFullyExpanded
PROPERTY StepExpandsRendered
CHECK_DEADLOCK FALSE
