CONSTANTS
    NN = 4
    MaxClicks = 2
    MaxPolls = 2
    MaxTries = 3
    PromptRender = FALSE
SPECIFICATION Spec
INVARIANT TypeOK
INVARIANT GlyphShowsState
CHECK_DEADLOCK FALSE
