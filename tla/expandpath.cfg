CONSTANTS
    NN = 4
    Strategy = {1}
    MaxPolls = 1
    MaxClicks = 1
SPECIFICATION Spec
INVARIANT TypeOK
INVARIANT GlyphShowsState
PROPERTY RevealsCurrentBranch
CHECK_DEADLOCK FALSE
