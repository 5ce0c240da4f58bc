CONSTANTS
    t1 = t1  t2 = t2  p1 = p1  p2 = p2
    None = None  NoText = NoText  NoPage = NoPage  JunkPage = JunkPage
    NA <- MCNA4
    SideAnchor <- MCSideAnchor
    Batch <- MCTwoBatches
    Text = {t1}
    Page = {p1, p2}
    MapUrl <- MCNoMap
    ProtoText = {}
    StorageWorks = TRUE
    MaxToggles = 0
SPECIFICATION Spec
INVARIANT SameTextSameTarget
CHECK_DEADLOCK FALSE
