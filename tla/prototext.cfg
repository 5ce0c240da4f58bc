CONSTANTS
    t1 = t1  t2 = t2  p1 = p1  p2 = p2
    None = None  NoText = NoText  NoPage = NoPage  JunkPage = JunkPage
    NA <- MCNA3
    SideAnchor <- MCSideAnchor
    Batch <- MCOneBatch
    Text = {t1}
    Page = {p1}
    MapUrl <- MCNoMap
    ProtoText = {t1}
    StorageWorks = TRUE
    MaxToggles = 0
SPECIFICATION Spec
INVARIANT TargetsAreUrls
CHECK_DEADLOCK FALSE
