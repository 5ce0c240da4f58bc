CONSTANTS
    t1 = t1  t2 = t2  p1 = p1  p2 = p2
    None = None  NoText = NoText  NoPage = NoPage  JunkPage = JunkPage
    NA <- MCNA3
    SideAnchor <- MCSideAnchor
    Batch <- MCOneBatch
    Text = {t1, t2}
    Page = {p1}
    MapUrl <- MCMapUrl
    ProtoText = {}
    StorageWorks = FALSE
    MaxToggles = 0
SPECIFICATION Spec
INVARIANT HighlightConsistent
CHECK_DEADLOCK FALSE
