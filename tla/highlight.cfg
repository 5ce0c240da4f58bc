CONSTANTS
    t1 = t1  t2 = t2  p1 = p1  p2 = p2
    None = None  NoText = NoText  NoPage = NoPage  JunkPage = JunkPage
    NA <- MCNA3
    SideAnchor <- MCSideAnchor
    Batch <- MCOneBatch
    Text = {t1, t2}
    Page = {p1}
    MapUrl <- MCMapUrl
    ProtoText = {}
    StorageWorks = TRUE
    MaxToggles = 0
SPECIFICATION Spec
INVARIANT TypeOK
INVARIANT HighlightConsistent
INVARIANT UpdatingOnlyInPass
PROPERTY RetargetSpec
CHECK_DEADLOCK FALSE
