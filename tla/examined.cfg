CONSTANTS
    t1 = t1  t2 = t2  p1 = p1  p2 = p2
    None = None  NoText = NoText  NoPage = NoPage  JunkPage = JunkPage
    NA <- MCNA3
    SideAnchor <- MCSideAnchor
    Batch <- MCTwoBatches
    Text = {t1}
    Page = {p1}
    MapUrl <- MCMapUrlOne
    ProtoText = {}
    StorageWorks = TRUE
    MaxToggles = 1
SPECIFICATION FairSpec
PROPERTY EveryInsertedLinkExamined
CHECK_DEADLOCK FALSE
