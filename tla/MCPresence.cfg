SPECIFICATION Spec
CONSTANTS
    Tabs = {t1, t2}
    Queries = {q1}
    OneProcess = TRUE
    MayCrash = TRUE
INVARIANTS
    OfflineAfterTheLastTab
    SnapshotFollowsTheRow
PROPERTIES
    ChangesAreAnnounced
    VisibleTabEndsOnline
