CONSTANTS
    Tokens = {t1, t2}
    QueueSize = 2
    Options <- MCOptions
    StaleAfter = 1
    MaxMonitors = 2
SPECIFICATION FairSpec
CHECK_DEADLOCK FALSE
INVARIANTS
    TypeOK
    SnapshotOfThisSocket
    StaleOffersNothing
    LastSnapshotStands
    RawFlagAgreesWithStore
PROPERTIES
    SilentFeedIsReplaced
