CONSTANTS
    MaxFrames = 3
    QueueSize = 2
    OverflowPolicies = {"drop_oldest", "disconnect", "reconnect"}
    ErrorPolicy = "disconnect"
    GracefulClosers = {g1}
    ForceClosers = {f1}
    CallbackMayClose = TRUE
SPECIFICATION FairSpec
CHECK_DEADLOCK FALSE
INVARIANTS
    TypeOK
    InOrderAndOnce
    NothingUnaccounted
    ClosedMeansOver
    FailureStopsUnlessReaderFailed
PROPERTIES
    CloseGoesOn
    KeepsDeliveryPromise
    LostSocketIsReplaced
