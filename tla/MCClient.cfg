SPECIFICATION FairSpec
CONSTANTS
    Conns = {m1, r1}
    RealTime = {r1}
    Streams = {m1}
    Closers = {k1, k2}
    Apis = {"async", "sync"}
    ThreadCalls = {r1, k1, k2}
    CallbackMayAsk = TRUE
INVARIANTS TypeOK ClosedClientIsOver LiveIsReachable NoCallLost
CHECK_DEADLOCK FALSE
PROPERTIES SyncCloseEnds OpenEndsOnceClosed
