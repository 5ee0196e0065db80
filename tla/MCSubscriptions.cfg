CONSTANTS
    Types <- MCTypes
    InitialSubscriptions <- MCInitial
    SubscribeArguments <- MCSubscribe
    UnsubscribeArguments <- MCUnsubscribe
    Callers = {c1, c2}
    Replies = {"accept", "refuse", "stale", "silent"}
    AnswersInTime = FALSE
    BackoffOutlastsGrace = TRUE
    MaxSockets = 2
    MaxCalls = 2
SPECIFICATION FairSpec
CHECK_DEADLOCK FALSE
INVARIANTS
    TypeOK
    ListedIsAskedFor
    AckOfItsOwnSocket
    NoSlotOutlivesItsRequest
PROPERTIES
    RequestsEnd
