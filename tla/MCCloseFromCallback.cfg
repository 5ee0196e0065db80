CONSTANTS
    MaxFrames = 2
    QueueSize = 2
    OverflowPolicies = {"reconnect"}
    ErrorPolicy = "disconnect"
    GracefulClosers = {}
    ForceClosers = {}
    CallbackMayClose = TRUE
SPECIFICATION ServiceSpec
CHECK_DEADLOCK FALSE
PROPERTIES
    CloseFromCallbackEnds
