CONSTANTS
    Callers = {c1}
    None = none
    BatchSize = 2
    MaxNonces = 3
    MaxExternal = 0
    Faulty = {}
SPECIFICATION FairSpec
CHECK_DEADLOCK FALSE
PROPERTIES
    AcceptedIsMined
