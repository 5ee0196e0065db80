CONSTANTS
    Callers = {c1, c2}
    None = none
    BatchSize = 2
    MaxNonces = 3
    MaxExternal = 1
    Faulty = {c1}
SPECIFICATION FairSpec
CHECK_DEADLOCK FALSE
INVARIANTS
    TypeOK
    NoncesIncrease
PROPERTIES
    AcceptedIsMinedOrBehindHole
