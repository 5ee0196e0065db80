CONSTANTS
    Tokens = {t1, t2}
    Prices <- MCPrices
    Sizes <- MCSizes
    Values = {v1}
    None = none
    Reasons = {"awaiting_initial_snapshot", "connection_closed"}
    SnapshotBooks <- MCSnapshots
    DeltaMessages <- MCMessages
SYMMETRY Symmetry
SPECIFICATION Spec
INVARIANTS
    TypeOK
    NeverCrossed
    CachesCoherent
    NothingOutlivesInvalidate
