CONSTANTS
    Tokens = {t1, t2}
    Prices <- MCPrices
    Sizes = {1}
    Values = {}
    None = none
    Reasons = {"awaiting_initial_snapshot", "connection_closed", "parse_failure", "snapshot_stale"}
    SnapshotBooks <- MCBooks
    DeltaMessages <- NoMessages
    MaxInFlight = 2
    MaxChanges = 2
SPECIFICATION ReplicationSpec
INVARIANTS
    CaughtUpMeansEqual
