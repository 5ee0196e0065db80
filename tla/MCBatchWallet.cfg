SPECIFICATION Spec
CONSTANTS
    Clients = {"proxy", "safe"}
    Callers = {c1}
    BatchSize = 2
    MaxTxs = 2
    MaxPolls = 1
INVARIANTS BatchesActAsWallet
CHECK_DEADLOCK FALSE
