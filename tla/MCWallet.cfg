SPECIFICATION FairSpec
CONSTANTS
    Clients = {"eoa", "proxy", "safe", "relay_proxy", "relay_safe", "relay_deposit"}
    Callers = {c1, c2}
    BatchSize = 2
    MaxTxs = 2
    MaxPolls = 3
INVARIANTS TypeOK ReportsAreTrue
PROPERTIES CallsEnd
CHECK_DEADLOCK FALSE
