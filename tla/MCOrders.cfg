SPECIFICATION Spec
CONSTANTS
    One = 100
    TickSizes = {10, 1}
    LotSize = 10
    Fine = 100
    Sizes <- MCSizes
    Amounts <- MCAmounts
    Fees <- MCFees
    Errors <- MCErrors
    Ulp = 1
    Books <- MCBooks
    Callers = {c1, c2}
    Orders = {o1, o2}
    Prices = {5, 50}
    TTL = 2
    Latency = 1
    Batch = 2
    Workloads <- MCWorkloads
SYMMETRY Symmetry
INVARIANTS TypeOK PostsAreAsReported AmountsAreExact
PROPERTIES ResolvedTickIsRecent
CHECK_DEADLOCK FALSE
