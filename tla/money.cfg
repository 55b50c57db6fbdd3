\* Two spends of one dollar under a cap of one, each from its own process, both
\* processes watch receipts, one crash or outage of the node; every call is made
\* once, so the instance stops.
SPECIFICATION FairSpec
CONSTANTS
    p1 = p1
    p2 = p2
    s1 = s1
    s2 = s2
    Spend = {s1, s2}
    Proc = {p1, p2}
    Home <- TwoHomes
    Watcher = {p1, p2}
    Cap = 1
    MaxMishaps = 1
CHECK_DEADLOCK FALSE
INVARIANTS
    TypeOK
    NothingUnaccounted
    CapHolds
    BookedOnce
PROPERTIES
    ReceiptsSettle
