CONSTANTS
    k1 = k1
    k2 = k2
    p1 = p1
    b1 = b1
    b2 = b2
    Unused = Unused
    ConnIds <- MCConnIds
    InitConns <- MCInitConns
    PoolIds = {p1}
    BenchIds <- MCBenchIds
    BenchTypes = {"throughput", "connection"}
    Strategies = {"round_robin"}
    CongestionCtls = {"cubic"}
    MetricsCap = 3
    MaxRounds = 2
    MaxRequests = 2

SPECIFICATION Spec
PROPERTY ClosedStaysClosed
\* The server keeps running; nothing is enabled only once the bounded
\* requests and metrics rounds are used up and every task has finished.
CHECK_DEADLOCK FALSE
