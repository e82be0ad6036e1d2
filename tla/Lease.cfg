SPECIFICATION Spec
CONSTANTS
    w1 = w1
    t1 = t1
    t2 = t2
    p1 = p1
    q1 = q1
    Workers = {w1}
    Threads = {t1, t2}
    HostOf <- OneHost
    NoThread = NoThread
    Peers = {p1}
    NoOwner = NoOwner
    OrderIds = {q1}
    LeaseSeconds = 1
    Retention = 2
    MaxToken = 2
    MaxTime = 3
SYMMETRY Symmetry
INVARIANTS TypeOK TokenNamesOwner
PROPERTIES RuntimeOrdersFenced StaleOrderNotClaimed TakeoverAfterDeadline
CHECK_DEADLOCK FALSE
