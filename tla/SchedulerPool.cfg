SPECIFICATION FairSpec
CONSTANTS
    h1 = h1
    w1 = w1
    w2 = w2
    t1 = t1
    t2 = t2
    NoHandle = NoHandle
    Handles = {h1}
    Workers = {w1, w2}
    Waiters = {t1, t2}
    MaxWakes = 3
    EarlyWakes = FALSE
INVARIANTS TypeOK AliveScheduled WakeHonoured AckSound
PROPERTIES CancelEnds
CHECK_DEADLOCK FALSE
