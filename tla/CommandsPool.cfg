SPECIFICATION Spec
CONSTANTS
    w1 = w1
    w2 = w2
    u1 = u1
    u2 = u2
    Workers = {w1, w2}
    Users = {u1}
    NoOwner = NoOwner
    MaxCommands = 2
    MaxCalls = 2
    MaxAttempts = 2
    RestoreMax = 1
    MaxCrashes = 1
INVARIANTS TypeOK CommandExclusive CloseHonoured
CHECK_DEADLOCK FALSE
SYMMETRY WorkerSymmetry
