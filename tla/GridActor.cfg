SPECIFICATION MCSpec
CONSTANTS
    Workers = {a, b}
    NoOwner = NoOwner
    Qty = 2
    Cumulative = FALSE
    MaxAttempts = 2
    MaxFaults = 1
    First = a
    a = a
    b = b
INVARIANTS TypeOK LedgerExact ProjectionFenced
PROPERTIES FillsSettle
CHECK_DEADLOCK FALSE
