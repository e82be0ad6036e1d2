CONSTANTS
    d1 = d1
    s1 = s1
    Syncers = {s1}
    Nobody = Nobody
    Quantity = 2
    MaxAttempts = 2
    MaxLeverage = 1
    MaxFaults = 1
    Stalls = FALSE
    d2 = d2
    Dispatchers = {d1, d2}
SPECIFICATION FairSpec
INVARIANTS FillsBookedOnce TypeOK SubmittedOnce CancelledIsDead AcceptedNotForgotten
PROPERTIES AllFillsBooked
CHECK_DEADLOCK FALSE
