SPECIFICATION FairSpec
CONSTANTS
    e1 = e1
    e2 = e2
    Nobody = Nobody
    Evaluators = {e1, e2}
    Strategies = {1}
    MaxBatches = 2
    Poison = {}
    MaxLog = 2
    MaxAttempts = 2
    MaxFaults = 1
    NewGroup = FALSE
    Stalls = FALSE
PROPERTIES BatchesSettle
CHECK_DEADLOCK FALSE
