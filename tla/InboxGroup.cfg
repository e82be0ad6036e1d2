SPECIFICATION Spec
CONSTANTS
    e1 = e1
    e2 = e2
    Nobody = Nobody
    Evaluators = {e1, e2}
    Strategies = {1, 2}
    MaxBatches = 2
    Poison = {2}
    MaxLog = 2
    MaxAttempts = 2
    MaxFaults = 1
    NewGroup = FALSE
    Stalls = FALSE
SYMMETRY EvaluatorSymmetry
INVARIANTS TypeOK CompletedEvaluated
PROPERTIES SettledInOrder FencedCompletion
CHECK_DEADLOCK FALSE
