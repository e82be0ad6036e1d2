SPECIFICATION FairSpec
CONSTANTS
    Strategies = {1, 2}
    New = {}
    ShardCount = 2
    BatchSize = 1
    MaxBars = 2
    Sessions = {1, 2}
    MaxChanges = 1
    MaxFaults = 1
INVARIANTS TypeOK StreamsWatched CommittedReached
PROPERTIES LastBarReaches
CHECK_DEADLOCK FALSE
