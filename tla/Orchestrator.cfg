SPECIFICATION FairSpec
CONSTANTS
    Commands <- AllCommands
    Batches <- ShortBatches
    QueueSize = 2
    Workers = 2
    MaxStale = 2
    MaxDecisions = 2
    StuckWindow = 4
    StuckThreshold = 2
INVARIANTS TypeOK LateCalls NoSpuriousPreempt OfflineShown StuckStops
PROPERTIES AbortSent StopCloses
