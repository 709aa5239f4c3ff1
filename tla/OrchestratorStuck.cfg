SPECIFICATION Spec
CONSTANTS
    Commands <- PlainCommands
    Batches <- LongBatches
    QueueSize = 2
    Workers = 2
    MaxStale = 2
    MaxDecisions = 3
    StuckWindow = 4
    StuckThreshold = 2
INVARIANTS StuckStops
