SPECIFICATION Spec
CONSTANTS
    BufferSize = 2
    QueueSize = 1
    MaxSeq = 3
    MaxRuns = 2
    MaxInFlight = 1
INVARIANTS Synchronized
