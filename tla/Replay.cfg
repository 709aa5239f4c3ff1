SPECIFICATION FairSpec
CONSTANTS
    Channels <- MCChannels
    Streams <- MCStreams
    HandLines = {"comment", "alien"}
    Speeds = {0, 4}
    Unit = 2
    MaxSeconds = {0, 1}
    SubQueue = 1
    FlushEvery = 2
    MaxNow = 3
INVARIANTS TypeOK PlaysTheRecording NeverEarly CrashLosesLittle
PROPERTIES StopEnds
