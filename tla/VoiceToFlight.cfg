SPECIFICATION FairVoiceSpec
CONSTANTS
    Commands <- AllCommands
    Batches <- OnePlan
    QueueSize = 2
    Workers = 1
    MaxStale = 2
    MaxDecisions = 1
    StuckWindow = 4
    StuckThreshold = 2
    Scripts <- ShortScripts
    Modes <- AllModes
    PushQueue = 1
    PullQueue = 1
    Inbox = 2
INVARIANTS VoiceTypeOK ConfirmedArmWasSaid AbortedIsTrue
PROPERTIES KeepsCalls SttEnds AbortReachesBridge AbortActsOrTold
