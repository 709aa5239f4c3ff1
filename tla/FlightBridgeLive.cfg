SPECIFICATION FairSpec
CONSTANTS
    MaxAltitude = 2
    GeofenceRadius = 2
    MaxVelocity = 1
    RequireSpokenArm = TRUE
    WrongType = WrongType
    Calls <- SessionCalls
    Threshold = 1
    HbAction = "return_to_launch"
    MaxHeartbeats = 1
    MaxRestarts = 0
    OperatorArms = TRUE
PROPERTIES
    KeepsServing
    LatchesClearAfterFlight
    WatchdogActs
    AbortLands
