SPECIFICATION Spec
CONSTANTS
    MaxAltitude = 2
    GeofenceRadius = 2
    MaxVelocity = 1
    RequireSpokenArm = TRUE
    WrongType = WrongType
    Calls <- AllCalls
    Threshold = 1
    HbAction = "hold"
    MaxHeartbeats = 2
    MaxRestarts = 1
    OperatorArms = TRUE
INVARIANTS
    TypeOK
    SafeStop
    EnvelopeHeld
    SpokenTakeoff
PROPERTIES
    KeepsAuthority
