----------------------------- MODULE SafetyGate -----------------------------
(***************************************************************************)
(* The safety envelope of the flight bridge: check_tool of                 *)
(* include/lexaire/safety.hpp and the argument checks the handlers of      *)
(* src/flight_bridge/handlers.cpp make after it.                           *)
(*                                                                         *)
(* A tool call is a record.  `args` is the JSON object of its arguments:   *)
(* its DOMAIN is the set of keys present, a value is a number or           *)
(* WrongType.  A parameter's name, the only string, is a number too: 0 is  *)
(* the empty one.  `voice` is the argument voice_confirmed, kept apart     *)
(* because it is the only boolean one.  Lengths and speeds are integers of *)
(* any one unit.                                                           *)
(***************************************************************************)
EXTENDS Integers

CONSTANTS
    MaxAltitude,       \* safety.max_altitude_m
    GeofenceRadius,    \* safety.geofence_radius_m
    MaxVelocity,       \* safety.max_velocity_mps
    RequireSpokenArm,  \* safety.require_spoken_arm
    WrongType          \* an argument that is present and of another JSON type

ASSUME EnvelopeAssumption ==
    /\ MaxAltitude \in Nat
    /\ GeofenceRadius \in Nat
    /\ MaxVelocity \in Nat
    /\ RequireSpokenArm \in BOOLEAN
    /\ WrongType \notin Int

Manoeuvres == {"takeoff", "goto_ned", "set_velocity_ned", "enable_offboard",
               "return_to_launch", "hold"}
EmergencyTools == {"abort", "kill", "land", "disarm"}
ParamTools == {"set_param", "get_param", "get_health"}

\* The dispatch table; "unknown" stands for every name that is not in it and
\* "malformed" for a request that does not parse.
ToolNames == {"arm"} \cup Manoeuvres \cup EmergencyTools \cup ParamTools
AllNames == ToolNames \cup {"unknown", "malformed"}

ArgKeys == {"altitude_m", "n", "e", "d", "vx", "vy", "vz", "yaw_deg",
            "name", "int_value", "float_value"}
VoiceArgs == {"absent", "true", "false", "wrong"}

IsToolCall(c) ==
    /\ c.name \in AllNames
    /\ c.voice \in VoiceArgs
    /\ DOMAIN c.args \subseteq ArgKeys
    /\ \A k \in DOMAIN c.args : c.args[k] \in Int \cup {WrongType}

-----------------------------------------------------------------------------
Has(args, k) == k \in DOMAIN args

\* as_d and optional_double: an absent key is fine, a present one must be a number.
OptionalNumber(args, k) == Has(args, k) => args[k] # WrongType

\* require_double.
RequiredNumber(args, k) == Has(args, k) /\ args[k] # WrongType

\* The value as_d returns: the default 0 for an absent key.
Num(args, k) == IF Has(args, k) THEN args[k] ELSE 0

Square(args, k) == Num(args, k) * Num(args, k)
HorizontalSquared(args) == Square(args, "n") + Square(args, "e")
SpeedSquared(args) == Square(args, "vx") + Square(args, "vy") + Square(args, "vz")

-----------------------------------------------------------------------------
\* check_tool, one conjunct per test of the code.  The tests return different
\* reasons for a denial; no property depends on the reason.

\* Mutant: the abort latch is not consulted.
AbortIgnored(name, aborted) == TRUE

AbortAllows(name, aborted) == aborted => name \in EmergencyTools

\* Mutant: only takeoff asks for the spoken arm.
TakeoffOnly(c, voiceArmed) ==
    RequireSpokenArm /\ ~voiceArmed => c.name # "takeoff"

SpokenArmAllows(c, voiceArmed) ==
    RequireSpokenArm /\ ~voiceArmed =>
        /\ c.name = "arm" => c.voice = "true"
        /\ c.name # "takeoff"

AltitudeAllows(c) ==
    c.name = "takeoff" =>
        /\ OptionalNumber(c.args, "altitude_m")
        /\ Num(c.args, "altitude_m") > 0
        /\ Num(c.args, "altitude_m") <= MaxAltitude

GeofenceAllows(c) ==
    c.name = "goto_ned" =>
        /\ \A k \in {"n", "e", "d"} : OptionalNumber(c.args, k)
        /\ Num(c.args, "d") <= 0
        /\ -Num(c.args, "d") <= MaxAltitude
        /\ HorizontalSquared(c.args) <= GeofenceRadius * GeofenceRadius

VelocityAllows(c) ==
    c.name = "set_velocity_ned" =>
        /\ \A k \in {"vx", "vy", "vz"} : OptionalNumber(c.args, k)
        /\ SpeedSquared(c.args) <= MaxVelocity * MaxVelocity

CheckTool(c, aborted, voiceArmed) ==
    /\ c.name # "malformed"
    /\ AbortAllows(c.name, aborted)
    /\ SpokenArmAllows(c, voiceArmed)
    /\ AltitudeAllows(c)
    /\ GeofenceAllows(c)
    /\ VelocityAllows(c)

\* set_param and get_param: a name that is a string and not empty, and a value
\* for the former; an int_value that is no number is not passed over.
NamesParam(c) ==
    c.name \in {"set_param", "get_param"} => RequiredNumber(c.args, "name") /\ c.args["name"] # 0

GivesValue(c) ==
    c.name = "set_param" => IF Has(c.args, "int_value")
                              THEN c.args["int_value"] # WrongType
                              ELSE RequiredNumber(c.args, "float_value")

\* Mutant: goto_ned takes absent coordinates as 0, as the gate does.
SetpointDefaults(c) ==
    /\ c.name = "takeoff" => RequiredNumber(c.args, "altitude_m")
    /\ c.name = "set_velocity_ned" =>
           \A k \in {"vx", "vy", "vz", "yaw_deg"} : OptionalNumber(c.args, k)

\* The setpoint handlers: what they send has to be there and a number.
SetpointArgs(c) ==
    /\ c.name = "takeoff" => RequiredNumber(c.args, "altitude_m")
    /\ c.name = "goto_ned" =>
           /\ \A k \in {"n", "e", "d"} : RequiredNumber(c.args, k)
           /\ OptionalNumber(c.args, "yaw_deg")
    /\ c.name = "set_velocity_ned" =>
           /\ \E k \in {"vx", "vy", "vz"} : Has(c.args, k)
           /\ \A k \in {"vx", "vy", "vz", "yaw_deg"} : OptionalNumber(c.args, k)

\* Mutant: a name that is not in the dispatch table is not told apart.
HandlerUnchecked(c) == NamesParam(c) /\ GivesValue(c) /\ SetpointArgs(c)

\* dispatch finds the handler and the handler's own argument checks pass.
HandlerAccepts(c) ==
    c.name \in ToolNames /\ NamesParam(c) /\ GivesValue(c) /\ SetpointArgs(c)

-----------------------------------------------------------------------------
\* What the envelope promises of a call that reaches the flight controller,
\* stated on the setpoint that is sent and not on the tests that admit it.
InEnvelope(c) ==
    /\ c.name = "takeoff" =>
           /\ RequiredNumber(c.args, "altitude_m")
           /\ c.args["altitude_m"] \in 1 .. MaxAltitude
    /\ c.name = "goto_ned" =>
           /\ \A k \in {"n", "e", "d"} : RequiredNumber(c.args, k)
           /\ c.args["d"] \in -MaxAltitude .. 0
           /\ c.args["n"] * c.args["n"] + c.args["e"] * c.args["e"]
                  <= GeofenceRadius * GeofenceRadius
    /\ c.name = "set_velocity_ned" =>
           /\ \A k \in {"vx", "vy", "vz"} : OptionalNumber(c.args, k)
           /\ SpeedSquared(c.args) <= MaxVelocity * MaxVelocity
=============================================================================
