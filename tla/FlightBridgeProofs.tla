------------------------- MODULE FlightBridgeProofs -------------------------
(***************************************************************************)
(* Proofs about FlightBridge for every value of its constants: any set of  *)
(* tool calls, any envelope, any number of queued callbacks and restarts.  *)
(***************************************************************************)
EXTENDS FlightBridge, ToolSchemas, SequenceTheorems, TLAPS

-----------------------------------------------------------------------------
(* Type correctness: one lemma per thread. *)

\* What a command does to the FC's own variables keeps their types.
LEMMA FcCommandType ==
    ASSUME Types, NEW name, NEW acked, FcCommand(name, acked)
    PROVE  /\ fcArmed' \in BOOLEAN /\ fcAirborne' \in BOOLEAN
           /\ fcMode' \in Modes /\ link' \in BOOLEAN /\ safeStop' \in BOOLEAN
<1>1. CASE FcObeys(name)
  <2>1. fcArmed' \in BOOLEAN /\ safeStop' \in BOOLEAN
    BY <1>1, Zenon DEF FcObeys
  <2>2. fcMode' \in Modes
    BY <1>1 DEF Types, FcObeys, ModeAfter, Modes
  <2> QED BY <1>1, <2>1, <2>2 DEF Types, FcObeys
<1>2. CASE FcIgnores
  BY <1>2 DEF Types, FcIgnores, fc
<1> QED BY <1>1, <1>2 DEF FcCommand

\* The flight controller's own steps and the link keep the types.
LEMMA FlightType == ASSUME Types, Flight PROVE Types'
<1> USE DEF Types, mavsdk, latches, rep, history
<1>1. CASE LiftOff
  BY <1>1 DEF LiftOff
<1>2. CASE TouchDown
  <2>1. fcAirborne' \in BOOLEAN BY <1>2, Zenon DEF TouchDown
  <2> QED BY <1>2, <2>1 DEF TouchDown
<1>3. CASE FcDisarms
  <2>1. fcArmed' \in BOOLEAN /\ safeStop' \in BOOLEAN BY <1>3, Zenon DEF FcDisarms
  <2> QED BY <1>3, <2>1 DEF FcDisarms
<1>4. CASE ExternalArm
  BY <1>4 DEF ExternalArm
<1>5. CASE LinkChanges
  BY <1>5 DEF LinkChanges
<1> QED BY <1>1, <1>2, <1>3, <1>4, <1>5 DEF Flight, AutoDisarm, ExternalDisarm

\* MAVSDK's receive and callback threads keep the types.
LEMMA MavsdkType == ASSUME Types, Mavsdk PROVE Types'
<1> USE DEF Types, fc, latches, rep, history
<1>1. CASE ReceiveHeartbeat
  BY <1>1 DEF ReceiveHeartbeat
<1>2. CASE ReceiveLandedState
  BY <1>2 DEF ReceiveLandedState
<1>3. CASE ArmedCallback
  <2>1. heartbeats' \in Seq({"armed", "disarmed"})
    BY <1>3, HeadTailProperties DEF ArmedCallback
  <2>2. voiceArmed' \in BOOLEAN
    BY <1>3, Zenon DEF ArmedCallback
  <2>3. callback' \in {"idle", "clearing"}
    BY <1>3 DEF ArmedCallback
  <2> QED BY <1>3, <2>1, <2>2, <2>3 DEF ArmedCallback
<1>4. CASE ArmedCallbackEnds
  <2>1. aborted' \in BOOLEAN BY <1>4, Zenon DEF ArmedCallbackEnds
  <2> QED BY <1>4, <2>1 DEF ArmedCallbackEnds
<1> QED BY <1>1, <1>2, <1>3, <1>4 DEF Mavsdk

\* The REQ/REP loop keeps the types.
LEMMA LoopType ==
    ASSUME Types, Answer \/ \E c \in Calls : Admit(c) \/ Refuse(c)
    PROVE  Types'
<1> USE DEF Types, fc, mavsdk, latches, history, Phases
<1>1. ASSUME NEW c \in Calls, Admit(c) \/ Refuse(c) PROVE Types'
  <2>1. /\ loop' \in Phases /\ call' \in Calls \cup {NoCall} /\ reply' \in {reply, "error"}
        /\ aborted' \in BOOLEAN /\ safeStop' \in BOOLEAN
        /\ UNCHANGED <<fc, mavsdk, voiceArmed, watchdog, restarts, spoken>>
    BY <1>1 DEF Admit, Refuse
  <2> QED BY <2>1
<1>2. CASE FcAnswers
  <2>1. PICK acked \in BOOLEAN : FcCommand(call.name, acked)
    BY <1>2 DEF FcAnswers
  <2>2. loop' \in Phases /\ reply' \in {"none", "ok", "error"}
    BY <1>2 DEF FcAnswers
  <2> QED BY <1>2, <2>1, <2>2, FcCommandType DEF FcAnswers
<1>3. CASE Commit
  BY <1>3 DEF Commit
<1>4. CASE SendReply \/ SendFails \/ Rebuild \/ RebuildFails
  BY <1>4 DEF SendReply, SendFails, Rebuild, RebuildFails
<1> QED BY <1>1, <1>2, <1>3, <1>4 DEF Answer

\* The watchdog thread keeps the types.
LEMMA WatchdogType == ASSUME Types, Watchdog PROVE Types'
<1> USE BridgeAssumption DEF Types, fc, mavsdk, latches, rep, history
<1> DEFINE Kinds == [age : 0 .. Threshold, fired : {"no", "blind", "acted"}, acting : BOOLEAN]
<1>1. CASE WatchdogConnected \/ WatchdogCounts \/ WatchdogStandsDown \/ WatchdogFires
  <2>1. CASE WatchdogConnected
    <3>1. watchdog' \in Kinds BY <2>1 DEF WatchdogConnected, Idle
    <3> QED BY <2>1, <3>1 DEF WatchdogConnected
  <2>2. CASE WatchdogCounts
    <3>1. watchdog.age + 1 \in 0 .. Threshold BY <2>2 DEF WatchdogCounts
    <3>2. watchdog' \in Kinds BY <2>2, <3>1 DEF WatchdogCounts
    <3> QED BY <2>2, <3>2 DEF WatchdogCounts
  <2>3. CASE WatchdogStandsDown
    <3>1. watchdog' \in Kinds BY <2>3 DEF WatchdogStandsDown
    <3> QED BY <2>3, <3>1 DEF WatchdogStandsDown
  <2>4. CASE WatchdogFires
    <3>1. watchdog' \in Kinds BY <2>4 DEF WatchdogFires
    <3> QED BY <2>4, <3>1 DEF WatchdogFires
  <2> QED BY <1>1, <2>1, <2>2, <2>3, <2>4
<1>2. CASE WatchdogActed
  <2>1. PICK acked \in BOOLEAN : FcCommand(HbAction, acked)
    BY <1>2 DEF WatchdogActed
  <2>2. watchdog' \in [age : 0 .. Threshold, fired : {"no", "blind", "acted"}, acting : BOOLEAN]
    BY <1>2 DEF WatchdogActed
  <2>3. /\ fcArmed' \in BOOLEAN /\ fcAirborne' \in BOOLEAN
        /\ fcMode' \in Modes /\ link' \in BOOLEAN /\ safeStop' \in BOOLEAN
    BY <2>1, FcCommandType
  <2> QED BY <1>2, <2>2, <2>3 DEF WatchdogActed, rep
<1> QED BY <1>1, <1>2 DEF Watchdog

\* Crashes and restarts keep the types.
LEMMA ProcessType == ASSUME Types, Process PROVE Types'
<1> USE BridgeAssumption DEF Types, fc, mavsdk, latches, history, Phases
<1>1. ASSUME NewProcess, restarts < MaxRestarts, UNCHANGED fc PROVE Types'
  <2>1. /\ seenAirborne' \in BOOLEAN /\ aborted' \in BOOLEAN /\ voiceArmed' \in BOOLEAN
        /\ safeStop' \in BOOLEAN /\ spoken' \in BOOLEAN /\ reported' \in BOOLEAN
    BY <1>1, Zenon DEF NewProcess
  <2>2. watchdog' \in [age : 0 .. Threshold, fired : {"no", "blind", "acted"}, acting : BOOLEAN]
    BY <1>1 DEF NewProcess, Idle
  <2>3. heartbeats' \in Seq({"armed", "disarmed"})
    BY <1>1, EmptySeq DEF NewProcess
  <2> QED BY <1>1, <2>1, <2>2, <2>3 DEF NewProcess
<1>2. CASE Crash
  BY <1>1, <1>2 DEF Crash
<1>3. CASE Boot
  BY <1>3 DEF Boot
<1>4. CASE BootFails
  BY <1>1, <1>4 DEF BootFails
<1> QED BY <1>2, <1>3, <1>4 DEF Process

\* Every reachable state of the bridge has its types.
LEMMA TypesHold == Spec => []Types
<1>1. Init => Types
  <2> SUFFICES ASSUME Init PROVE Types
    OBVIOUS
  <2>1. /\ fcArmed \in BOOLEAN /\ fcAirborne \in BOOLEAN /\ link \in BOOLEAN
        /\ seenAirborne \in BOOLEAN /\ aborted \in BOOLEAN /\ voiceArmed \in BOOLEAN
        /\ safeStop \in BOOLEAN /\ spoken \in BOOLEAN /\ reported \in BOOLEAN
    BY Zenon DEF Init
  <2>2. watchdog \in [age : 0 .. Threshold, fired : {"no", "blind", "acted"}, acting : BOOLEAN]
    BY BridgeAssumption DEF Init, Idle
  <2> QED BY <2>1, <2>2, BridgeAssumption, EmptySeq DEF Init, Types, Modes, Phases
<1>2. Types /\ [Next]_vars => Types'
  <2> SUFFICES ASSUME Types, [Next]_vars PROVE Types'
    OBVIOUS
  <2>1. CASE Next
    BY <2>1, FlightType, MavsdkType, LoopType, WatchdogType, ProcessType DEF Next
  <2>2. CASE UNCHANGED vars
    BY <2>2 DEF Types, vars, fc, mavsdk, latches, rep, history
  <2> QED BY <2>1, <2>2
<1> QED BY <1>1, <1>2, PTL DEF Spec

\* The call being served is one of the dispatch table.
ServingInv == loop \in {"await", "commit"} => call.name \in ToolNames

\* Only Admit lets a call in and it looks the tool up; the phases that follow
\* keep the call (main.cpp:266-306).
LEMMA ServingInvariant == Spec => []ServingInv
<1>1. Init => ServingInv
  BY DEF Init, ServingInv
<1>2. ServingInv /\ [Next]_vars => ServingInv'
  <2> SUFFICES ASSUME ServingInv, [Next]_vars PROVE ServingInv'
    OBVIOUS
  <2> USE DEF ServingInv, rep, fc
  <2>1. CASE UNCHANGED vars
    BY <2>1 DEF vars
  <2>2. ASSUME NEW c \in Calls, Admit(c) PROVE ServingInv'
    BY <2>2 DEF Admit, HandlerAccepts
  <2>3. CASE \E c \in Calls : Refuse(c)
    BY <2>3 DEF Refuse
  <2>4. CASE Answer
    BY <2>4 DEF Answer, FcAnswers, Commit, SendReply, SendFails, Rebuild, RebuildFails
  <2>5. CASE Flight
    BY <2>5 DEF Flight, LiftOff, TouchDown, AutoDisarm, ExternalDisarm, FcDisarms, ExternalArm,
                LinkChanges
  <2>6. CASE Mavsdk
    BY <2>6 DEF Mavsdk, ReceiveHeartbeat, ReceiveLandedState, ArmedCallback, ArmedCallbackEnds
  <2>7. CASE Watchdog
    BY <2>7 DEF Watchdog, WatchdogConnected, WatchdogCounts, WatchdogStandsDown,
                WatchdogFires, WatchdogActed
  <2>8. CASE Process
    BY <2>8 DEF Process, Crash, Boot, BootFails, NewProcess
  <2> QED BY <2>1, <2>2, <2>3, <2>4, <2>5, <2>6, <2>7, <2>8 DEF Next
<1> QED BY <1>1, <1>2, PTL DEF Spec

\* The bridge keeps its types, and only a tool of the dispatch table comes before
\* the FC, whatever the requests name (main.cpp:266-306, handlers.cpp:316-318).
THEOREM TypeCorrect == Spec => []TypeOK
<1>1. Types /\ ServingInv => TypeOK
  BY DEF ServingInv, TypeOK
<1> QED
  BY <1>1, TypesHold, ServingInvariant, PTL

-----------------------------------------------------------------------------
(* The envelope. *)

\* What the gate and the handler accept together is inside the envelope: the
\* arguments the gate defaults to 0 are the ones the handler insists on.
LEMMA GateKeepsEnvelope ==
    ASSUME NEW c, IsToolCall(c), NEW a, NEW v, CheckTool(c, a, v), HandlerAccepts(c)
    PROVE  InEnvelope(c)
<1> USE EnvelopeAssumption
<1>1. ASSUME NEW k, RequiredNumber(c.args, k) PROVE c.args[k] \in Int /\ Num(c.args, k) = c.args[k]
  BY <1>1 DEF IsToolCall, RequiredNumber, Has, Num
<1>2. CASE c.name = "takeoff"
  <2>1. RequiredNumber(c.args, "altitude_m")
    BY <1>2 DEF HandlerAccepts, SetpointArgs
  <2>2. c.args["altitude_m"] > 0 /\ c.args["altitude_m"] <= MaxAltitude
    BY <1>1, <1>2, <2>1 DEF CheckTool, AltitudeAllows
  <2> QED BY <1>1, <1>2, <2>1, <2>2 DEF InEnvelope
<1>3. CASE c.name = "goto_ned"
  <2>1. \A k \in {"n", "e", "d"} : RequiredNumber(c.args, k)
    BY <1>3 DEF HandlerAccepts, SetpointArgs
  <2>2. c.args["d"] <= 0 /\ -c.args["d"] <= MaxAltitude
    BY <1>1, <1>3, <2>1 DEF CheckTool, GeofenceAllows
  <2>3. c.args["d"] \in -MaxAltitude .. 0
    BY <1>1, <2>1, <2>2
  <2>4. c.args["n"] * c.args["n"] + c.args["e"] * c.args["e"] <= GeofenceRadius * GeofenceRadius
    BY <1>1, <1>3, <2>1 DEF CheckTool, GeofenceAllows, HorizontalSquared, Square
  <2> QED BY <1>3, <2>1, <2>3, <2>4 DEF InEnvelope
<1>4. CASE c.name = "set_velocity_ned"
  BY <1>4 DEF InEnvelope, CheckTool, VelocityAllows
<1>5. CASE c.name \notin {"takeoff", "goto_ned", "set_velocity_ned"}
  BY <1>5 DEF InEnvelope
<1> QED BY <1>2, <1>3, <1>4, <1>5

\* Only Admit puts a call before the FC; every other step leaves the call
\* alone or takes it away.
LEMMA OnlyAdmitAwaits ==
    ASSUME Next, loop' = "await", ~ \E c \in Calls : Admit(c)
    PROVE  loop = "await" /\ call' = call
<1> USE DEF rep, fc
<1>1. CASE Flight
  BY <1>1 DEF Flight, LiftOff, TouchDown, AutoDisarm, ExternalDisarm, FcDisarms, ExternalArm, LinkChanges
<1>2. CASE Mavsdk
  BY <1>2 DEF Mavsdk, ReceiveHeartbeat, ReceiveLandedState, ArmedCallback, ArmedCallbackEnds
<1>3. CASE \E c \in Calls : Refuse(c)
  BY <1>3 DEF Refuse
<1>4. CASE Answer
  BY <1>4 DEF Answer, FcAnswers, Commit, SendReply, SendFails, Rebuild, RebuildFails
<1>5. CASE Watchdog
  BY <1>5 DEF Watchdog, WatchdogConnected, WatchdogCounts, WatchdogStandsDown, WatchdogFires, WatchdogActed
<1>6. CASE Process
  BY <1>6 DEF Process, Crash, Boot, BootFails, NewProcess
<1> QED BY <1>1, <1>2, <1>3, <1>4, <1>5, <1>6 DEF Next

\* Every setpoint the REQ/REP loop hands to the FC is inside the envelope.
THEOREM EnvelopeIsHeld == Spec => []EnvelopeHeld
<1>1. Init => EnvelopeHeld
  BY DEF Init, EnvelopeHeld
<1>2. EnvelopeHeld /\ [Next]_vars => EnvelopeHeld'
  <2> SUFFICES ASSUME EnvelopeHeld, [Next]_vars, loop' = "await" PROVE InEnvelope(call')
    BY DEF EnvelopeHeld, InEnvelope
  <2>1. ASSUME NEW c \in Calls, Admit(c) PROVE InEnvelope(call')
    BY <2>1, CallsAssumption, GateKeepsEnvelope DEF Admit
  <2>2. CASE UNCHANGED vars
    BY <2>2 DEF EnvelopeHeld, vars, rep
  <2>3. CASE Next /\ ~ \E c \in Calls : Admit(c)
    BY <2>3, OnlyAdmitAwaits DEF EnvelopeHeld
  <2> QED BY <2>1, <2>2, <2>3
<1> QED BY <1>1, <1>2, PTL DEF Spec

-----------------------------------------------------------------------------
(* The safe stop. *)

\* An armed aircraft in the air has no "disarmed" report left in MAVSDK, so a
\* latch set in the air can only be cleared by a report of a later disarm.  A
\* safe stop holds only while the FC is armed, hence has none either; and the
\* disarm whose commit clears the latch has ended the safe stop before.
SafeStopInv ==
    /\ fcAirborne /\ fcArmed => ~StaleDisarm
    /\ safeStop => aborted /\ fcArmed /\ ~StaleDisarm
    /\ safeStop /\ loop = "await" => call.name \in EmergencyTools
    /\ loop = "commit" /\ reply = "ok" /\ call.name = "disarm" => ~safeStop

\* A step that leaves MAVSDK's queue and callback alone creates no stale report.
LEMMA StaleUnchanged ==
    ASSUME UNCHANGED <<heartbeats, callback>> PROVE StaleDisarm' = StaleDisarm
BY DEF StaleDisarm

\* A command to the FC keeps the first two parts: it arms only on the ground,
\* where no safe stop is left, and a safe stop ends with the FC's disarm.
LEMMA FcCommandSafe ==
    ASSUME SafeStopInv, NEW name, NEW acked, FcCommand(name, acked),
           UNCHANGED <<heartbeats, callback, aborted>>
    PROVE  /\ fcAirborne' /\ fcArmed' => ~StaleDisarm'
           /\ safeStop' => safeStop /\ aborted' /\ fcArmed' /\ ~StaleDisarm'
           /\ acked /\ name = "disarm" => ~safeStop'
<1>1. CASE FcObeys(name)
  <2>1. safeStop' => safeStop /\ fcArmed'
    BY <1>1, Zenon DEF FcObeys
  <2>2. fcArmed' => fcArmed \/ ~fcAirborne
    BY <1>1, Zenon DEF FcObeys, FcAllows
  <2>3. name = "disarm" => ~fcArmed'
    BY <1>1 DEF FcObeys
  <2>4. fcAirborne' = fcAirborne /\ aborted' = aborted /\ StaleDisarm' = StaleDisarm
    BY <1>1, StaleUnchanged DEF FcObeys
  <2>5. safeStop => aborted /\ fcArmed /\ ~StaleDisarm
    BY DEF SafeStopInv
  <2>6. fcAirborne /\ fcArmed => ~StaleDisarm
    BY DEF SafeStopInv
  <2> QED BY <2>1, <2>2, <2>3, <2>4, <2>5, <2>6
<1>2. CASE FcIgnores /\ ~acked
  BY <1>2, StaleUnchanged DEF FcIgnores, fc, SafeStopInv
<1> QED BY <1>1, <1>2 DEF FcCommand

\* The FC's own steps and the link keep the invariant: an aircraft leaves the
\* ground with no stale report queued, and a disarm on the ground ends the stop.
LEMMA FlightSafe == ASSUME SafeStopInv, Flight PROVE SafeStopInv'
<1> USE DEF SafeStopInv, mavsdk, latches, rep, history
<1>1. StaleDisarm' = StaleDisarm
  BY StaleUnchanged DEF Flight, LiftOff, TouchDown, AutoDisarm, ExternalDisarm, FcDisarms,
                        ExternalArm, LinkChanges
<1>2. CASE LiftOff
  BY <1>1, <1>2 DEF LiftOff
<1>3. CASE TouchDown
  BY <1>1, <1>3 DEF TouchDown
<1>4. CASE FcDisarms
  BY <1>1, <1>4 DEF FcDisarms
<1>5. CASE ExternalArm
  BY <1>1, <1>5 DEF ExternalArm
<1>6. CASE LinkChanges
  BY <1>1, <1>6 DEF LinkChanges
<1> QED BY <1>2, <1>3, <1>4, <1>5, <1>6 DEF Flight, AutoDisarm, ExternalDisarm

\* While the FC is armed its heartbeats add no "disarmed" report, and running
\* a callback only takes reports away.
LEMMA ReportsStayClean ==
    ASSUME Types, Mavsdk, ~StaleDisarm, ReceiveHeartbeat => fcArmed
    PROVE  ~StaleDisarm'
<1>1. CASE ReceiveHeartbeat
  <2> SUFFICES ASSUME NEW i \in DOMAIN heartbeats' PROVE heartbeats'[i] = "armed"
    BY <1>1 DEF StaleDisarm, ReceiveHeartbeat
  <2>1. /\ Len(heartbeats') = Len(heartbeats) + 1
        /\ \A j \in 1 .. Len(heartbeats) : heartbeats'[j] = heartbeats[j]
        /\ heartbeats'[Len(heartbeats) + 1] = "armed"
    BY <1>1, AppendProperties DEF ReceiveHeartbeat, Types
  <2> QED BY <1>1, <2>1 DEF StaleDisarm, Types, ReceiveHeartbeat
<1>2. CASE ReceiveLandedState
  BY <1>2, StaleUnchanged DEF ReceiveLandedState
<1>3. CASE ArmedCallback
  <2>1. /\ Len(heartbeats') = Len(heartbeats) - 1
        /\ \A j \in 1 .. Len(heartbeats) - 1 : heartbeats'[j] = heartbeats[j + 1]
        /\ Head(heartbeats) = heartbeats[1] /\ 1 \in DOMAIN heartbeats
        /\ heartbeats' \in Seq({"armed", "disarmed"})
    BY <1>3, HeadTailProperties DEF ArmedCallback, Types
  <2>2. callback' = "idle"
    BY <1>3, <2>1 DEF StaleDisarm, ArmedCallback
  <2>3. ASSUME NEW i \in DOMAIN heartbeats' PROVE heartbeats'[i] = "armed"
    <3>1. i \in 1 .. Len(heartbeats) - 1 /\ i + 1 \in DOMAIN heartbeats
      BY <2>1, <2>3 DEF Types
    <3>2. heartbeats'[i] = heartbeats[i + 1]
      BY <2>1, <3>1
    <3> QED BY <3>1, <3>2 DEF StaleDisarm, Types
  <2> QED BY <2>2, <2>3 DEF StaleDisarm
<1>4. CASE ArmedCallbackEnds
  BY <1>4 DEF ArmedCallbackEnds, StaleDisarm
<1> QED BY <1>1, <1>2, <1>3, <1>4 DEF Mavsdk

\* MAVSDK's threads keep the invariant: what is queued while the FC is armed
\* clears nothing, and the latch is cleared only by an old report.
LEMMA MavsdkSafe == ASSUME Types, SafeStopInv, Mavsdk PROVE SafeStopInv'
<1> USE DEF fc, latches, rep, history
<1>1. fcArmed /\ ~StaleDisarm => ~StaleDisarm'
  BY ReportsStayClean
<1>2. CASE ReceiveHeartbeat \/ ReceiveLandedState \/ ArmedCallback
  BY <1>1, <1>2 DEF ReceiveHeartbeat, ReceiveLandedState, ArmedCallback, SafeStopInv
<1>3. CASE ArmedCallbackEnds
  <2>1. StaleDisarm BY <1>3 DEF ArmedCallbackEnds, StaleDisarm
  <2> QED BY <1>3, <2>1 DEF ArmedCallbackEnds, SafeStopInv
<1> QED BY <1>2, <1>3 DEF Mavsdk

\* The gate admits only emergency tools under the latch; the commit of a disarm
\* clears a latch that no safe stop needs any more.
LEMMA LoopSafe ==
    ASSUME SafeStopInv, Answer \/ \E c \in Calls : Admit(c) \/ Refuse(c)
    PROVE  SafeStopInv'
<1> USE DEF fc, mavsdk, latches, history
<1>1. UNCHANGED <<heartbeats, callback>>
  BY DEF Answer, Admit, Refuse, FcAnswers, Commit, SendReply, SendFails, Rebuild, RebuildFails
<1>2. ASSUME NEW c \in Calls, Admit(c) PROVE SafeStopInv'
  <2>1. aborted => c.name \in EmergencyTools
    BY <1>2 DEF Admit, CheckTool, AbortAllows
  <2>2. Latches(c) => c.name \in EmergencyTools
    BY DEF Latches, EmergencyTools
  <2>3. /\ safeStop' => safeStop \/ (Latches(c) /\ fcAirborne /\ fcArmed)
        /\ aborted \/ Latches(c) => aborted'
    BY <1>2, Zenon DEF Admit
  <2>4. /\ UNCHANGED <<fcAirborne, fcArmed>> /\ StaleDisarm' = StaleDisarm
        /\ loop' = "await" /\ call' = c
    BY <1>1, <1>2, StaleUnchanged DEF Admit
  <2> QED BY <2>1, <2>2, <2>3, <2>4 DEF SafeStopInv
<1>3. ASSUME NEW c \in Calls, Refuse(c) PROVE SafeStopInv'
  BY <1>1, <1>3, StaleUnchanged DEF Refuse, SafeStopInv
<1>4. CASE FcAnswers
  <2>1. PICK acked \in BOOLEAN : /\ FcCommand(call.name, acked)
                                 /\ reply' = IF acked THEN "ok" ELSE "error"
    BY <1>4 DEF FcAnswers
  <2>2. UNCHANGED <<aborted, call>> /\ loop' = "commit"
    BY <1>4 DEF FcAnswers
  <2>3. /\ fcAirborne' /\ fcArmed' => ~StaleDisarm'
        /\ safeStop' => safeStop /\ aborted' /\ fcArmed' /\ ~StaleDisarm'
        /\ acked /\ call.name = "disarm" => ~safeStop'
    BY <1>1, <2>1, <2>2, FcCommandSafe
  <2> QED BY <2>1, <2>2, <2>3 DEF SafeStopInv
<1>5. CASE Commit
  <2>1. aborted /\ ~(reply = "ok" /\ call.name = "disarm") => aborted'
    BY <1>5, Zenon DEF Commit
  <2>2. /\ UNCHANGED <<fcAirborne, fcArmed, safeStop>> /\ StaleDisarm' = StaleDisarm
        /\ loop = "commit" /\ loop' = "reply"
    BY <1>1, <1>5, StaleUnchanged DEF Commit
  <2> QED BY <2>1, <2>2 DEF SafeStopInv
<1>6. CASE SendReply \/ SendFails \/ Rebuild \/ RebuildFails
  BY <1>1, <1>6, StaleUnchanged DEF SendReply, SendFails, Rebuild, RebuildFails, SafeStopInv
<1> QED BY <1>2, <1>3, <1>4, <1>5, <1>6 DEF Answer

\* The watchdog's action is a command like another: it touches no latch.
LEMMA WatchdogSafe == ASSUME SafeStopInv, Watchdog PROVE SafeStopInv'
<1> USE DEF fc, mavsdk, latches, rep, history
<1>1. UNCHANGED <<heartbeats, callback, aborted, loop, call, reply>>
  BY DEF Watchdog, WatchdogConnected, WatchdogCounts, WatchdogStandsDown, WatchdogFires, WatchdogActed
<1>2. CASE WatchdogConnected \/ WatchdogCounts \/ WatchdogStandsDown \/ WatchdogFires
  <2>1. UNCHANGED <<fcAirborne, fcArmed, safeStop>>
    BY <1>2 DEF WatchdogConnected, WatchdogCounts, WatchdogStandsDown, WatchdogFires
  <2> QED BY <1>1, <2>1, StaleUnchanged DEF SafeStopInv
<1>3. CASE WatchdogActed
  <2>1. PICK acked \in BOOLEAN : FcCommand(HbAction, acked)
    BY <1>3 DEF WatchdogActed
  <2> QED BY <1>1, <2>1, FcCommandSafe DEF SafeStopInv
<1> QED BY <1>2, <1>3 DEF Watchdog

\* A new process has empty latches and no safe stop to keep.
LEMMA ProcessSafe == ASSUME SafeStopInv, Process PROVE SafeStopInv'
<1> USE DEF fc, mavsdk, latches, history
<1>1. ASSUME NewProcess PROVE SafeStopInv'
  BY <1>1 DEF NewProcess, SafeStopInv, StaleDisarm
<1>2. CASE Boot
  BY <1>2, StaleUnchanged DEF Boot, SafeStopInv
<1>3. CASE BootFails
  BY <1>1, <1>3, StaleUnchanged DEF BootFails, SafeStopInv
<1> QED BY <1>1, <1>2, <1>3 DEF Process, Crash

\* The invariant behind SafeStop: no report of a disarm that could clear the
\* latch is left while a safe stop is active.
LEMMA SafeStopInvariant == Spec => []SafeStopInv
<1>1. Init => SafeStopInv
  BY DEF Init, SafeStopInv, StaleDisarm
<1>2. Types /\ SafeStopInv /\ [Next]_vars => SafeStopInv'
  <2> SUFFICES ASSUME Types, SafeStopInv, [Next]_vars PROVE SafeStopInv'
    OBVIOUS
  <2>1. CASE Next
    BY <2>1, FlightSafe, MavsdkSafe, LoopSafe, WatchdogSafe, ProcessSafe DEF Next
  <2>2. CASE UNCHANGED vars
    BY <2>2, StaleUnchanged DEF SafeStopInv, vars, fc, mavsdk, latches, rep, history
  <2> QED BY <2>1, <2>2
<1> QED BY <1>1, <1>2, TypesHold, PTL DEF Spec

\* An airborne abort or kill stays latched until the FC disarms, and until then
\* nothing but an emergency tool reaches the FC through the REQ/REP loop.
THEOREM SafeStopHolds == Spec => []SafeStop
<1>1. SafeStopInv => SafeStop
  BY DEF SafeStopInv, SafeStop
<1> QED BY <1>1, SafeStopInvariant, PTL

\* The descent of a stop: no client's call changes it, only the watchdog does, which
\* does not look at the abort latch (handlers.cpp:175-197, main.cpp:196-209).
DescentIsKept ==
    [][safeStop /\ fcMode = "land"
        => fcMode' = "land" \/ (watchdog.acting /\ fcMode' = HbAction)]_vars

\* Whatever the clients send and however callbacks and the loop interleave.
THEOREM DescentHolds == Spec => DescentIsKept
<1>1. SafeStopInv /\ [Next]_vars =>
          [safeStop /\ fcMode = "land"
              => fcMode' = "land" \/ (watchdog.acting /\ fcMode' = HbAction)]_vars
  <2> SUFFICES ASSUME SafeStopInv, [Next]_vars, safeStop, fcMode = "land"
               PROVE  fcMode' = "land" \/ (watchdog.acting /\ fcMode' = HbAction)
    OBVIOUS
  <2>1. ASSUME NEW name, NEW acked, FcCommand(name, acked)
        PROVE  fcMode' = fcMode \/ fcMode' = ModeAfter(name)
    BY <2>1 DEF FcCommand, FcObeys, FcIgnores, fc
  <2>2. CASE FcAnswers
    <3>1. call.name \in EmergencyTools
      BY <2>2 DEF FcAnswers, SafeStopInv
    <3>2. ModeAfter(call.name) = "land"
      BY <3>1 DEF ModeAfter, EmergencyTools
    <3> QED BY <2>1, <2>2, <3>2 DEF FcAnswers
  <2>3. CASE WatchdogActed
    <3>1. ModeAfter(HbAction) = HbAction
      BY BridgeAssumption DEF ModeAfter
    <3> QED BY <2>1, <2>3, <3>1 DEF WatchdogActed
  <2>4. CASE ~FcAnswers /\ ~WatchdogActed
    <3>1. CASE Flight
      BY <3>1 DEF Flight, LiftOff, TouchDown, AutoDisarm, ExternalDisarm, FcDisarms, ExternalArm,
         LinkChanges
    <3>2. CASE Mavsdk
      BY <3>2 DEF Mavsdk, ReceiveHeartbeat, ReceiveLandedState, ArmedCallback, ArmedCallbackEnds, fc
    <3>3. CASE (\E c \in Calls : Admit(c) \/ Refuse(c)) \/ Answer
      BY <2>4, <3>3 DEF Admit, Refuse, Answer, Commit, SendReply, SendFails, Rebuild,
         RebuildFails, fc
    <3>4. CASE Watchdog \/ Process
      BY <2>4, <3>4 DEF Watchdog, WatchdogConnected, WatchdogCounts, WatchdogStandsDown,
         WatchdogFires, Process, Crash, Boot, BootFails, fc
    <3>5. CASE UNCHANGED vars
      BY <3>5 DEF vars, fc
    <3> QED BY <3>1, <3>2, <3>3, <3>4, <3>5 DEF Next
  <2> QED BY <2>2, <2>3, <2>4
<1> QED BY <1>1, SafeStopInvariant, PTL DEF Spec, DescentIsKept

-----------------------------------------------------------------------------
(* The spoken arm. *)

\* The latch is on only in a session that an acknowledged voice arm opened;
\* the session flag does not change while a call is before the FC.
SpokenInv == (voiceArmed => spoken) /\ SpokenTakeoff

\* The latch is set by the commit of an acknowledged voice arm and by nothing
\* else; the same commit opens the session.
LEMMA LatchNeedsSession ==
    ASSUME voiceArmed => spoken, Next
    PROVE  voiceArmed' => spoken'
<1> USE DEF fc, latches, rep, history
<1>1. CASE Flight
  BY <1>1 DEF Flight, LiftOff, TouchDown, AutoDisarm, ExternalDisarm, FcDisarms, ExternalArm, LinkChanges
<1>2. CASE Mavsdk
  BY <1>2 DEF Mavsdk, ReceiveHeartbeat, ReceiveLandedState, ArmedCallback, ArmedCallbackEnds
<1>3. ASSUME NEW c \in Calls, Admit(c) \/ Refuse(c) PROVE voiceArmed' => spoken'
  <2>1. voiceArmed' = voiceArmed /\ spoken' = spoken
    BY <1>3 DEF Admit, Refuse
  <2> QED BY <2>1
<1>4. CASE Commit
  <2>1. voiceArmed' => (voiceArmed \/ (reply = "ok" /\ call.name = "arm" /\ call.voice = "true"))
                       /\ ~(reply = "ok" /\ call.name = "disarm")
    BY <1>4, Zenon DEF Commit
  <2>2. (spoken \/ (reply = "ok" /\ call.name = "arm" /\ call.voice = "true"))
        /\ ~(reply = "ok" /\ call.name = "disarm") => spoken'
    BY <1>4, Zenon DEF Commit
  <2> QED BY <2>1, <2>2
<1>5. CASE FcAnswers \/ SendReply \/ SendFails \/ Rebuild \/ RebuildFails
  BY <1>5 DEF FcAnswers, SendReply, SendFails, Rebuild, RebuildFails
<1>6. CASE Watchdog
  BY <1>6 DEF Watchdog, WatchdogConnected, WatchdogCounts, WatchdogStandsDown, WatchdogFires, WatchdogActed
<1>7. CASE Process
  BY <1>7 DEF Process, Crash, Boot, BootFails, NewProcess
<1> QED BY <1>1, <1>2, <1>3, <1>4, <1>5, <1>6, <1>7 DEF Next, Answer

\* The session flag changes only in a commit or with the process.
LEMMA SessionSteps ==
    ASSUME Next, loop' = "await" PROVE spoken' = spoken
<1> USE DEF fc, latches, rep, history
<1>1. CASE Flight
  BY <1>1 DEF Flight, LiftOff, TouchDown, AutoDisarm, ExternalDisarm, FcDisarms, ExternalArm, LinkChanges
<1>2. CASE Mavsdk
  BY <1>2 DEF Mavsdk, ReceiveHeartbeat, ReceiveLandedState, ArmedCallback, ArmedCallbackEnds
<1>3. CASE \E c \in Calls : Admit(c) \/ Refuse(c)
  BY <1>3 DEF Admit, Refuse
<1>4. CASE Answer
  BY <1>4 DEF Answer, FcAnswers, Commit, SendReply, SendFails, Rebuild, RebuildFails
<1>5. CASE Watchdog
  BY <1>5 DEF Watchdog, WatchdogConnected, WatchdogCounts, WatchdogStandsDown, WatchdogFires, WatchdogActed
<1>6. CASE Process
  BY <1>6 DEF Process, Crash, Boot, BootFails, NewProcess
<1> QED BY <1>1, <1>2, <1>3, <1>4, <1>5, <1>6 DEF Next

\* The invariant behind SpokenTakeoff: the latch never outlives the session.
LEMMA SpokenInvariant == Spec => []SpokenInv
<1>1. Init => SpokenInv
  BY DEF Init, SpokenInv, SpokenTakeoff
<1>2. SpokenInv /\ [Next]_vars => SpokenInv'
  <2> SUFFICES ASSUME SpokenInv, [Next]_vars PROVE SpokenInv'
    OBVIOUS
  <2>1. CASE UNCHANGED vars
    BY <2>1 DEF SpokenInv, SpokenTakeoff, vars, latches, rep, history
  <2>2. CASE Next
    <3>1. voiceArmed' => spoken'
      BY <2>2, LatchNeedsSession DEF SpokenInv
    <3>2. ASSUME RequireSpokenArm, loop' = "await", call'.name = "takeoff" PROVE spoken'
      <4>1. spoken' = spoken
        BY <2>2, <3>2, SessionSteps
      <4>2. CASE \E c \in Calls : Admit(c)
        <5>1. voiceArmed
          BY <3>2, <4>2 DEF Admit, CheckTool, SpokenArmAllows
        <5> QED BY <4>1, <5>1 DEF SpokenInv
      <4>3. CASE ~ \E c \in Calls : Admit(c)
        BY <2>2, <3>2, <4>1, <4>3, OnlyAdmitAwaits DEF SpokenInv, SpokenTakeoff
      <4> QED BY <4>2, <4>3
    <3> QED BY <3>1, <3>2 DEF SpokenInv, SpokenTakeoff
  <2> QED BY <2>1, <2>2
<1> QED BY <1>1, <1>2, PTL DEF Spec

\* With the spoken-arm requirement on, a takeoff reaches the FC only after the
\* FC acknowledged a voice-confirmed arm of the same session.
THEOREM TakeoffIsSpoken == Spec => []SpokenTakeoff
<1>1. SpokenInv => SpokenTakeoff
  BY DEF SpokenInv
<1> QED BY <1>1, SpokenInvariant, PTL

-----------------------------------------------------------------------------
(* How long the latch of a voice session lasts: the watchdog acts on a lost  *)
(* link only under it.                                                       *)

DisarmCommit == loop = "commit" /\ call.name = "disarm" /\ reply = "ok"

\* The latch is cleared by a report of a disarm, by the commit of a disarm, or with
\* the process.
LEMMA LatchIsCleared ==
    ASSUME Types, [Next]_vars, voiceArmed, ~voiceArmed'
    PROVE  loop' = "boot" \/ StaleDisarm \/ DisarmCommit
<1>1. CASE Flight
  BY <1>1 DEF Flight, LiftOff, TouchDown, AutoDisarm, ExternalDisarm, FcDisarms, ExternalArm,
     LinkChanges, latches
<1>2. CASE ArmedCallback
  <2>1. heartbeats # <<>> /\ Head(heartbeats) # "armed"
    BY <1>2 DEF ArmedCallback
  <2>2. heartbeats[1] = "disarmed" /\ 1 \in DOMAIN heartbeats
    BY <2>1, HeadTailProperties, EmptySeq DEF Types
  <2> QED BY <2>2 DEF StaleDisarm
<1>3. CASE ReceiveHeartbeat \/ ReceiveLandedState \/ ArmedCallbackEnds
  BY <1>3 DEF ReceiveHeartbeat, ReceiveLandedState, ArmedCallbackEnds, latches
<1>4. CASE \E c \in Calls : Admit(c) \/ Refuse(c)
  BY <1>4 DEF Admit, Refuse, latches
<1>5. CASE Commit
  BY <1>5 DEF Commit, DisarmCommit
<1>6. CASE FcAnswers \/ SendReply \/ SendFails \/ Rebuild \/ RebuildFails
  BY <1>6 DEF FcAnswers, SendReply, SendFails, Rebuild, RebuildFails, latches
<1>7. CASE Watchdog
  BY <1>7 DEF Watchdog, WatchdogConnected, WatchdogCounts, WatchdogStandsDown, WatchdogFires,
     WatchdogActed, latches
<1>8. CASE Process
  BY <1>8 DEF Process, Crash, Boot, BootFails, NewProcess, latches
<1>9. CASE UNCHANGED vars
  BY <1>9 DEF vars, latches
<1> QED
  BY <1>1, <1>2, <1>3, <1>4, <1>5, <1>6, <1>7, <1>8, <1>9 DEF Next, Mavsdk, Answer

\* In the air only the end of the process or the commit of a disarm that the FC had
\* acknowledged before it was armed again takes the latch from a session: a
\* report cannot, however late callbacks run (main.cpp:124-132, 196).
SessionLastsInFlight ==
    [][fcArmed /\ fcAirborne /\ voiceArmed /\ ~voiceArmed'
        => loop' = "boot" \/ DisarmCommit]_vars

\* For any number of queued reports, and whatever the clients send.
THEOREM LatchLastsInFlight == Spec => SessionLastsInFlight
<1>1. Types /\ SafeStopInv /\ [Next]_vars =>
          [fcArmed /\ fcAirborne /\ voiceArmed /\ ~voiceArmed'
              => loop' = "boot" \/ DisarmCommit]_vars
  BY LatchIsCleared DEF SafeStopInv
<1> QED BY <1>1, TypesHold, SafeStopInvariant, PTL DEF Spec, SessionLastsInFlight

\* Motors that go on do so with no disarm on its way through the bridge: none in
\* MAVSDK's queue, none about to be committed.
ArmsClean == ~fcArmed /\ fcArmed' => ~StaleDisarm /\ ~DisarmCommit

\* From an arm without a disarm behind it the latch lasts, on the ground too,
\* until the motors go off or the process ends.
SessionLasts ==
    [][fcArmed /\ voiceArmed /\ ~voiceArmed' => loop' = "boot"]_vars

CleanInv == fcArmed => ~StaleDisarm /\ ~DisarmCommit

\* A command to the FC: its answer is committed as a disarm only if the motors are
\* off.
LEMMA AnswerIsClean == ASSUME FcAnswers PROVE fcArmed' => ~DisarmCommit'
<1>1. PICK acked \in BOOLEAN :
          FcCommand(call.name, acked) /\ reply' = IF acked THEN "ok" ELSE "error"
  BY DEF FcAnswers
<1>2. CASE acked /\ call.name = "disarm"
  BY <1>1, <1>2 DEF FcCommand, FcObeys
<1>3. CASE ~acked \/ call.name # "disarm"
  BY <1>1, <1>3 DEF FcAnswers, DisarmCommit
<1> QED BY <1>2, <1>3

\* Where arms are clean, an armed FC has no disarm behind it.
LEMMA CleanStep ==
    ASSUME Types, CleanInv, [Next]_vars, [ArmsClean]_vars
    PROVE  CleanInv'
<1> SUFFICES ASSUME fcArmed' PROVE ~StaleDisarm' /\ ~DisarmCommit'
  BY DEF CleanInv
<1>1. ~StaleDisarm /\ ~DisarmCommit
  BY DEF CleanInv, ArmsClean, vars, fc
<1>2. UNCHANGED <<heartbeats, callback>> => ~StaleDisarm'
  BY <1>1, StaleUnchanged
<1>3. UNCHANGED rep => ~DisarmCommit'
  BY <1>1 DEF DisarmCommit, rep
<1>4. CASE Flight
  BY <1>2, <1>3, <1>4 DEF Flight, LiftOff, TouchDown, AutoDisarm, ExternalDisarm, FcDisarms,
     ExternalArm, LinkChanges, mavsdk
<1>5. CASE Mavsdk
  <2>1. fcArmed' = fcArmed /\ UNCHANGED rep
    BY <1>5 DEF Mavsdk, ReceiveHeartbeat, ReceiveLandedState, ArmedCallback, ArmedCallbackEnds, fc
  <2> QED BY <1>1, <1>3, <1>5, <2>1, ReportsStayClean
<1>6. CASE \E c \in Calls : Admit(c) \/ Refuse(c)
  BY <1>2, <1>6 DEF Admit, Refuse, mavsdk, DisarmCommit
<1>7. CASE FcAnswers
  BY <1>2, <1>7, AnswerIsClean DEF FcAnswers, mavsdk
<1>8. CASE Commit \/ SendReply \/ SendFails \/ Rebuild \/ RebuildFails
  BY <1>2, <1>8 DEF Commit, SendReply, SendFails, Rebuild, RebuildFails, mavsdk, DisarmCommit
<1>9. CASE Watchdog
  BY <1>2, <1>3, <1>9 DEF Watchdog, WatchdogConnected, WatchdogCounts, WatchdogStandsDown,
     WatchdogFires, WatchdogActed, mavsdk
<1>10. CASE Process
  <2>1. CASE NewProcess
    BY <2>1 DEF NewProcess, StaleDisarm, DisarmCommit
  <2>2. CASE ~NewProcess
    BY <1>2, <1>10, <2>2 DEF Process, Crash, Boot, BootFails, mavsdk, DisarmCommit
  <2> QED BY <2>1, <2>2
<1>11. CASE UNCHANGED vars
  BY <1>2, <1>3, <1>11 DEF vars, mavsdk
<1> QED
  BY <1>4, <1>5, <1>6, <1>7, <1>8, <1>9, <1>10, <1>11 DEF Next, Answer

\* A disarm that is still on its way when the motors go on is the only thing,
\* beside the end of the process, that takes the latch from an armed session and
\* with it the watchdog's answer to a lost link (main.cpp:127-132, 196, 303-306).
THEOREM SessionLatchLasts == Spec /\ [][ArmsClean]_vars => SessionLasts
<1>1. Init => CleanInv
  BY DEF Init, CleanInv
<1>2. Types /\ CleanInv /\ [Next]_vars /\ [ArmsClean]_vars => CleanInv'
  BY CleanStep
<1>3. Types /\ CleanInv /\ [Next]_vars =>
          [fcArmed /\ voiceArmed /\ ~voiceArmed' => loop' = "boot"]_vars
  BY LatchIsCleared DEF CleanInv
<1> QED BY <1>1, <1>2, <1>3, TypesHold, PTL DEF Spec, SessionLasts

-----------------------------------------------------------------------------
(* FlightBridge implements FlightAuthority: every step of the bridge is a  *)
(* step of the abstract bridge or a stutter, given the invariants above.   *)

Refines == Authority!Next \/ UNCHANGED Authority!vars

\* A step that leaves the FC's armed flag, the loop's phase and call and the
\* histories alone is a stutter of the abstract bridge.
LEMMA Stutters ==
    ASSUME UNCHANGED <<fcArmed, loop, call, spoken, safeStop>>
    PROVE  UNCHANGED Authority!vars
BY DEF Authority!vars, Served

\* What a command does to the FC is, seen from above, that the motors go on,
\* that they go off, or nothing; only an arm puts them on.
LEMMA FcCommandSteps ==
    ASSUME Types, SafeStopInv, NEW name, NEW acked, FcCommand(name, acked)
    PROVE  \/ ~fcArmed /\ fcArmed' = TRUE /\ name = "arm" /\ safeStop' = safeStop
           \/ fcArmed /\ fcArmed' = FALSE /\ safeStop' = FALSE
           \/ fcArmed' = fcArmed /\ safeStop' = safeStop
<1>1. CASE FcObeys(name)
  <2>1. fcArmed' \in BOOLEAN /\ fcArmed \in BOOLEAN /\ safeStop \in BOOLEAN
    BY FcCommandType DEF Types
  <2>2. safeStop' = (safeStop /\ fcArmed')
    BY <1>1 DEF FcObeys
  <2>3. safeStop => fcArmed
    BY DEF SafeStopInv
  <2>4. fcArmed' => name = "arm" \/ fcArmed
    BY <1>1, Zenon DEF FcObeys
  <2> QED BY <2>1, <2>2, <2>3, <2>4
<1>2. CASE FcIgnores
  BY <1>2 DEF FcIgnores, fc
<1> QED BY <1>1, <1>2 DEF FcCommand

\* Landing, taking off and the link are invisible; a disarm ends a stop.
LEMMA FlightRefines == ASSUME Types, Flight PROVE Refines
<1> USE DEF mavsdk, latches, rep, history
<1>1. CASE LiftOff \/ TouchDown \/ LinkChanges
  <2>1. UNCHANGED <<fcArmed, loop, call, spoken, safeStop>>
    BY <1>1 DEF LiftOff, TouchDown, LinkChanges
  <2> QED BY <2>1, Stutters DEF Refines
<1>2. CASE FcDisarms
  <2>1. fcArmed /\ fcArmed' = FALSE /\ safeStop' = FALSE /\ Served' = Served /\ spoken' = spoken
    BY <1>2 DEF FcDisarms, Served
  <2> QED BY <2>1 DEF Refines, Authority!Next, Authority!Disarms
<1>3. CASE ExternalArm
  <2>1. /\ ~fcArmed /\ fcArmed' = TRUE /\ OperatorArms /\ Served' = Served
        /\ UNCHANGED <<spoken, safeStop>>
    BY <1>3 DEF ExternalArm, Served
  <2> QED BY <2>1 DEF Refines, Authority!Next, Authority!Arms
<1> QED BY <1>1, <1>2, <1>3 DEF Flight, AutoDisarm, ExternalDisarm

\* An admitted call is one the abstract bridge may serve: during a stop the
\* abort latch is set, and without a session the spoken-arm latch is clear.
LEMMA AdmitRefines ==
    ASSUME Types, SafeStopInv, SpokenInv, NEW c \in Calls, Admit(c)
    PROVE  Refines
<1> DEFINE tool == IF c.name = "arm" /\ c.voice = "true" THEN "spoken_arm" ELSE c.name
<1>1. /\ CheckTool(c, aborted, voiceArmed) /\ HandlerAccepts(c)
      /\ loop = "poll" /\ loop' = "await" /\ call' = c
      /\ UNCHANGED <<fcArmed, spoken>>
      /\ safeStop' = (safeStop \/ (Latches(c) /\ fcAirborne /\ fcArmed))
  BY DEF Admit, fc
<1>2. Served = "none" /\ Served' = tool
  BY <1>1 DEF Served
<1>3. tool \in ToolNames \cup {"spoken_arm"}
  BY <1>1 DEF HandlerAccepts
<1>4. safeStop => tool \in EmergencyTools
  BY <1>1 DEF SafeStopInv, CheckTool, AbortAllows, EmergencyTools
<1>5. RequireSpokenArm /\ tool \in {"arm", "takeoff"} => spoken
  BY <1>1 DEF SpokenInv, CheckTool, SpokenArmAllows
<1>6. \/ tool \in {"abort", "kill"} /\ fcArmed /\ safeStop' = TRUE
      \/ safeStop' = safeStop
  <2>1. CASE Latches(c) /\ fcAirborne /\ fcArmed
    BY <1>1, <2>1 DEF Latches
  <2>2. CASE ~(Latches(c) /\ fcAirborne /\ fcArmed)
    BY <1>1, <2>2, Zenon DEF Types
  <2> QED BY <2>1, <2>2
<1>7. Authority!Serve(tool)
  BY <1>1, <1>2, <1>4, <1>5, <1>6 DEF Authority!Serve
<1> QED BY <1>3, <1>7 DEF Refines, Authority!Next

\* The FC answers: the motors may change; a commit ends the call and opens or
\* closes the session; the rest of the loop is invisible.
LEMMA AnswerRefines ==
    ASSUME Types, SafeStopInv, ServingInv, Answer \/ \E c \in Calls : Refuse(c)
    PROVE  Refines
<1>1. CASE FcAnswers
  <2>1. PICK acked \in BOOLEAN : FcCommand(call.name, acked)
    BY <1>1 DEF FcAnswers
  <2>2. Served' = Served /\ spoken' = spoken /\ loop = "await"
    BY <1>1 DEF FcAnswers, Served
  <2>3. CASE ~fcArmed /\ fcArmed' = TRUE /\ call.name = "arm" /\ safeStop' = safeStop
    <3>1. Served \in {"arm", "spoken_arm"}
      BY <2>2, <2>3 DEF Served
    <3> QED BY <2>2, <2>3, <3>1 DEF Refines, Authority!Next, Authority!Arms
  <2>4. CASE fcArmed /\ fcArmed' = FALSE /\ safeStop' = FALSE
    BY <2>2, <2>4 DEF Refines, Authority!Next, Authority!Disarms
  <2>5. CASE fcArmed' = fcArmed /\ safeStop' = safeStop
    BY <2>2, <2>5 DEF Refines, Authority!vars
  <2> QED BY <2>1, <2>3, <2>4, <2>5, FcCommandSteps
<1>2. CASE Commit
  <2> DEFINE voiceArm == reply = "ok" /\ call.name = "arm" /\ call.voice = "true"
             disarm == reply = "ok" /\ call.name = "disarm"
  <2>1. /\ loop = "commit" /\ loop' = "reply" /\ UNCHANGED <<fcArmed, safeStop>>
        /\ spoken' = ((spoken \/ voiceArm) /\ ~disarm)
    BY <1>2 DEF Commit, fc
  <2>2. call.name # "none"
    BY <2>1 DEF ServingInv, ToolNames, Manoeuvres, EmergencyTools, ParamTools
  <2>3. Served # "none" /\ Served' = "none"
    BY <2>1, <2>2 DEF Served
  <2>4. \/ Served = "spoken_arm" /\ spoken' = TRUE
        \/ Served = "disarm" /\ spoken' = FALSE
        \/ spoken' = spoken
    BY <2>1 DEF Served, Types
  <2> QED BY <2>1, <2>3, <2>4 DEF Refines, Authority!Next, Authority!Finish
<1>3. CASE SendReply \/ SendFails \/ Rebuild \/ RebuildFails \/ \E c \in Calls : Refuse(c)
  <2>1. Served = "none" /\ Served' = "none" /\ UNCHANGED <<fcArmed, spoken, safeStop>>
    BY <1>3 DEF SendReply, SendFails, Rebuild, RebuildFails, Refuse, Served, fc, history
  <2> QED BY <2>1 DEF Refines, Authority!vars
<1> QED BY <1>1, <1>2, <1>3 DEF Answer

\* The watchdog commands a hold or a return: neither arms nor disarms.
LEMMA WatchdogRefines == ASSUME Types, SafeStopInv, Watchdog PROVE Refines
<1>1. CASE WatchdogActed
  <2>1. PICK acked \in BOOLEAN : FcCommand(HbAction, acked)
    BY <1>1 DEF WatchdogActed
  <2>2. Served' = Served /\ spoken' = spoken
    BY <1>1 DEF WatchdogActed, Served, rep
  <2>3. HbAction # "arm"
    BY BridgeAssumption
  <2>4. CASE fcArmed /\ fcArmed' = FALSE /\ safeStop' = FALSE
    BY <2>2, <2>4 DEF Refines, Authority!Next, Authority!Disarms
  <2>5. CASE fcArmed' = fcArmed /\ safeStop' = safeStop
    BY <2>2, <2>5 DEF Refines, Authority!vars
  <2> QED BY <2>1, <2>3, <2>4, <2>5, FcCommandSteps
<1>2. CASE ~WatchdogActed
  <2>1. UNCHANGED <<fcArmed, loop, call, spoken, safeStop>>
    BY <1>2 DEF Watchdog, WatchdogConnected, WatchdogCounts, WatchdogStandsDown, WatchdogFires,
                fc, rep, history
  <2> QED BY <2>1, Stutters DEF Refines
<1> QED BY <1>1, <1>2

\* A crash is the abstract Restart; a boot is invisible.
LEMMA ProcessRefines == ASSUME Process PROVE Refines
<1>1. ASSUME NewProcess, UNCHANGED fc PROVE Refines
  <2>1. Served' = "none" /\ spoken' = FALSE /\ safeStop' = FALSE /\ fcArmed' = fcArmed
    BY <1>1 DEF NewProcess, Served, fc
  <2> QED BY <2>1 DEF Refines, Authority!Next, Authority!Restart
<1>2. ASSUME loop = "boot", loop' \in {"poll", "down"}, UNCHANGED <<fcArmed, spoken, safeStop>>
      PROVE Refines
  <2>1. Served = "none" /\ Served' = "none"
    BY <1>2 DEF Served
  <2> QED BY <1>2, <2>1 DEF Refines, Authority!vars
<1>3. CASE Crash
  BY <1>1, <1>3 DEF Crash
<1>4. CASE Boot
  BY <1>2, <1>4 DEF Boot, fc, history
<1>5. CASE BootFails
  <2>1. CASE restarts < MaxRestarts
    BY <1>1, <1>5, <2>1 DEF BootFails
  <2>2. CASE ~(restarts < MaxRestarts)
    BY <1>2, <1>5, <2>2 DEF BootFails, fc, history
  <2> QED BY <2>1, <2>2
<1> QED BY <1>3, <1>4, <1>5 DEF Process

\* MAVSDK's threads are invisible.
LEMMA MavsdkRefines == ASSUME Mavsdk PROVE Refines
<1>1. UNCHANGED <<fcArmed, loop, call, spoken, safeStop>>
  BY DEF Mavsdk, ReceiveHeartbeat, ReceiveLandedState, ArmedCallback, ArmedCallbackEnds,
         fc, rep, history
<1> QED BY <1>1, Stutters DEF Refines

\* The bridge with its threads, late callbacks, lost acknowledgements and
\* restarts keeps the promise of FlightAuthority.
THEOREM BridgeKeepsAuthority == Spec => KeepsAuthority
<1>1. Init => Authority!Init
  BY DEF Init, Authority!Init, Served
<1>2. Types /\ SafeStopInv /\ SpokenInv /\ ServingInv /\ [Next]_vars
          => [Authority!Next]_(Authority!vars)
  <2> SUFFICES ASSUME Types, SafeStopInv, SpokenInv, ServingInv, [Next]_vars PROVE Refines
    BY DEF Refines
  <2>1. CASE Next
    BY <2>1, FlightRefines, MavsdkRefines, AdmitRefines, AnswerRefines, WatchdogRefines,
       ProcessRefines DEF Next
  <2>2. CASE UNCHANGED vars
    <3>1. UNCHANGED <<fcArmed, loop, call, spoken, safeStop>>
      BY <2>2 DEF vars, fc, rep, history
    <3> QED BY <3>1, Stutters DEF Refines
  <2> QED BY <2>1, <2>2
<1> QED
  BY <1>1, <1>2, TypesHold, SafeStopInvariant, SpokenInvariant, ServingInvariant, PTL
     DEF Spec, KeepsAuthority, Authority!Spec

-----------------------------------------------------------------------------
(* The tools offered to the VLM, and the handlers. *)

\* tools.py and handlers.cpp agree: one case for each tool with arguments.
THEOREM SchemasMatch == SchemasMatchHandlers
<1>1. Offered \subseteq ToolNames
  BY DEF Offered, ToolNames, Manoeuvres, EmergencyTools, ParamTools
<1>2. ASSUME NEW c, IsToolCall(c), c.name \in Offered
      PROVE  SchemaValid(c) <=> HandlerAccepts(c)
  <2> USE <1>2, <1>1 DEF SchemaValid, AnyOf, RequiredNumber, OptionalNumber, Has
  <2>0. HandlerAccepts(c) <=> SetpointArgs(c)
    BY DEF HandlerAccepts, NamesParam, GivesValue, Offered
  <2> USE <2>0 DEF SetpointArgs
  <2>1. CASE c.name = "takeoff"
    BY <2>1 DEF Properties, Required
  <2>2. CASE c.name = "goto_ned"
    BY <2>2 DEF Properties, Required
  <2>3. CASE c.name = "set_velocity_ned"
    BY <2>3 DEF Properties, Required
  <2>4. CASE c.name \notin {"takeoff", "goto_ned", "set_velocity_ned"}
    BY <2>4 DEF Properties, Required
  <2> QED BY <2>1, <2>2, <2>3, <2>4
<1> QED BY <1>1, <1>2 DEF SchemasMatchHandlers
=============================================================================
