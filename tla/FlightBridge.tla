---------------------------- MODULE FlightBridge ----------------------------
(***************************************************************************)
(* The flight bridge process: src/flight_bridge/main.cpp and handlers.cpp. *)
(*                                                                         *)
(* Three threads share the two latches of SafetyState: the REQ/REP loop,   *)
(* the heartbeat watchdog, and MAVSDK's callback thread, which runs the    *)
(* lambda given to subscribe_armed.  They command one flight controller    *)
(* (FC) over a MAVLink link that may drop.  The FC and MAVSDK are outside  *)
(* the repository and are modelled from how the bridge uses them: a        *)
(* command may take effect and be acknowledged, be refused, or take effect *)
(* with its acknowledgement lost.  A heartbeat of the FC may invoke the    *)
(* armed callback with the armed flag that it carried, some time later.    *)
(* Only the falling edge (main.cpp:124) is sure to be reported: nothing is *)
(* assumed of heartbeats that repeat what was said before.                 *)
(***************************************************************************)
EXTENDS SafetyGate, Sequences

CONSTANTS
    Calls,          \* the tool calls clients send
    Threshold,      \* safety.heartbeat_loss_threshold_s in watchdog polls
    HbAction,       \* safety.heartbeat_loss_action
    MaxHeartbeats,  \* bound: armed callbacks queued in MAVSDK
    MaxRestarts,    \* docker-compose.yaml: restart on-failure:N
    OperatorArms    \* a pilot may arm from QGroundControl

ASSUME CallsAssumption == \A c \in Calls : IsToolCall(c)
ASSUME BridgeAssumption ==
    /\ Threshold \in Nat \ {0}
    /\ HbAction \in {"return_to_launch", "hold"}
    /\ MaxHeartbeats \in Nat \ {0}
    /\ MaxRestarts \in Nat
    /\ OperatorArms \in BOOLEAN

NoCall == [name |-> "none", args |-> <<>>, voice |-> "absent"]

VARIABLES
    \* the flight controller and the link to it
    fcArmed, fcAirborne, fcMode, link,
    \* MAVSDK: the flag reported last was armed, queued armed callbacks, the
    \* callback being run, cached in_air()
    reported, heartbeats, callback, seenAirborne,
    \* SafetyState
    aborted, voiceArmed,
    \* the REQ/REP loop: where it is, the call it serves, what it will reply
    loop, call, reply,
    \* the watchdog thread
    watchdog,
    \* process restarts so far
    restarts,
    \* history: in this process an airborne abort or kill has latched, and the FC
    \* has not disarmed since
    safeStop,
    \* history: a voice-confirmed arm was acknowledged since the process
    \* started or last disarmed by tool
    spoken

fc == <<fcArmed, fcAirborne, fcMode, link>>
mavsdk == <<reported, heartbeats, callback, seenAirborne>>
latches == <<aborted, voiceArmed>>
rep == <<loop, call, reply>>
history == <<safeStop, spoken>>
vars == <<fc, mavsdk, latches, rep, watchdog, restarts, history>>

Modes == {"standby", "takeoff", "offboard", "land", "return_to_launch", "hold"}
Phases == {"boot", "poll", "await", "commit", "reply", "rebuild", "down"}
Idle == [age |-> 0, fired |-> "no", acting |-> FALSE]

Types ==
    /\ fcArmed \in BOOLEAN /\ fcAirborne \in BOOLEAN
    /\ fcMode \in Modes /\ link \in BOOLEAN
    /\ reported \in BOOLEAN /\ heartbeats \in Seq({"armed", "disarmed"})
    /\ callback \in {"idle", "clearing"} /\ seenAirborne \in BOOLEAN
    /\ aborted \in BOOLEAN /\ voiceArmed \in BOOLEAN
    /\ loop \in Phases /\ call \in Calls \cup {NoCall}
    /\ reply \in {"none", "ok", "error"}
    /\ watchdog \in [age : 0 .. Threshold, fired : {"no", "blind", "acted"},
                     acting : BOOLEAN]
    /\ restarts \in 0 .. MaxRestarts
    /\ safeStop \in BOOLEAN /\ spoken \in BOOLEAN

\* The types; what is before the FC is a tool of the dispatch table, also where
\* a request names none (handlers.cpp:316-318).
TypeOK == Types /\ (loop \in {"await", "commit"} => call.name \in ToolNames)

Init ==
    /\ fcArmed = FALSE /\ fcAirborne = FALSE /\ fcMode = "standby" /\ link = TRUE
    /\ reported = FALSE /\ heartbeats = <<>> /\ callback = "idle" /\ seenAirborne = FALSE
    /\ aborted = FALSE /\ voiceArmed = FALSE
    /\ loop = "poll" /\ call = NoCall /\ reply = "none"
    /\ watchdog = Idle /\ restarts = 0
    /\ safeStop = FALSE /\ spoken = FALSE

Up == loop \notin {"boot", "down"}

-----------------------------------------------------------------------------
(* The flight controller. *)

\* The mode a command puts the FC in; the others leave the mode alone.
ModeAfter(name) ==
    CASE name \in {"goto_ned", "set_velocity_ned", "enable_offboard"} -> "offboard"
      [] name = "abort" -> "land"
      [] name \in {"takeoff", "land", "return_to_launch", "hold"} -> name
      [] OTHER -> fcMode

\* PX4 neither arms nor disarms in the air (only the kill switch does) and
\* takes off only when armed.
FcAllows(name) ==
    /\ name \in {"arm", "disarm"} => ~fcAirborne
    /\ name = "takeoff" => fcArmed

FcObeys(name) ==
    /\ FcAllows(name)
    /\ fcArmed' = (name = "arm" \/ (fcArmed /\ name \notin {"disarm", "kill"}))
    /\ fcMode' = ModeAfter(name)
    /\ safeStop' = (safeStop /\ fcArmed')
    /\ UNCHANGED <<fcAirborne, link>>

FcIgnores == UNCHANGED <<fc, safeStop>>

\* A command was sent: acked says whether MAVSDK reports Success.  Without a
\* link no acknowledgement comes back, and the command may or may not arrive.
FcCommand(name, acked) ==
    \/ acked /\ link /\ FcObeys(name)
    \/ ~acked /\ FcObeys(name)
    \/ ~acked /\ FcIgnores

\* Lift-off takes seconds, a queued callback milliseconds: a callback that
\* reports "disarmed" from before the arm is not still queued when the
\* aircraft leaves the ground.
StaleDisarm == callback = "clearing" \/ \E i \in DOMAIN heartbeats : heartbeats[i] = "disarmed"

LiftOff ==
    /\ fcArmed /\ ~fcAirborne /\ fcMode \in {"takeoff", "offboard"}
    /\ ~StaleDisarm
    /\ fcAirborne' = TRUE
    /\ UNCHANGED <<fcArmed, fcMode, link, mavsdk, latches, rep, watchdog, restarts, history>>

\* A landing, or a fall after the motors are cut.
TouchDown ==
    /\ fcAirborne
    /\ ~fcArmed \/ fcMode \in {"land", "return_to_launch"}
    /\ fcAirborne' = FALSE
    /\ UNCHANGED <<fcArmed, fcMode, link, mavsdk, latches, rep, watchdog, restarts, history>>

FcDisarms ==
    /\ fcArmed /\ ~fcAirborne
    /\ fcArmed' = FALSE /\ safeStop' = FALSE
    /\ UNCHANGED <<fcAirborne, fcMode, link, mavsdk, latches, rep, watchdog, restarts, spoken>>

\* Disarm on touchdown.
AutoDisarm == fcMode \in {"land", "return_to_launch"} /\ FcDisarms
\* QGroundControl or the pre-flight timeout disarms.
ExternalDisarm == fcMode \notin {"land", "return_to_launch"} /\ FcDisarms

ExternalArm ==
    /\ OperatorArms /\ ~fcArmed /\ ~fcAirborne
    /\ fcArmed' = TRUE
    /\ UNCHANGED <<fcAirborne, fcMode, link, mavsdk, latches, rep, watchdog, restarts, history>>

LinkChanges ==
    /\ link' = ~link
    /\ UNCHANGED <<fcArmed, fcAirborne, fcMode, mavsdk, latches, rep, watchdog, restarts, history>>

-----------------------------------------------------------------------------
(* MAVSDK's receive and callback threads. *)

ReceiveHeartbeat ==
    /\ Up /\ link /\ Len(heartbeats) < MaxHeartbeats
    /\ heartbeats' = Append(heartbeats, IF fcArmed THEN "armed" ELSE "disarmed")
    /\ reported' = fcArmed
    /\ UNCHANGED <<fc, callback, seenAirborne, latches, rep, watchdog, restarts, history>>

\* The FC has disarmed and MAVSDK has not said so yet.
FallingEdge == Up /\ link /\ reported /\ ~fcArmed

ReceiveLandedState ==
    /\ Up /\ link /\ seenAirborne # fcAirborne
    /\ seenAirborne' = fcAirborne
    /\ UNCHANGED <<fc, reported, heartbeats, callback, latches, rep, watchdog, restarts,
                   history>>

\* The armed lambda: nothing for armed = true, else two stores, in this order.
ArmedCallback ==
    /\ Up /\ callback = "idle" /\ heartbeats # <<>>
    /\ heartbeats' = Tail(heartbeats)
    /\ IF Head(heartbeats) = "armed"
         THEN UNCHANGED <<callback, voiceArmed>>
         ELSE callback' = "clearing" /\ voiceArmed' = FALSE
    /\ UNCHANGED <<fc, reported, seenAirborne, aborted, rep, watchdog, restarts, history>>

\* Mutant: the callback forgets the abort latch.
ArmedCallbackKeepsAbort ==
    /\ Up /\ callback = "clearing"
    /\ callback' = "idle"
    /\ UNCHANGED <<fc, reported, heartbeats, seenAirborne, latches, rep, watchdog, restarts,
                   history>>

ArmedCallbackEnds ==
    /\ Up /\ callback = "clearing"
    /\ callback' = "idle" /\ aborted' = FALSE
    /\ UNCHANGED <<fc, reported, heartbeats, seenAirborne, voiceArmed, rep, watchdog, restarts,
                   history>>

-----------------------------------------------------------------------------
(* The REQ/REP loop. *)

\* handle_abort and handle_kill set the latch before they command the FC.
Latches(c) == c.name \in {"abort", "kill"} /\ seenAirborne

\* check_tool passes and the handler commands the FC: no other thread can
\* tell the gate from the handler's first statement.
Admit(c) ==
    /\ loop = "poll"
    /\ CheckTool(c, aborted, voiceArmed) /\ HandlerAccepts(c)
    /\ loop' = "await" /\ call' = c
    /\ aborted' = (aborted \/ Latches(c))
    /\ safeStop' = (safeStop \/ (Latches(c) /\ fcAirborne /\ fcArmed))
    /\ UNCHANGED <<fc, mavsdk, voiceArmed, reply, watchdog, restarts, spoken>>

\* safety_denied, an argument error of the handler, or bad_request; the reply
\* says no more of the call.
Refuse(c) ==
    /\ loop = "poll"
    /\ ~(CheckTool(c, aborted, voiceArmed) /\ HandlerAccepts(c))
    /\ loop' = "reply" /\ reply' = "error"
    /\ UNCHANGED <<fc, mavsdk, latches, call, watchdog, restarts, history>>

\* The blocking MAVSDK call returns.
FcAnswers ==
    /\ loop = "await"
    /\ loop' = "commit"
    /\ \E acked \in BOOLEAN :
           /\ FcCommand(call.name, acked)
           /\ reply' = IF acked THEN "ok" ELSE "error"
    /\ UNCHANGED <<mavsdk, latches, call, watchdog, restarts, spoken>>

CommitWhen(unlocks, clears) ==
    /\ loop = "commit"
    /\ loop' = "reply"
    /\ LET voiceArm == unlocks /\ call.name = "arm" /\ call.voice = "true"
       IN  /\ voiceArmed' = ((voiceArmed \/ voiceArm) /\ ~clears)
           /\ spoken' = ((spoken \/ (voiceArm /\ reply = "ok")) /\ ~clears)
           /\ aborted' = (aborted /\ ~clears)
           /\ UNCHANGED reply
    /\ UNCHANGED <<fc, mavsdk, call, watchdog, restarts, safeStop>>
\* Mutant: the latch is committed although the FC did not acknowledge the arm.
CommitUnacknowledged == CommitWhen(TRUE, reply = "ok" /\ call.name = "disarm")
\* Mutant: land clears the latches as disarm does.
CommitLandClears ==
    CommitWhen(reply = "ok", reply = "ok" /\ call.name \in {"disarm", "land"})

\* result.ok: commit the session latches.  A voice_confirmed of the wrong
\* type throws here, after the arm: the client is told bad_request.
Commit ==
    /\ loop = "commit"
    /\ loop' = "reply"
    /\ LET done(name) == reply = "ok" /\ call.name = name
           voiceArm == done("arm") /\ call.voice = "true"
       IN  /\ voiceArmed' = ((voiceArmed \/ voiceArm) /\ ~done("disarm"))
           /\ aborted' = (aborted /\ ~done("disarm"))
           /\ spoken' = ((spoken \/ voiceArm) /\ ~done("disarm"))
           /\ reply' = IF done("arm") /\ call.voice = "wrong" THEN "error" ELSE reply
    /\ UNCHANGED <<fc, mavsdk, call, watchdog, restarts, safeStop>>

\* zmq_send, and the loop is ready for the next request.
SendReply ==
    /\ loop = "reply"
    /\ loop' = "poll" /\ call' = NoCall /\ reply' = "none"
    /\ UNCHANGED <<fc, mavsdk, latches, watchdog, restarts, history>>

\* Mutant: the socket is not rebuilt; every later recv returns EFSM.
SendFailsWedged ==
    /\ loop = "reply"
    /\ loop' = "efsm" /\ call' = NoCall /\ reply' = "none"
    /\ UNCHANGED <<fc, mavsdk, latches, watchdog, restarts, history>>

\* zmq_send fails: close the socket, make and bind a new one.
SendFails ==
    /\ loop = "reply"
    /\ loop' = "rebuild" /\ call' = NoCall /\ reply' = "none"
    /\ UNCHANGED <<fc, mavsdk, latches, watchdog, restarts, history>>

Rebuild ==
    /\ loop = "rebuild"
    /\ loop' = "poll"
    /\ UNCHANGED <<fc, mavsdk, latches, call, reply, watchdog, restarts, history>>

\* The new socket cannot be made or bound: break, join the threads, exit 0.
RebuildFails ==
    /\ loop = "rebuild" /\ ~watchdog.acting
    /\ loop' = "down"
    /\ UNCHANGED <<fc, mavsdk, latches, call, reply, watchdog, restarts, history>>

-----------------------------------------------------------------------------
(* The watchdog thread: one action per way through its 200 ms loop. *)

\* Mutant: a reconnection resets the timer and not action_fired.
WatchdogConnectedKeepsFired ==
    /\ Up /\ ~watchdog.acting /\ link
    /\ watchdog' = [watchdog EXCEPT !.age = 0]
    /\ UNCHANGED <<fc, mavsdk, latches, rep, restarts, history>>

WatchdogConnected ==
    /\ Up /\ ~watchdog.acting /\ link
    /\ watchdog' = Idle
    /\ UNCHANGED <<fc, mavsdk, latches, rep, restarts, history>>

WatchdogCounts ==
    /\ Up /\ ~watchdog.acting /\ ~link /\ watchdog.age < Threshold
    /\ watchdog' = [watchdog EXCEPT !.age = @ + 1]
    /\ UNCHANGED <<fc, mavsdk, latches, rep, restarts, history>>

Expired == Up /\ ~watchdog.acting /\ ~link /\ watchdog.age = Threshold /\ watchdog.fired = "no"

\* No voice-armed session: action_fired is set and nothing is commanded.
WatchdogStandsDown ==
    /\ Expired /\ ~voiceArmed
    /\ watchdog' = [watchdog EXCEPT !.fired = "blind"]
    /\ UNCHANGED <<fc, mavsdk, latches, rep, restarts, history>>

WatchdogFires ==
    /\ Expired /\ voiceArmed
    /\ watchdog' = [watchdog EXCEPT !.acting = TRUE]
    /\ UNCHANGED <<fc, mavsdk, latches, rep, restarts, history>>

\* hold() or return_to_launch() returns; its result is only logged.
WatchdogActed ==
    /\ Up /\ watchdog.acting
    /\ watchdog' = [watchdog EXCEPT !.acting = FALSE, !.fired = "acted"]
    /\ \E acked \in BOOLEAN : FcCommand(HbAction, acked)
    /\ UNCHANGED <<mavsdk, latches, rep, restarts, spoken>>

-----------------------------------------------------------------------------
(* The process dies and docker restarts it; a boot that finds no autopilot *)
(* within 5 s exits 4 and counts as one more restart.                      *)

NewProcess ==
    /\ reported' = FALSE /\ heartbeats' = <<>> /\ callback' = "idle" /\ seenAirborne' = FALSE
    /\ aborted' = FALSE /\ voiceArmed' = FALSE
    /\ call' = NoCall /\ reply' = "none" /\ watchdog' = Idle
    /\ safeStop' = FALSE /\ spoken' = FALSE
    /\ loop' = "boot" /\ restarts' = restarts + 1

Crash ==
    /\ Up /\ restarts < MaxRestarts
    /\ NewProcess
    /\ UNCHANGED fc

Boot ==
    /\ loop = "boot" /\ link
    /\ loop' = "poll"
    /\ UNCHANGED <<fc, mavsdk, latches, call, reply, watchdog, restarts, history>>

BootFails ==
    /\ loop = "boot" /\ ~link
    /\ IF restarts < MaxRestarts
         THEN NewProcess
         ELSE /\ loop' = "down"
              /\ UNCHANGED <<mavsdk, latches, call, reply, watchdog, restarts, history>>
    /\ UNCHANGED fc

-----------------------------------------------------------------------------
Flight == LiftOff \/ TouchDown \/ AutoDisarm \/ ExternalDisarm \/ ExternalArm \/ LinkChanges
Mavsdk == ReceiveHeartbeat \/ ReceiveLandedState \/ ArmedCallback \/ ArmedCallbackEnds
Answer == FcAnswers \/ Commit \/ SendReply \/ SendFails \/ Rebuild \/ RebuildFails
Watchdog == \/ WatchdogConnected \/ WatchdogCounts \/ WatchdogStandsDown
            \/ WatchdogFires \/ WatchdogActed
Process == Crash \/ Boot \/ BootFails

Next ==
    \/ Flight
    \/ Mavsdk
    \/ \E c \in Calls : Admit(c) \/ Refuse(c)
    \/ Answer
    \/ Watchdog
    \/ Process

Spec == Init /\ [][Next]_vars

\* Every thread of a live process keeps running, MAVSDK reports a disarm and the
\* landed state while there is a link, every MAVSDK call returns, and an aircraft
\* told to land lands and disarms.  That heartbeats are reported again and again
\* is not assumed.  Nothing is assumed of clients, of the link or of crashes.
Fairness ==
    /\ WF_vars(FallingEdge /\ ReceiveHeartbeat) /\ WF_vars(ReceiveLandedState)
    /\ WF_vars(ArmedCallback) /\ WF_vars(ArmedCallbackEnds)
    /\ WF_vars(Answer) /\ WF_vars(Watchdog)
    /\ WF_vars(Boot) /\ WF_vars(BootFails)
    /\ WF_vars(TouchDown) /\ WF_vars(AutoDisarm)

FairSpec == Spec /\ Fairness
-----------------------------------------------------------------------------
(* Properties. *)

\* An airborne abort or kill stays latched until the FC disarms, whatever
\* heartbeats are still queued, and until then the loop hands the FC nothing
\* but abort, kill, land and disarm (safety.hpp:48-60, handlers.cpp:177-197,
\* against the concurrent clear of main.cpp:127-132).
SafeStop ==
    safeStop => /\ aborted
                /\ loop = "await" => call.name \in EmergencyTools

\* Every setpoint handed to the FC is inside the envelope, although the gate
\* treats absent arguments as 0 and only the handlers require them
\* (safety.hpp:76-123 with handlers.cpp:112-173).
EnvelopeHeld == loop = "await" => InEnvelope(call)

\* A takeoff is handed to the FC only in a session that the FC acknowledged
\* after a voice-confirmed arm: a refused or unacknowledged arm does not leave
\* the gate open (safety.hpp:69-72, main.cpp:293-306).
SpokenTakeoff ==
    RequireSpokenArm /\ loop = "await" /\ call.name = "takeoff" => spoken

\* The loop always comes back to the poll, unless the process ends: no reply,
\* failed send or blocked call wedges the socket (main.cpp:266-342).
KeepsServing == []<>(loop \in {"poll", "down"})

\* A disarm that the bridge sees, by whomever, clears both latches, whatever
\* callbacks, calls and commits come between (main.cpp:124-132), unless the FC arms
\* again, the link drops or the process ends first.  Nothing is said of a latch that
\* is set on the ground after that: no falling edge clears it before the end of
\* another armed session (handlers.cpp:179-180).
LatchesClearAfterFlight ==
    /\ FallingEdge ~> (~aborted \/ fcArmed \/ ~link \/ ~Up)
    /\ FallingEdge ~> (~voiceArmed \/ fcArmed \/ ~link \/ ~Up)

\* A link loss that begins in a voice-armed session is answered by the
\* configured action, unless the link returns or the session ends first
\* (main.cpp:178-211).
WatchdogActs ==
    (Up /\ voiceArmed /\ ~link /\ watchdog.age = 0)
        ~> (watchdog.fired = "acted" \/ link \/ ~voiceArmed \/ ~Up)

\* An abort whose descent the FC started brings the aircraft down: "controlled
\* descent and disarm-on-touchdown" (handlers.cpp:175).
AbortLands == (safeStop /\ fcMode = "land") ~> ~fcAirborne

\* "If airborne and the autopilot heartbeat drops for >2 s, command RTL"
\* (docs/phase-2.md:65).
AirborneLossIsAnswered ==
    (fcAirborne /\ fcArmed /\ ~link)
        ~> (watchdog.fired = "acted" \/ link \/ ~fcAirborne \/ ~fcArmed \/ loop = "down")

\* The call before the FC, with a spoken arm told from one that is not.
Served ==
    IF loop \notin {"await", "commit"} THEN "none"
    ELSE IF call.name = "arm" /\ call.voice = "true" THEN "spoken_arm" ELSE call.name

Authority == INSTANCE FlightAuthority WITH
    Tools <- ToolNames \cup {"spoken_arm"}, Emergency <- EmergencyTools,
    SpokenRequired <- RequireSpokenArm, Outside <- OperatorArms,
    armed <- fcArmed, serving <- Served, session <- spoken, stop <- safeStop

\* The bridge with its threads, stale callbacks, lost acknowledgements and
\* restarts implements FlightAuthority: the latches and the gate together serve
\* a call only when the session and the stop allow it (main.cpp:266-310).
KeepsAuthority == Authority!Spec
=============================================================================
