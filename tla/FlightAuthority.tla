--------------------------- MODULE FlightAuthority ---------------------------
(***************************************************************************)
(* What the flight bridge promises to whoever stands under the aircraft,   *)
(* without its threads, latches, callbacks and link: which tool calls are  *)
(* served, one at a time, and what must have happened before.              *)
(*                                                                         *)
(* A session is opened by a spoken arm and closed by the disarm tool.  A   *)
(* stop begins with an abort or a kill and lasts until the motors are off. *)
(* An arm with voice_confirmed is the tool "spoken_arm" here.              *)
(***************************************************************************)
CONSTANTS
    Tools,           \* the tools clients may call
    Emergency,       \* the ones that are served during a stop
    SpokenRequired,  \* safety.require_spoken_arm
    Outside          \* somebody else may arm the aircraft

VARIABLES armed, serving, session, stop

vars == <<armed, serving, session, stop>>

Init == armed = FALSE /\ serving = "none" /\ session = FALSE /\ stop = FALSE

\* A call goes to the flight controller.
Serve(tool) ==
    /\ serving = "none" /\ serving' = tool
    /\ stop => tool \in Emergency
    /\ SpokenRequired /\ tool \in {"arm", "takeoff"} => session
    /\ \/ tool \in {"abort", "kill"} /\ armed /\ stop' = TRUE
       \/ UNCHANGED stop
    /\ UNCHANGED <<armed, session>>

\* The call is over: a spoken arm may have opened the session, a disarm closed it.
Finish ==
    /\ serving # "none" /\ serving' = "none"
    /\ \/ serving = "spoken_arm" /\ session' = TRUE
       \/ serving = "disarm" /\ session' = FALSE
       \/ UNCHANGED session
    /\ UNCHANGED <<armed, stop>>

\* The motors go on for a call that is being served, or from outside.
Arms ==
    /\ ~armed /\ armed' = TRUE
    /\ Outside \/ serving \in {"arm", "spoken_arm"}
    /\ UNCHANGED <<serving, session, stop>>

\* The motors go off, which ends a stop and nothing else does.
Disarms ==
    /\ armed /\ armed' = FALSE /\ stop' = FALSE
    /\ UNCHANGED <<serving, session>>

\* A new process knows of no session and no stop.
Restart ==
    /\ serving' = "none" /\ session' = FALSE /\ stop' = FALSE
    /\ UNCHANGED armed

Next == (\E tool \in Tools : Serve(tool)) \/ Finish \/ Arms \/ Disarms \/ Restart

Spec == Init /\ [][Next]_vars
=============================================================================
