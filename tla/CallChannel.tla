----------------------------- MODULE CallChannel -----------------------------
(***************************************************************************)
(* What the orchestrator may rely on when it calls the flight bridge,      *)
(* without sockets, connections and time-outs: calls are issued one at a   *)
(* time and carried out one at a time, each at most once, and an answer is *)
(* the answer of the call that is waited for.  A call that is given up may *)
(* still be carried out, also after calls that were issued later.          *)
(***************************************************************************)
EXTENDS Naturals

VARIABLES
    issued,    \* calls issued so far: the number of the last one
    begun,     \* calls that were begun
    busy,      \* the call being carried out, as a set of at most one
    waiting,   \* the last call issued is waited for
    silent     \* the last wait ended without an answer

vars == <<issued, begun, busy, waiting, silent>>

Init == issued = 0 /\ begun = {} /\ busy = {} /\ waiting = FALSE /\ silent = FALSE

Issue ==
    /\ ~waiting /\ waiting' = TRUE /\ issued' = issued + 1
    /\ UNCHANGED <<begun, busy, silent>>

Begin ==
    /\ busy = {}
    /\ \E call \in (1 .. issued) \ begun : begun' = begun \cup {call} /\ busy' = {call}
    /\ UNCHANGED <<issued, waiting, silent>>

\* Done, or broken off with the bridge.
End ==
    /\ busy # {} /\ busy' = {}
    /\ UNCHANGED <<issued, begun, waiting, silent>>

Answer ==
    /\ waiting /\ issued \in begun \ busy /\ waiting' = FALSE /\ silent' = FALSE
    /\ UNCHANGED <<issued, begun, busy>>

GiveUp ==
    /\ waiting /\ waiting' = FALSE /\ silent' = TRUE
    /\ UNCHANGED <<issued, begun, busy>>

Next == Issue \/ Begin \/ End \/ Answer \/ GiveUp

Spec == Init /\ [][Next]_vars
=============================================================================
