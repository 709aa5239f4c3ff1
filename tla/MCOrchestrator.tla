--------------------------- MODULE MCOrchestrator ---------------------------
(* Instances of Orchestrator for TLC. *)
EXTENDS Orchestrator

\* An empty batch, a batch that ends the mission early and one that may fail
\* at its first or at its second call.
ShortBatches == {<<>>, <<"arm", "takeoff">>, <<"land">>}

\* A plan as long as the stuck window.
LongBatches == {<<"arm", "takeoff", "goto_ned", "land">>}

AllCommands == CommandKinds
PlainCommands == {"plain"}
=============================================================================
