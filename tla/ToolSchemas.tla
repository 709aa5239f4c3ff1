---------------------------- MODULE ToolSchemas ----------------------------
(***************************************************************************)
(* The tools offered to the VLM: python/services/orchestrator/tools.py,    *)
(* beside the gate and the handlers of the bridge (SafetyGate).            *)
(***************************************************************************)
EXTENDS SafetyGate

Offered == {"arm", "disarm", "takeoff", "land", "return_to_launch", "hold",
            "goto_ned", "set_velocity_ned", "abort", "kill"}

\* The properties of a schema, all of type number, and those it requires.
Properties(name) ==
    CASE name = "takeoff" -> {"altitude_m"}
      [] name = "goto_ned" -> {"n", "e", "d", "yaw_deg"}
      [] name = "set_velocity_ned" -> {"vx", "vy", "vz", "yaw_deg"}
      [] OTHER -> {}

Required(name) == Properties(name) \ {"yaw_deg", "vx", "vy", "vz"}

\* "anyOf" of set_velocity_ned.
AnyOf(name, args) ==
    name = "set_velocity_ned" => \E k \in {"vx", "vy", "vz"} : Has(args, k)

SchemaValid(c) ==
    /\ c.name \in Offered
    /\ \A k \in Required(c.name) : Has(c.args, k)
    /\ \A k \in Properties(c.name) : OptionalNumber(c.args, k)
    /\ AnyOf(c.name, c.args)

----------------------------------------------------------------------------
\* "Mirrors the handler set ... keep the two in sync" (tools.py:2-3): every
\* tool offered is in the dispatch table of the bridge, and its handler takes
\* exactly the calls its schema admits, whatever their arguments.
SchemasMatchHandlers ==
    /\ Offered \subseteq ToolNames
    /\ \A c : IsToolCall(c) /\ c.name \in Offered => (SchemaValid(c) <=> HandlerAccepts(c))
=============================================================================
