--------------------------- MODULE MCFlightBridge ---------------------------
(* Tool calls for TLC.  Altitudes up to 2, a fence of radius 2 and a speed  *)
(* limit of 1 make each bound have a value on it and one beyond it.         *)
EXTENDS FlightBridge

Tool(name) == [name |-> name, args |-> <<>>, voice |-> "absent"]
With(name, args) == [name |-> name, args |-> args, voice |-> "absent"]
Arm(voice) == [name |-> "arm", args |-> <<>>, voice |-> voice]

Flying == {Arm("true"), With("takeoff", [altitude_m |-> 2]), Tool("abort")}

\* Every tool of the dispatch table, spoken and unspoken arms, and each way
\* an argument can be missing, mistyped, on a limit or beyond it.
AllCalls ==
    Flying
    \cup {Arm(v) : v \in {"absent", "wrong"}}
    \cup {Tool(n) : n \in {"disarm", "land", "kill", "hold", "return_to_launch",
                           "enable_offboard", "get_health", "takeoff", "goto_ned",
                           "set_velocity_ned", "set_param", "malformed", "unknown"}}
    \cup {With("get_param", [name |-> x]) : x \in {0, 1, WrongType}}
    \cup {With("set_param", [name |-> 1, int_value |-> x, float_value |-> 1]) :
              x \in {1, WrongType}}
    \cup {With("takeoff", [altitude_m |-> a]) : a \in {0, 3, WrongType}}
    \cup {With("goto_ned", [n |-> 2, e |-> 0, d |-> d]) : d \in {-2, -3, 1}}
    \cup {With("goto_ned", [n |-> 1, e |-> 2, d |-> -1]),
          With("goto_ned", [n |-> 1, e |-> 1]),
          With("goto_ned", [n |-> 1, e |-> WrongType, d |-> -1])}
    \cup {With("set_velocity_ned", [vx |-> 1]),
          With("set_velocity_ned", [vx |-> 1, vz |-> -1]),
          With("set_velocity_ned", [vx |-> 0, vy |-> WrongType])}

\* Enough to fly, stop, and end a session: for the liveness runs.
SessionCalls == Flying \cup {Tool("disarm"), Tool("goto_ned")}
=============================================================================
