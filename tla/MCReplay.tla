------------------------------ MODULE MCReplay ------------------------------
(* A small instance of Replay for TLC. *)
EXTENDS Replay

MCChannels == <<"rgb", "imu">>

Good(c) == [channel |-> c, form |-> "good"]
\* Interleaved channels; a message that is dropped; more than SubQueue at once.
MCStreams == {
    <<Good("rgb"), Good("imu"), Good("rgb")>>,
    <<Good("imu"), [channel |-> "rgb", form |-> "malformed"], Good("rgb"), Good("imu")>>,
    <<[channel |-> "imu", form |-> "short"], Good("imu"), Good("imu")>> }

\* Enumeration returns what the community modules' operators return.
ASSUME EnumerationAgrees ==
    /\ \A S \in SUBSET (-2..3) : Ascending(S) = SetToSortSeq(S, LAMBDA a, b : a < b)
    /\ \A n \in 0..4 : \A s \in [1..n -> {"kept", "dropped"}] :
          Only(s, {i \in 1..n : s[i] = "kept"}) = SelectSeq(s, LAMBDA x : x = "kept")
=============================================================================
