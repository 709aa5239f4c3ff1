-------------------------- MODULE MCVoiceToFlight --------------------------
(* An instance of VoiceToFlight for TLC. *)
EXTENDS VoiceToFlight

\* An abort first, last, after a mission with an arm and after one without.
ShortScripts == {<<"arm">>, <<"abort">>, <<"blank", "plain", "abort">>, <<"arm", "abort">>,
                 <<"comment", "arm">>}

AllModes == {"once", "file", "audio", "interactive"}
AllCommands == CommandKinds
OnePlan == {<<"arm", "takeoff">>}
=============================================================================
