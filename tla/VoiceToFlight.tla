---------------------------- MODULE VoiceToFlight ----------------------------
(***************************************************************************)
(* From an utterance to the flight bridge: the speech service, the         *)
(* orchestrator and the bridge's REP loop, with the two channels between   *)
(* them.                                                                   *)
(*                                                                         *)
(* STT pushes commands into the orchestrator's PULL socket.  The           *)
(* orchestrator calls the bridge over a REQ socket that it makes when it   *)
(* needs one and closes after a call that failed.  Closing drops what the  *)
(* bridge has not got yet and the answer that is still to come, but not    *)
(* the request that already is in the bridge's socket: that one is carried *)
(* out late.                                                               *)
(*                                                                         *)
(* Timing that is relied on: a socket whose peer is up hands a message     *)
(* over well within 3 s (REQ) and 500 ms (LINGER).  A REP socket takes     *)
(* requests from its connections in turn (fair queueing), not in the order *)
(* they were sent in.  Each connection holds one request, so any request   *)
(* that waits may be the next one to be served: also one given up long ago *)
(* after a newer one.                                                      *)
(***************************************************************************)
EXTENDS Orchestrator, Stt

CONSTANTS
    PullQueue,   \* RCVHWM of the PULL socket
    Inbox        \* bound: requests in the bridge's REP socket

\* Whatever STT sends is a command of the orchestrator.
ASSUME ChannelAssumption ==
    /\ {"plain", "arm", "abort"} \subseteq Commands
    /\ PullQueue \in Nat \ {0} /\ Inbox \in Nat \ {0}

VARIABLES
    pullQ,      \* commands in the PULL socket
    sent,       \* requests sent so far: the number of the last one
    closedUpTo, \* requests up to this one went over a socket closed since
    held,       \* the request in the REQ socket, as a set of at most one
    inbox,      \* requests in the bridge's REP socket, one to a connection
    serving,    \* the request the bridge serves, as a set of at most one
    answer,     \* the answer that reached the REQ socket: its number, or none
    bridge,     \* "up" or "down"
    carriedOut, \* history: the requests the bridge began to serve
    saidArm     \* history: an utterance with the word arm was read

channelVars == <<sent, closedUpTo, held, inbox, serving, answer, bridge, carriedOut>>
allVars == <<vars, sttVars, pullQ, channelVars, saidArm>>

Requests == [number : Nat, tool : Tools, confirmed : BOOLEAN]

Calls == INSTANCE CallChannel WITH
    issued <- sent, begun <- carriedOut, busy <- {r.number : r \in serving},
    waiting <- (main = "reply"), silent <- unanswered

VoiceInit ==
    /\ Init /\ SttInit
    /\ pullQ = <<>> /\ sent = 0 /\ closedUpTo = 0 /\ held = {} /\ inbox = {}
    /\ serving = {} /\ answer = {} /\ bridge \in {"up", "down"}
    /\ carriedOut = {} /\ saidArm = FALSE

-----------------------------------------------------------------------------
(* Commands: STT, its PUSH socket, the PULL socket, the command thread. *)

Speak ==
    /\ SttStep
    /\ saidArm' = (saidArm \/ outgoing' = "arm")
    /\ UNCHANGED <<vars, pullQ, channelVars>>

\* Nobody takes commands any more once the command thread has ended.
Unheard == LingerExpires /\ commandThread = "ended"
           /\ UNCHANGED <<vars, pullQ, channelVars, saidArm>>

Deliver ==
    /\ sendQ # <<>> /\ sttProcess # "gone"
    /\ main # "closed" /\ Len(pullQ) < PullQueue
    /\ pullQ' = Append(pullQ, Head(sendQ)) /\ sendQ' = Tail(sendQ)
    /\ UNCHANGED <<vars, sttMode, lines, sender, outgoing, sttStop, sttProcess, channelVars,
                   saidArm>>

Receive ==
    /\ pullQ # <<>> /\ pullQ' = Tail(pullQ)
    /\ IF Head(pullQ) = "abort" THEN ReceiveAbort ELSE ReceivePlain(Head(pullQ))
    /\ UNCHANGED <<sttVars, channelVars, saidArm>>

-----------------------------------------------------------------------------
(* Calls: the REQ socket of the orchestrator. *)

\* Mutant: voice_confirmed is what the VLM says.
RequestsOfModel ==
    {[number |-> sent + 1, tool |-> call, confirmed |-> said] :
        said \in IF call = "arm" THEN BOOLEAN ELSE {FALSE}}

\* The request made of a tool call; voice_confirmed is overwritten on an arm.
RequestsMade ==
    {[number |-> sent + 1, tool |-> call, confirmed |-> call = "arm" /\ ArmAuthorized]}

\* _dispatch_tool_call up to the send.
SendCall ==
    /\ Send
    /\ IF bridgeOffline
         THEN UNCHANGED channelVars
         ELSE /\ \E request \in RequestsMade : held' = {request}
              /\ sent' = sent + 1
              /\ UNCHANGED <<closedUpTo, inbox, serving, answer, bridge, carriedOut>>
    /\ UNCHANGED <<sttVars, pullQ, saidArm>>

\* Mutant: after a time-out the socket is kept for the next call.
KeepReqSocket == UNCHANGED <<closedUpTo, held, answer>>

\* _reset_req_socket: close(linger=0).
ResetReqSocket == closedUpTo' = sent /\ held' = {} /\ answer' = {}

\* recv() returned the bridge's answer.
GetAnswer ==
    /\ answer # {}
    /\ \E o \in Outcomes :
         /\ Reply(o) /\ o.replied
         /\ IF o.error = "wire_error" THEN ResetReqSocket
                                      ELSE answer' = {} /\ UNCHANGED <<closedUpTo, held>>
    /\ UNCHANGED <<sttVars, pullQ, saidArm, sent, inbox, serving, bridge, carriedOut>>

\* No answer within RCVTIMEO, or the socket failed, which it only does while
\* the bridge is away.
CallFails ==
    /\ answer = {} /\ (held = {} \/ bridge = "down")
    /\ \E o \in Outcomes :
         /\ Reply(o) /\ ~o.replied /\ (o.error = "wire_error" => bridge = "down")
    /\ ResetReqSocket
    /\ UNCHANGED <<sttVars, pullQ, saidArm, sent, inbox, serving, bridge, carriedOut>>

\* Sockets are closed at the end.
CloseAll ==
    /\ Close /\ ResetReqSocket /\ pullQ' = <<>>
    /\ UNCHANGED <<sttVars, saidArm, sent, inbox, serving, bridge, carriedOut>>

others == <<sttVars, pullQ, channelVars, saidArm>>

\* The main thread away from the socket, and the other threads.
Think == MainThinks /\ UNCHANGED others
Work == (CommandStep \/ ExecutorStep \/ Signal \/ Exited) /\ UNCHANGED others

-----------------------------------------------------------------------------
(* The bridge: its REP socket takes one request at a time. *)

orchestratorSide == <<vars, sttVars, pullQ, saidArm, sent, closedUpTo>>

Transmit ==
    /\ bridge = "up" /\ held # {} /\ Cardinality(inbox) < Inbox
    /\ inbox' = inbox \cup held /\ held' = {}
    /\ UNCHANGED <<orchestratorSide, serving, answer, bridge, carriedOut>>

\* recv() takes the request of any connection that has one.
ServeNext ==
    /\ bridge = "up" /\ serving = {}
    /\ \E request \in inbox :
         /\ serving' = {request} /\ inbox' = inbox \ {request}
         /\ carriedOut' = carriedOut \cup {request.number}
    /\ UNCHANGED <<orchestratorSide, held, answer, bridge>>

\* The reply goes to the connection the request came over, if it still exists.
AnswerCall ==
    /\ bridge = "up" /\ serving # {} /\ serving' = {}
    /\ answer' = answer \cup {r.number : r \in {r \in serving : r.number > closedUpTo}}
    /\ UNCHANGED <<orchestratorSide, held, inbox, bridge, carriedOut>>

BridgeEnds ==
    /\ bridge = "up" /\ bridge' = "down" /\ inbox' = {} /\ serving' = {}
    /\ UNCHANGED <<orchestratorSide, held, answer, carriedOut>>

BridgeStarts ==
    /\ bridge = "down" /\ bridge' = "up"
    /\ UNCHANGED <<orchestratorSide, held, inbox, serving, answer, carriedOut>>

-----------------------------------------------------------------------------
MainThread == Think \/ SendCall \/ GetAnswer \/ CallFails \/ CloseAll

VoiceNext ==
    \/ Speak \/ Unheard \/ Deliver \/ Receive
    \/ MainThread \/ Work
    \/ Transmit \/ ServeNext \/ AnswerCall \/ BridgeEnds \/ BridgeStarts

VoiceSpec == VoiceInit /\ [][VoiceNext]_allVars

\* The threads of both services run, sockets deliver to a peer that is up and
\* the bridge answers what it serves (requests are few, so a fair
\* recv() comes to each).  A time-out expires also while the bridge
\* comes and goes, hence the strong fairness.  Nothing is assumed of the operator, of
\* signals, of the bridge's restart or of a VLM call's end.
FairVoiceSpec ==
    /\ VoiceSpec
    /\ WF_allVars((Push \/ SendFails \/ SttClose \/ SttGone) /\ Speak)
    /\ WF_allVars(Unheard) /\ WF_allVars(Deliver) /\ WF_allVars(Receive)
    /\ WF_allVars(MainThread) /\ SF_allVars(CallFails)
    /\ WF_allVars((CommandStep \/ StartCall \/ StartStale) /\ UNCHANGED others)
    /\ WF_allVars(Transmit) /\ WF_allVars(ServeNext) /\ WF_allVars(AnswerCall)

-----------------------------------------------------------------------------
(* Properties. *)

VoiceTypeOK ==
    /\ TypeOK /\ SttTypeOK
    /\ pullQ \in Seq(Commands) /\ Len(pullQ) <= PullQueue
    /\ sent \in Nat /\ closedUpTo \in 0 .. sent /\ carriedOut \subseteq 1 .. sent
    /\ inbox \subseteq Requests /\ Cardinality(inbox) <= Inbox
    /\ held \subseteq Requests /\ serving \subseteq Requests /\ answer \subseteq Nat
    /\ Cardinality(held) <= 1 /\ Cardinality(serving) <= 1 /\ Cardinality(answer) <= 1
    /\ bridge \in {"up", "down"} /\ saidArm \in BOOLEAN

\* However late the bridge is, in whatever order it takes the requests of several
\* connections and however often sockets are closed under way, a call is carried
\* out at most once, one at a time, and no call of the orchestrator takes the late
\* answer of an earlier one for its own: nothing compares request ids, only the
\* new socket keeps them apart (main.py:566-572, 599-604, 621-628).
KeepsCalls == Calls!Spec

\* No arm of a VLM reaches the bridge with voice_confirmed unless somebody said
\* the word (main.py:333-337, 584-589).
ConfirmedArmWasSaid ==
    \A r \in held \cup serving \cup inbox : r.confirmed => saidArm

\* "aborted" is shown before the abort is sent.  Once its dispatch is over it
\* stays only over an abort that the bridge has carried out and is done with:
\* neither the late answer of another call nor a bridge that restarted passes for
\* it (main.py:339-357, 599-628).  Calls given up before may still come after it;
\* what they can do in the air is the gate's matter (SafeStop of FlightBridge).
AbortedIsTrue ==
    status = "aborted" /\ ~(IsAbort(current) /\ main \in {"send", "reply"})
        => sent \in carriedOut /\ \A r \in serving : r.number # sent

\* A signal ends an interactive session although its reader is blocked in the
\* terminal or in a full socket ("so SIGINT can still interrupt us",
\* stt/main.py:138).
SttEnds == (Interactive /\ sttStop) ~> (sttProcess = "gone")

Serves(tool) == \E r \in serving : r.tool = tool

\* An abort that is said is carried out by a bridge that is there, behind
\* whatever it is still busy with and although a VLM call hangs or the calls
\* before it were given up.  Nobody stops the services meanwhile.
AbortReachesBridge ==
    [](~stop /\ bridge = "up" /\ (sttProcess # "up" => sender = "over"))
        => ((sender = "sending" /\ outgoing = "abort") ~> Serves("abort"))

\* When the bridge may be away, an abort either gets there or the operator is
\* told that it did not (main.py:346-357).
AbortActsOrTold ==
    (main = "send" /\ IsAbort(current))
        ~> (Serves("abort") \/ status \in {"bridge_offline", "abort_failed"})
=============================================================================
