------------------------ MODULE VoiceToFlightProofs ------------------------
(***************************************************************************)
(* Theorems about the way from an utterance to the flight bridge: the      *)
(* composition runs the orchestrator as specified, its calls keep the      *)
(* promise of CallChannel, and a confirmed arm was said by somebody.       *)
(***************************************************************************)
EXTENDS VoiceToFlight, OrchestratorProofs, FiniteSetTheorems

-----------------------------------------------------------------------------
(* The voice path.  With the word arm unsaid it carries nothing that says   *)
(* arm, so every queue on it is a sequence over what has been said.         *)

SaidCommands == IF saidArm THEN Commands ELSE Commands \ {"arm"}
SaidUtterances == {"comment", "plain", "abort"} \cup (IF saidArm THEN {"arm"} ELSE {})
SaidRequests == {r \in Requests : r.confirmed => saidArm}

VoiceInv ==
    /\ saidArm \in BOOLEAN
    /\ lines \in Seq(Utterances)
    /\ sender \in {"next", "sending", "over"}
    /\ outgoing \in SaidUtterances \cup {"blank"}
    /\ sender = "sending" => outgoing # "blank"
    /\ sendQ \in Seq(SaidCommands) /\ pullQ \in Seq(SaidCommands)
    /\ commandQ \in Seq(SaidCommands)
    /\ current \in SaidCommands \cup {"none"}

\* Nothing has been said or sent at the start.
LEMMA VoiceInitially == VoiceInit => VoiceInv
<1> SUFFICES ASSUME VoiceInit PROVE VoiceInv
  OBVIOUS
<1>1. lines \in Seq(Utterances)
  BY SttAssumption DEF VoiceInit, SttInit
<1>2. saidArm = FALSE /\ <<>> \in Seq(SaidCommands)
  BY EmptySeq DEF VoiceInit
<1> QED
  BY <1>1, <1>2 DEF VoiceInit, SttInit, Init, VoiceInv, SaidUtterances

\* More is said than before: what was a sequence over it stays one.
LEMMA SaidGrows ==
    ASSUME saidArm => saidArm', NEW q \in Seq(SaidCommands)
    PROVE  q \in Seq(SaidCommands')
<1>1. SaidCommands \subseteq SaidCommands'
  BY DEF SaidCommands
<1> QED
  BY <1>1, SeqMonotonic

\* The speech service says arm only once it has read it.
LEMMA SpeakKeepsVoice == VoiceInv /\ Speak => VoiceInv'
<1> SUFFICES ASSUME VoiceInv, Speak PROVE VoiceInv'
  OBVIOUS
<1> USE DEF VoiceInv, Speak
<1>1. /\ saidArm' \in BOOLEAN /\ (saidArm => saidArm') /\ (outgoing' = "arm" => saidArm')
      /\ UNCHANGED <<commandQ, current, pullQ>>
  BY DEF vars, queue
<1>2. /\ pullQ' \in Seq(SaidCommands') /\ commandQ' \in Seq(SaidCommands')
      /\ current' \in SaidCommands' \cup {"none"}
  BY <1>1, SaidGrows DEF SaidCommands
<1>3. CASE ReadLine
  <2>1. Head(lines) \in Utterances /\ lines' \in Seq(Utterances)
    BY <1>3, HeadTailProperties DEF ReadLine
  <2>2. sendQ' \in Seq(SaidCommands')
    BY <1>1, <1>3, SaidGrows DEF ReadLine
  <2>3. outgoing' \in SaidUtterances' \cup {"blank"} /\ (sender' = "sending" => outgoing' # "blank")
        /\ sender' \in {"next", "sending", "over"}
    BY <1>1, <1>3, <2>1 DEF ReadLine, Skips, SaidUtterances, Utterances
  <2> QED
    BY <1>1, <1>2, <2>1, <2>2, <2>3
<1>4. CASE Push
  <2>1. Command(outgoing) \in SaidCommands
    BY <1>4, ChannelAssumption DEF Push, Command, SaidCommands, SaidUtterances
  <2>2. sendQ' \in Seq(SaidCommands)
    BY <1>4, <2>1, AppendProperties DEF Push
  <2>3. sendQ' \in Seq(SaidCommands')
    BY <1>1, <2>2, SaidGrows
  <2> QED
    BY <1>1, <1>2, <1>4, <2>3 DEF Push, SaidUtterances
<1>5. CASE AudioFails \/ NoMoreLines \/ SendFails \/ SttSignal \/ SttClose \/ SttGone
  <2>1. sendQ' = sendQ /\ outgoing' = outgoing /\ lines' \in Seq(Utterances)
        /\ (sender' = sender \/ sender' = "over")
    BY <1>5, EmptySeq DEF AudioFails, NoMoreLines, SendFails, SttSignal, SttClose, SttGone
  <2>2. sendQ' \in Seq(SaidCommands')
    BY <1>1, <2>1, SaidGrows
  <2> QED
    BY <1>1, <1>2, <2>1, <2>2 DEF SaidUtterances
<1> QED
  BY <1>3, <1>4, <1>5 DEF SttStep

\* Sockets, queue and main thread hand commands on as they are.
LEMMA OthersKeepVoice ==
    ASSUME VoiceInv, [VoiceNext]_allVars, ~Speak
    PROVE  VoiceInv'
<1> USE DEF VoiceInv
<1>1. CASE Unheard
  BY <1>1, EmptySeq DEF Unheard, LingerExpires, vars, queue, SaidCommands, SaidUtterances
<1>2. CASE Deliver
  <2>1. pullQ' \in Seq(SaidCommands) /\ sendQ' \in Seq(SaidCommands)
    BY <1>2, HeadTailProperties, AppendProperties DEF Deliver
  <2> QED
    BY <1>2, <2>1 DEF Deliver, vars, queue, SaidCommands, SaidUtterances
<1>3. CASE Receive
  <2>1. Head(pullQ) \in SaidCommands /\ pullQ' \in Seq(SaidCommands)
    BY <1>3, HeadTailProperties DEF Receive
  <2>2. commandQ' \in {commandQ, Append(commandQ, Head(pullQ))} /\ current' = current
    BY <1>3 DEF Receive, ReceivePlain, ReceiveAbort
  <2>3. commandQ' \in Seq(SaidCommands)
    <3>1. Append(commandQ, Head(pullQ)) \in Seq(SaidCommands)
      BY <2>1, AppendProperties
    <3> QED
      BY <2>2, <3>1
  <2> QED
    BY <1>3, <2>1, <2>2, <2>3 DEF Receive, sttVars, SaidCommands, SaidUtterances
<1>4. ASSUME UNCHANGED <<sttVars, pullQ, saidArm>>, commandQ' \in Seq(SaidCommands),
             current' \in {current, "none"} \/ current' \in SaidCommands
      PROVE  VoiceInv'
  BY <1>4 DEF sttVars, SaidCommands, SaidUtterances
<1>5. CASE TakeCommand /\ UNCHANGED others
  <2>1. commandQ' \in Seq(SaidCommands) /\ current' \in SaidCommands
    BY <1>5, HeadTailProperties DEF TakeCommand
  <2> QED
    BY <1>4, <1>5, <2>1 DEF others
<1>6. ASSUME NEW o, Finish(o) PROVE current' \in {current, "none"}
  BY <1>6 DEF Finish, FinishAbort, RecordCall
<1>7. CASE SendCall \/ GetAnswer \/ CallFails
  <2>1. UNCHANGED <<commandQ, sttVars, pullQ, saidArm>> /\ current' \in {current, "none"}
    BY <1>6, <1>7 DEF SendCall, GetAnswer, CallFails, Send, Reply, queue
  <2> QED
    BY <1>4, <2>1
<1>8. CASE CloseAll
  BY <1>8, EmptySeq DEF CloseAll, Close, sttVars, SaidCommands, SaidUtterances
<1>9. CASE (MainThinks /\ ~TakeCommand) /\ UNCHANGED others
  <2>1. commandQ' = commandQ /\ current' \in {current, "none"}
    BY <1>9 DEF MainThinks, Start, LoopEnds, Ask, Abandon, VlmError, Decide, NextTool,
       PreemptBatch, BatchDone, EndMission, MainEnds, queue
  <2> QED
    BY <1>4, <1>9, <2>1 DEF others
<1>10. CASE Work
  <2>1. CASE PutAbort
    <3>1. "abort" \in SaidCommands
      BY ChannelAssumption DEF SaidCommands
    <3>2. commandQ' \in Seq(SaidCommands) /\ current' = current
      BY <2>1, <3>1, AppendProperties DEF PutAbort
    <3> QED
      BY <1>4, <1>10, <3>2 DEF Work, others
  <2>2. CASE Drain
    BY <1>4, <1>10, <2>2, EmptySeq DEF Work, others, Drain
  <2>3. CASE SignalAbort \/ CommandThreadEnds
    BY <1>4, <1>10, <2>3 DEF Work, others, SignalAbort, CommandThreadEnds
  <2>4. CASE ExecutorStep
    BY <1>4, <1>10, <2>4 DEF Work, others, ExecutorStep, StartCall, StartStale, FinishCall,
       FinishStale, queue
  <2>5. CASE Signal \/ Exited
    BY <1>4, <1>10, <2>5 DEF Work, others, Signal, Exited, vars, queue
  <2> QED
    BY <1>10, <2>1, <2>2, <2>3, <2>4, <2>5 DEF Work, CommandStep
<1>11. CASE Transmit \/ ServeNext \/ AnswerCall \/ BridgeEnds \/ BridgeStarts
  <2>1. UNCHANGED orchestratorSide
    BY <1>11 DEF Transmit, ServeNext, AnswerCall, BridgeEnds, BridgeStarts
  <2> QED
    BY <1>4, <2>1 DEF orchestratorSide, vars, queue
<1>12. CASE UNCHANGED allVars
  BY <1>4, <1>12 DEF allVars, vars, queue
<1> QED
  BY <1>1, <1>2, <1>3, <1>5, <1>7, <1>8, <1>9, <1>10, <1>11, <1>12
     DEF VoiceNext, MainThread, Think

\* The invariant of the voice path holds in every reachable state.
LEMMA VoiceInvHolds == VoiceSpec => []VoiceInv
<1>1. VoiceInv /\ [VoiceNext]_allVars => VoiceInv'
  BY SpeakKeepsVoice, OthersKeepVoice
<1> QED
  BY VoiceInitially, <1>1, PTL DEF VoiceSpec

-----------------------------------------------------------------------------
(* The composition runs the orchestrator. *)

\* Every step of the composition is one of the orchestrator's, or none of its
\* business: sockets and the bridge add no behaviour to it.
LEMMA VoiceStepIsStep == VoiceInv /\ [VoiceNext]_allVars => [Next]_vars
<1> SUFFICES ASSUME VoiceInv, [VoiceNext]_allVars PROVE [Next]_vars
  OBVIOUS
<1>1. CASE Receive
  <2>1. Head(pullQ) \in Commands
    BY <1>1, HeadTailProperties DEF Receive, VoiceInv, SaidCommands
  <2> QED
    BY <1>1, <2>1 DEF Receive, Next
<1>2. CASE MainThread
  BY <1>2 DEF MainThread, Think, SendCall, GetAnswer, CallFails, CloseAll, Next, MainStep
<1>3. CASE Work
  BY <1>3 DEF Work, Next
<1>4. CASE Speak \/ Unheard \/ Deliver
  BY <1>4 DEF Speak, Unheard, Deliver
<1>5. CASE Transmit \/ ServeNext \/ AnswerCall \/ BridgeEnds \/ BridgeStarts
  BY <1>5 DEF Transmit, ServeNext, AnswerCall, BridgeEnds, BridgeStarts, orchestratorSide
<1>6. CASE UNCHANGED allVars
  BY <1>6 DEF allVars
<1> QED
  BY <1>1, <1>2, <1>3, <1>4, <1>5, <1>6 DEF VoiceNext

\* Between STT and the bridge the orchestrator behaves as Orchestrator says, so
\* whatever is proved of it there holds here (main.py:235-256, 311-337, 566-628).
THEOREM RunsTheOrchestrator == VoiceSpec => Spec
<1>1. VoiceInit => Init
  BY DEF VoiceInit
<1> QED
  BY <1>1, VoiceInvHolds, VoiceStepIsStep, PTL DEF VoiceSpec, Spec

\* The late call after an abort stays one with real channels around the
\* orchestrator (main.py:429).
THEOREM FewLateCallsInFlight == VoiceSpec => []LateCalls
  BY RunsTheOrchestrator, FewLateCalls, PTL

\* The promises about aborts carry over: with sockets that fill and a bridge that
\* comes and goes, no command overtakes a signalled one, the main thread only
\* comes nearer to it, and none ends a mission it did not come in (main.py:
\* 239-250, 331, 379-400).
THEOREM AbortsInFlight == VoiceSpec => AbortIsNext /\ AbortComesUp /\ []NoSpuriousPreempt
  BY RunsTheOrchestrator, AbortOvertakes, AbortIsNear, PreemptIsJustified, PTL

\* So do those about the end and about a bridge that is away: a signal leaves both
\* threads a bounded number of steps, and the orchestrator does not rest over an
\* offline bridge without showing it (main.py:235-256, 311-317, 477-498).
THEOREM EndInFlight == VoiceSpec => StopRunsDown /\ []OfflineShown
  BY RunsTheOrchestrator, StopIsBounded, OfflineIsShown, PTL

-----------------------------------------------------------------------------
(* The channel of calls. *)

\* What waits in the bridge's socket or is being served was sent and, while it
\* waits, has not been begun; one whose connection is open is the call that is
\* waited for, and it has one place: the REQ socket, the bridge's socket, the
\* bridge, or it has been answered.
AtBridge == inbox \cup serving

ChannelInv ==
    /\ sent \in Nat /\ closedUpTo \in 0 .. sent /\ carriedOut \subseteq 1 .. sent
    /\ bridge \in {"up", "down"}
    /\ inbox \subseteq Requests
    /\ \A r \in inbox : r.number \in (1 .. sent) \ carriedOut
    /\ \A r, s \in inbox : r.number = s.number => r = s
    /\ held \subseteq Requests
    /\ \A r, s \in held : r = s
    /\ \A r \in held : r.number = sent
    /\ held # {} => /\ main = "reply" /\ answer = {} /\ sent \in Nat \ {0}
                    /\ sent \notin carriedOut
                    /\ \A r \in inbox : r.number # sent
    /\ serving \subseteq Requests
    /\ \A r \in serving : r.number \in carriedOut
    /\ answer \subseteq {sent}
    /\ answer # {} => /\ main = "reply" /\ sent \in carriedOut
                      /\ \A r \in serving : r.number # sent
    /\ main # "reply" => \A r \in AtBridge : r.number <= closedUpTo
    /\ \A r \in AtBridge : r.number > closedUpTo => r.number = sent

\* No request has been made at the start.
LEMMA ChannelInitially == VoiceInit => ChannelInv
  BY DEF VoiceInit, ChannelInv, AtBridge

\* What the orchestrator does away from the REQ socket leaves the channel alone.
LEMMA AwayKeepsChannel ==
    ASSUME ChannelInv, UNCHANGED channelVars,
           main' = main \/ (main # "reply" /\ main' # "reply")
    PROVE  ChannelInv'
  BY DEF ChannelInv, AtBridge, channelVars

\* Steps that are not a call's begin or end do not touch the wait for one.
LEMMA ThinkingIsAway ==
    ASSUME MainThinks \/ Close
    PROVE  main # "reply" /\ main' # "reply" /\ unanswered' = unanswered
<1>1. CASE TakeCommand \/ Start \/ LoopEnds \/ Ask \/ Abandon \/ VlmError
  BY <1>1 DEF TakeCommand, Start, LoopEnds, Ask, Abandon, VlmError, history
<1>2. CASE \E b \in Batches : Decide(b)
  BY <1>2 DEF Decide, history
<1>3. CASE NextTool \/ PreemptBatch \/ BatchDone \/ MainEnds \/ Close
  BY <1>3 DEF NextTool, PreemptBatch, BatchDone, MainEnds, Close, history
<1>4. CASE EndMission
  BY <1>4 DEF EndMission, Idle, history
<1> QED
  BY <1>1, <1>2, <1>3, <1>4 DEF MainThinks

\* Neither do the other threads.
LEMMA WorkIsAway ==
    ASSUME CommandStep \/ ExecutorStep \/ Signal \/ Exited
           \/ ReceiveAbort \/ (\E c \in Commands \cup {Head(pullQ)} : ReceivePlain(c))
    PROVE  main' = main /\ unanswered' = unanswered
<1>1. CASE CommandStep
  BY <1>1 DEF CommandStep, Drain, PutAbort, SignalAbort, CommandThreadEnds, history
<1>2. CASE ExecutorStep
  BY <1>2 DEF ExecutorStep, StartCall, StartStale, FinishCall, FinishStale, history
<1>3. CASE Signal \/ Exited
  BY <1>3 DEF Signal, Exited, vars, history
<1>4. CASE ReceiveAbort \/ (\E c \in Commands \cup {Head(pullQ)} : ReceivePlain(c))
  BY <1>4 DEF ReceiveAbort, ReceivePlain, history
<1> QED
  BY <1>1, <1>2, <1>3, <1>4

\* Once a dispatch has ended nothing is waited for.
LEMMA FinishIsOver ==
    ASSUME NEW o, Finish(o)
    PROVE  main' # "reply"
  BY DEF Finish, FinishAbort, RecordCall, Idle

\* A call begins: its request is the only one of an open connection.
LEMMA SendKeepsChannel ==
    ASSUME ChannelInv, TypeInv, SendCall
    PROVE  ChannelInv'
<1>1. CASE bridgeOffline
  <2>1. main # "reply" /\ main' # "reply" /\ UNCHANGED channelVars
    BY <1>1, FinishIsOver DEF SendCall, Send
  <2> QED
    BY <2>1, AwayKeepsChannel
<1>2. CASE ~bridgeOffline
  <2>1. /\ main = "send" /\ main' = "reply" /\ sent' = sent + 1
        /\ UNCHANGED <<closedUpTo, inbox, serving, answer, bridge, carriedOut>>
    BY <1>2 DEF SendCall, Send
  <2>2. PICK r \in RequestsMade : held' = {r}
    BY <1>2 DEF SendCall
  <2>3. r \in Requests /\ r.number = sent + 1
    <3>1. call \in Tools
      BY <2>1 DEF TypeInv
    <3>2. r = [number |-> sent + 1, tool |-> call, confirmed |-> (call = "arm" /\ ArmAuthorized)]
      BY <2>2 DEF RequestsMade
    <3>3. (call = "arm" /\ ArmAuthorized) \in BOOLEAN
      BY DEF ArmAuthorized
    <3> QED
      BY <3>1, <3>2, <3>3 DEF ChannelInv, Requests
  <2>4. /\ sent \in Nat /\ closedUpTo \in 0 .. sent /\ sent' = sent + 1
        /\ answer = {} /\ \A x \in AtBridge : x.number \in Nat /\ x.number <= closedUpTo
    BY <2>1 DEF ChannelInv, AtBridge, Requests
  <2>5. AtBridge' = AtBridge /\ carriedOut \subseteq 1 .. sent
    BY <2>1 DEF AtBridge, ChannelInv
  <2>6. /\ sent' \in Nat \ {0} /\ closedUpTo' \in 0 .. sent' /\ carriedOut' \subseteq 1 .. sent'
        /\ sent' \notin carriedOut'
        /\ \A x \in AtBridge' : x.number # sent' /\ ~(x.number > closedUpTo')
    BY <2>1, <2>4, <2>5
  <2>7. \A x \in inbox : x.number \in (1 .. sent') \ carriedOut /\ x.number # sent'
    <3>1. \A x \in inbox : x.number \in (1 .. sent) \ carriedOut
      BY DEF ChannelInv
    <3> QED
      BY <2>4, <3>1
  <2> QED
    BY <2>1, <2>2, <2>3, <2>4, <2>6, <2>7 DEF ChannelInv
<1> QED
  BY <1>1, <1>2

\* A call ends with its own answer, or the socket is closed over it.
LEMMA EndKeepsChannel ==
    ASSUME ChannelInv, GetAnswer \/ CallFails \/ CloseAll
    PROVE  ChannelInv'
<1> DEFINE Closing == /\ main' # "reply" /\ closedUpTo' = sent /\ held' = {} /\ answer' = {}
                      /\ UNCHANGED <<sent, inbox, serving, bridge, carriedOut>>
<1>1. ASSUME Closing PROVE ChannelInv'
  <2>1. /\ AtBridge' = AtBridge /\ sent' = sent /\ sent \in Nat
        /\ \A r \in inbox : r.number \in (1 .. sent)
        /\ \A r \in serving : r.number \in (1 .. sent)
    BY <1>1 DEF ChannelInv, AtBridge
  <2>2. /\ closedUpTo' \in 0 .. sent
        /\ \A r \in AtBridge' : r.number <= closedUpTo' /\ ~(r.number > closedUpTo')
    BY <1>1, <2>1 DEF AtBridge
  <2> QED
    BY <1>1, <2>1, <2>2 DEF ChannelInv
<1>2. CASE GetAnswer
  <2>1. PICK o \in Outcomes :
             /\ Reply(o)
             /\ IF o.error = "wire_error" THEN ResetReqSocket
                                          ELSE answer' = {} /\ UNCHANGED <<closedUpTo, held>>
    BY <1>2 DEF GetAnswer
  <2>2. main' # "reply"
    BY <2>1, FinishIsOver DEF Reply
  <2>3. answer # {} /\ UNCHANGED <<sent, inbox, serving, bridge, carriedOut>>
    BY <1>2 DEF GetAnswer
  <2>4. CASE ResetReqSocket
    BY <1>1, <2>2, <2>3, <2>4 DEF ResetReqSocket
  <2>5. CASE answer' = {} /\ UNCHANGED <<closedUpTo, held>>
    <3>1. held = {} /\ sent \in carriedOut /\ \A r \in serving : r.number # sent
      BY <2>3 DEF ChannelInv
    <3>2. \A r \in AtBridge : r.number # sent
      BY <3>1 DEF ChannelInv, AtBridge
    <3>3. \A r \in AtBridge : r.number <= closedUpTo
      <4>1. \A r \in AtBridge : r.number \in Nat
        BY DEF ChannelInv, AtBridge, Requests
      <4>2. \A r \in AtBridge : ~(r.number > closedUpTo)
        BY <3>2 DEF ChannelInv
      <4> QED
        BY <4>1, <4>2 DEF ChannelInv
    <3>4. AtBridge' = AtBridge
      BY <2>3 DEF AtBridge
    <3> QED
      BY <2>2, <2>3, <2>5, <3>1, <3>3, <3>4 DEF ChannelInv
  <2> QED
    BY <2>1, <2>4, <2>5
<1>3. CASE CallFails
  <2>1. \E o \in Outcomes : Reply(o)
    BY <1>3 DEF CallFails
  <2>2. main' # "reply"
    BY <2>1, FinishIsOver DEF Reply
  <2> QED
    BY <1>1, <1>3, <2>2 DEF CallFails, ResetReqSocket
<1>4. CASE CloseAll
  <2>1. main' # "reply"
    BY <1>4, ThinkingIsAway DEF CloseAll
  <2> QED
    BY <1>1, <1>4, <2>1 DEF CloseAll, ResetReqSocket
<1> QED
  BY <1>2, <1>3, <1>4

\* The request leaves the REQ socket and waits at the bridge.
LEMMA TransmitKeepsChannel == ASSUME ChannelInv, Transmit PROVE ChannelInv'
<1>1. PICK r : held = {r}
  BY DEF Transmit, ChannelInv
<1>2. r \in Requests /\ r.number = sent /\ held' = {} /\ inbox' = inbox \cup {r}
  BY <1>1 DEF Transmit, ChannelInv
<1>3. /\ UNCHANGED <<main, sent, closedUpTo, serving, answer, bridge, carriedOut>>
      /\ main = "reply" /\ answer = {} /\ sent \in Nat \ {0} /\ sent \notin carriedOut
      /\ \A x \in inbox : x.number # sent
  BY <1>1 DEF Transmit, ChannelInv, orchestratorSide, vars
<1>4. \A x \in inbox' : x \in inbox \/ x = r
  BY <1>2
<1>5. r.number \in (1 .. sent') \ carriedOut'
  BY <1>2, <1>3
<1>6. /\ inbox' \subseteq Requests
      /\ \A x \in inbox' : x.number \in (1 .. sent') \ carriedOut'
      /\ \A x, y \in inbox' : x.number = y.number => x = y
  BY <1>2, <1>3, <1>4, <1>5 DEF ChannelInv
<1>7. AtBridge' = AtBridge \cup {r}
  BY <1>2, <1>3 DEF AtBridge
<1>8. \A x \in AtBridge' : x.number > closedUpTo' => x.number = sent'
  BY <1>2, <1>3, <1>7 DEF ChannelInv
<1> QED
  BY <1>2, <1>3, <1>6, <1>8 DEF ChannelInv

\* The bridge takes any request that waits; what is waited for stays so.
LEMMA ServeKeepsChannel == ASSUME ChannelInv, ServeNext PROVE ChannelInv'
<1>1. PICK r \in inbox : /\ serving' = {r} /\ inbox' = inbox \ {r}
                         /\ carriedOut' = carriedOut \cup {r.number}
  BY DEF ServeNext
<1>2. serving = {} /\ UNCHANGED <<main, sent, closedUpTo, held, answer, bridge>>
  BY DEF ServeNext, orchestratorSide, vars
<1>3. r \in Requests /\ r.number \in (1 .. sent) \ carriedOut
  BY DEF ChannelInv
<1>4. AtBridge' = AtBridge
  BY <1>1, <1>2 DEF AtBridge
<1>5. /\ carriedOut' \subseteq 1 .. sent'
      /\ \A x \in inbox' : x.number \in (1 .. sent') \ carriedOut'
      /\ \A x \in serving' : x.number \in carriedOut'
  BY <1>1, <1>2, <1>3 DEF ChannelInv
<1>6. held' # {} => sent' \notin carriedOut' /\ \A x \in inbox' : x.number # sent'
  BY <1>1, <1>2 DEF ChannelInv
<1>7. answer' # {} => sent' \in carriedOut' /\ \A x \in serving' : x.number # sent'
  BY <1>1, <1>2, <1>3 DEF ChannelInv
<1> QED
  BY <1>1, <1>2, <1>3, <1>4, <1>5, <1>6, <1>7 DEF ChannelInv

\* An answer goes to the open connection, and that is the one of the last call.
LEMMA BridgeKeepsChannel ==
    ASSUME ChannelInv, AnswerCall \/ BridgeEnds \/ BridgeStarts
    PROVE  ChannelInv'
<1>1. CASE AnswerCall
  <2>1. /\ serving # {} /\ serving' = {} /\ UNCHANGED <<main, sent, closedUpTo, held, inbox>>
        /\ UNCHANGED <<bridge, carriedOut>>
        /\ answer' = answer \cup {r.number : r \in {r \in serving : r.number > closedUpTo}}
    BY <1>1 DEF AnswerCall, orchestratorSide, vars
  <2>2. answer \subseteq {sent} /\ \A r \in serving : r.number > closedUpTo => r.number = sent
    BY DEF ChannelInv, AtBridge
  <2>3. AtBridge' \subseteq AtBridge
    BY <2>1 DEF AtBridge
  <2>4. CASE \E r \in serving : r.number > closedUpTo
    <3>1. sent \in carriedOut /\ answer' \subseteq {sent} /\ main = "reply"
      <4>1. PICK r \in serving : r.number > closedUpTo
        BY <2>4
      <4>2. r.number = sent /\ r.number \in carriedOut
        BY <4>1 DEF ChannelInv, AtBridge
      <4>3. main = "reply"
        <5>1. r.number \in Nat /\ closedUpTo \in Nat
          BY DEF ChannelInv, Requests
        <5>2. ~(r.number <= closedUpTo)
          BY <4>1, <5>1
        <5> QED
          BY <5>2 DEF ChannelInv, AtBridge
      <4> QED
        BY <2>1, <2>2, <4>2, <4>3
    <3>2. held = {}
      BY <3>1 DEF ChannelInv
    <3> QED
      BY <2>1, <2>3, <3>1, <3>2 DEF ChannelInv
  <2>5. CASE ~ \E r \in serving : r.number > closedUpTo
    <3>1. answer' = answer
      BY <2>1, <2>5
    <3> QED
      BY <2>1, <2>3, <3>1 DEF ChannelInv
  <2> QED
    BY <2>4, <2>5
<1>2. CASE BridgeEnds
  <2>1. /\ inbox' = {} /\ serving' = {} /\ bridge' = "down"
        /\ UNCHANGED <<main, sent, closedUpTo, held, answer, carriedOut>>
    BY <1>2 DEF BridgeEnds, orchestratorSide, vars
  <2> QED
    BY <2>1 DEF ChannelInv, AtBridge
<1>3. CASE BridgeStarts
  BY <1>3 DEF BridgeStarts, ChannelInv, AtBridge, orchestratorSide, vars
<1> QED
  BY <1>1, <1>2, <1>3

\* Every step keeps the calls apart.
LEMMA ChannelStep ==
    ASSUME ChannelInv, TypeInv, [VoiceNext]_allVars
    PROVE  ChannelInv'
<1>1. CASE Speak \/ Unheard \/ Deliver \/ UNCHANGED allVars
  BY <1>1, AwayKeepsChannel DEF Speak, Unheard, Deliver, allVars, vars
<1>2. CASE Receive
  BY <1>2, WorkIsAway, AwayKeepsChannel DEF Receive
<1>3. CASE Think
  BY <1>3, ThinkingIsAway, AwayKeepsChannel DEF Think, others
<1>4. CASE Work
  BY <1>4, WorkIsAway, AwayKeepsChannel DEF Work, others
<1>5. CASE SendCall \/ GetAnswer \/ CallFails \/ CloseAll
  BY <1>5, SendKeepsChannel, EndKeepsChannel
<1>6. CASE Transmit \/ ServeNext \/ AnswerCall \/ BridgeEnds \/ BridgeStarts
  BY <1>6, TransmitKeepsChannel, ServeKeepsChannel, BridgeKeepsChannel
<1> QED
  BY <1>1, <1>2, <1>3, <1>4, <1>5, <1>6 DEF VoiceNext, MainThread

\* The invariant of the channel of calls holds in every reachable state.
LEMMA ChannelInvHolds == VoiceSpec => []ChannelInv
<1>1. VoiceSpec => []TypeInv
  BY RunsTheOrchestrator, TypeInvHolds, PTL
<1>2. ChannelInv /\ TypeInv /\ [VoiceNext]_allVars => ChannelInv'
  BY ChannelStep
<1> QED
  BY ChannelInitially, <1>1, <1>2, PTL DEF VoiceSpec

\* Each step of the composition is a call's begin, end or execution, or nothing
\* to the calls.
LEMMA VoiceStepIsCallStep ==
    ASSUME ChannelInv, [VoiceNext]_allVars
    PROVE  [Calls!Next]_(Calls!vars)
<1> DEFINE Same == /\ UNCHANGED <<sent, carriedOut, serving, unanswered>>
                   /\ (main' = "reply") = (main = "reply")
<1>1. ASSUME Same PROVE UNCHANGED Calls!vars
  BY <1>1 DEF Calls!vars
<1>2. CASE Speak \/ Unheard \/ Deliver \/ UNCHANGED allVars
  BY <1>1, <1>2 DEF Speak, Unheard, Deliver, allVars, vars, channelVars, history
<1>3. CASE Receive \/ Work
  BY <1>1, <1>3, WorkIsAway DEF Receive, Work, others, channelVars
<1>4. CASE Think \/ CloseAll
  BY <1>1, <1>4, ThinkingIsAway DEF Think, CloseAll, others, channelVars
<1>5. CASE SendCall
  <2>1. main = "send" /\ unanswered' = unanswered
    BY <1>5 DEF SendCall, Send
  <2>2. CASE bridgeOffline
    <3>1. main' # "reply"
      BY <1>5, <2>2, FinishIsOver DEF SendCall, Send
    <3> QED
      BY <1>1, <1>5, <2>1, <2>2, <3>1 DEF SendCall, channelVars
  <2>3. CASE ~bridgeOffline
    <3>1. main' = "reply" /\ sent' = sent + 1 /\ UNCHANGED <<carriedOut, serving>>
      BY <1>5, <2>3 DEF SendCall, Send
    <3> QED
      BY <2>1, <3>1 DEF Calls!Issue, Calls!Next
  <2> QED
    BY <2>2, <2>3
<1>6. CASE ServeNext
  <2>1. PICK r \in inbox : /\ serving' = {r} /\ inbox' = inbox \ {r}
                           /\ carriedOut' = carriedOut \cup {r.number}
    BY <1>6 DEF ServeNext
  <2>2. serving = {} /\ UNCHANGED <<main, sent, unanswered>>
    BY <1>6 DEF ServeNext, orchestratorSide, vars, history
  <2>3. r.number \in (1 .. sent) \ carriedOut
    BY DEF ChannelInv
  <2>4. {x.number : x \in serving'} = {r.number} /\ {x.number : x \in serving} = {}
    BY <2>1, <2>2
  <2> QED
    BY <2>1, <2>2, <2>3, <2>4 DEF Calls!Begin, Calls!Next
<1>7. CASE GetAnswer
  <2>1. PICK o \in Outcomes : Reply(o) /\ o.replied
    BY <1>7 DEF GetAnswer
  <2>2. main = "reply" /\ main' # "reply" /\ unanswered' = FALSE
    BY <2>1, FinishIsOver, OutcomeFields DEF Reply
  <2>3. UNCHANGED <<sent, carriedOut, serving>>
    BY <1>7 DEF GetAnswer
  <2>4. sent \in carriedOut \ {r.number : r \in serving}
    BY <1>7 DEF GetAnswer, ChannelInv
  <2> QED
    BY <2>2, <2>3, <2>4 DEF Calls!Answer, Calls!Next
<1>8. CASE CallFails
  <2>1. PICK o \in Outcomes : Reply(o) /\ ~o.replied
    BY <1>8 DEF CallFails
  <2>2. main = "reply" /\ main' # "reply" /\ unanswered' = TRUE
    BY <2>1, FinishIsOver, OutcomeFields DEF Reply
  <2> QED
    BY <1>8, <2>2 DEF CallFails, Calls!GiveUp, Calls!Next
<1>9. CASE Transmit \/ BridgeStarts
  BY <1>1, <1>9 DEF Transmit, BridgeStarts, orchestratorSide, vars, history
<1>10. CASE AnswerCall \/ BridgeEnds
  <2>1. serving' = {} /\ UNCHANGED <<main, sent, carriedOut, unanswered>>
    BY <1>10 DEF AnswerCall, BridgeEnds, orchestratorSide, vars, history
  <2>2. CASE serving = {}
    BY <1>1, <2>1, <2>2
  <2>3. CASE serving # {}
    <3>1. {r.number : r \in serving} # {} /\ {r.number : r \in serving'} = {}
      BY <2>1, <2>3
    <3> QED
      BY <2>1, <3>1 DEF Calls!End, Calls!Next
  <2> QED
    BY <2>2, <2>3
<1> QED
  BY <1>2, <1>3, <1>4, <1>5, <1>6, <1>7, <1>8, <1>9, <1>10 DEF VoiceNext, MainThread

\* For any number of commands, tools and pending requests, however the bridge
\* comes and goes and in whatever order it takes the requests of several
\* connections: a call is carried out at most once and one at a time, and an
\* answer is the one of the call that waits (main.py:566-572, 599-604, 621-628).
THEOREM ChannelKeepsCalls == VoiceSpec => KeepsCalls
<1>1. VoiceInit => Calls!Init
  BY DEF VoiceInit, Init, Calls!Init
<1> QED
  BY <1>1, ChannelInvHolds, VoiceStepIsCallStep, PTL DEF VoiceSpec, KeepsCalls, Calls!Spec

-----------------------------------------------------------------------------
(* What the requests say. *)

\* An arm with voice_confirmed is one that somebody said.
ConfirmedInv ==
    /\ held \subseteq SaidRequests /\ serving \subseteq SaidRequests
    /\ inbox \subseteq SaidRequests

\* A confirmed arm is made in SendCall only, from the command being served.
LEMMA ConfirmedStep ==
    ASSUME ConfirmedInv, VoiceInv, VoiceInv', TypeInv, ChannelInv, [VoiceNext]_allVars
    PROVE  ConfirmedInv'
<1>1. saidArm => saidArm'
  <2>1. CASE Speak
    BY <2>1 DEF Speak, VoiceInv
  <2>2. CASE Unheard \/ Deliver \/ Receive \/ UNCHANGED allVars
    BY <2>2 DEF Unheard, Deliver, Receive, allVars
  <2>3. CASE MainThread \/ Work
    BY <2>3 DEF MainThread, Think, SendCall, GetAnswer, CallFails, CloseAll, Work, others
  <2>4. CASE Transmit \/ ServeNext \/ AnswerCall \/ BridgeEnds \/ BridgeStarts
    BY <2>4 DEF Transmit, ServeNext, AnswerCall, BridgeEnds, BridgeStarts, orchestratorSide
  <2> QED
    BY <2>1, <2>2, <2>3, <2>4 DEF VoiceNext
<1>2. SaidRequests \subseteq SaidRequests'
  BY <1>1 DEF SaidRequests
<1>3. ASSUME held' \subseteq SaidRequests, serving' \subseteq SaidRequests,
             inbox' \subseteq SaidRequests
      PROVE  ConfirmedInv'
  BY <1>2, <1>3 DEF ConfirmedInv
<1>4. CASE Speak \/ Unheard \/ Deliver \/ Receive \/ Think \/ Work \/ UNCHANGED allVars
  BY <1>3, <1>4 DEF Speak, Unheard, Deliver, Receive, Think, Work, others, channelVars,
     allVars, ConfirmedInv
<1>5. CASE SendCall
  <2>1. CASE bridgeOffline
    BY <1>3, <1>5, <2>1 DEF SendCall, channelVars, ConfirmedInv
  <2>2. CASE ~bridgeOffline
    <3>1. /\ UNCHANGED <<inbox, serving>> /\ main = "send"
      BY <1>5, <2>2 DEF SendCall, Send
    <3>2. PICK r \in RequestsMade : held' = {r}
      BY <1>5, <2>2 DEF SendCall
    <3>3. r = [number |-> sent + 1, tool |-> call, confirmed |-> (call = "arm" /\ ArmAuthorized)]
      BY <3>2 DEF RequestsMade
    <3>4. (call = "arm" /\ ArmAuthorized) \in BOOLEAN /\ call \in Tools
      BY <3>1 DEF ArmAuthorized, TypeInv
    <3>5. r \in Requests
      BY <3>3, <3>4 DEF Requests, ChannelInv
    <3>6. r.confirmed => saidArm
      BY <3>3 DEF ArmAuthorized, VoiceInv, SaidCommands
    <3> QED
      BY <1>3, <3>1, <3>2, <3>5, <3>6 DEF ConfirmedInv, SaidRequests
  <2> QED
    BY <2>1, <2>2
<1>6. CASE GetAnswer \/ CallFails \/ CloseAll
  <2>1. held' \in {held, {}} /\ UNCHANGED <<inbox, serving>>
    BY <1>6 DEF GetAnswer, CallFails, CloseAll, ResetReqSocket
  <2> QED
    BY <1>3, <2>1 DEF ConfirmedInv
<1>7. CASE Transmit
  BY <1>3, <1>7 DEF Transmit, ConfirmedInv
<1>8. CASE ServeNext
  BY <1>3, <1>8 DEF ServeNext, ConfirmedInv
<1>9. CASE AnswerCall \/ BridgeEnds \/ BridgeStarts
  <2>1. held' = held /\ serving' \in {serving, {}} /\ inbox' \in {inbox, {}}
    BY <1>9 DEF AnswerCall, BridgeEnds, BridgeStarts, orchestratorSide
  <2> QED
    BY <1>3, <2>1 DEF ConfirmedInv
<1> QED
  BY <1>4, <1>5, <1>6, <1>7, <1>8, <1>9 DEF VoiceNext, MainThread

\* No plan of the VLM arms the drone on its own: a confirmed arm, wherever it
\* is, goes back to an utterance with the word (main.py:333-337, 584-589).
THEOREM NoArmUnsaid == VoiceSpec => []ConfirmedArmWasSaid
<1>1. VoiceSpec => []TypeInv
  BY RunsTheOrchestrator, TypeInvHolds, PTL
<1>2. VoiceInit => ConfirmedInv
  BY DEF VoiceInit, ConfirmedInv
<1>3. /\ ConfirmedInv /\ VoiceInv /\ VoiceInv' /\ TypeInv /\ ChannelInv /\ [VoiceNext]_allVars
      => ConfirmedInv'
  BY ConfirmedStep
<1>4. ConfirmedInv => ConfirmedArmWasSaid
  BY DEF ConfirmedInv, ConfirmedArmWasSaid, SaidRequests
<1> QED
  BY <1>1, <1>2, <1>3, <1>4, VoiceInvHolds, ChannelInvHolds, PTL DEF VoiceSpec

-----------------------------------------------------------------------------
(* What the operator is shown of an abort. *)

\* The last request has been carried out and the bridge is done with it.
Done == sent \in carriedOut /\ \A r \in serving : r.number # sent

\* While a mission carries out its plan its own status has replaced the
\* "aborted" of the command before it: no request of a plan is made under it.
AbortedInv ==
    /\ status = "aborted" /\ ~(IsAbort(current) /\ main \in {"send", "reply"}) => Done
    /\ main \in {"batch", "send", "reply"} /\ ~IsAbort(current) => status # "aborted"

\* Away from the REQ socket "aborted" comes up only with the abort that is to be
\* sent.
LEMMA ThinkingKeepsAborted ==
    ASSUME AbortedInv, Done => Done', MainThinks \/ Close
    PROVE  AbortedInv'
<1> USE DEF AbortedInv
<1>1. CASE Start
  BY <1>1 DEF Start
<1>2. CASE TakeCommand
  BY <1>2 DEF TakeCommand
<1>3. CASE LoopEnds \/ Ask \/ Abandon \/ VlmError
  BY <1>3 DEF LoopEnds, Ask, Abandon, VlmError
<1>4. CASE \E b \in Batches : Decide(b)
  BY <1>4 DEF Decide
<1>5. CASE NextTool \/ PreemptBatch \/ BatchDone
  BY <1>5 DEF NextTool, PreemptBatch, BatchDone, mission
<1>6. CASE EndMission
  <2>1. main = "end" /\ main' \in {"idle", "ended"} /\ (status' = status \/ status' # "aborted")
    BY <1>6 DEF EndMission, Idle
  <2> QED
    BY <2>1
<1>7. CASE MainEnds \/ Close
  BY <1>7 DEF MainEnds, Close
<1> QED
  BY <1>1, <1>2, <1>3, <1>4, <1>5, <1>6, <1>7 DEF MainThinks

\* The other threads leave the status to the main thread.
LEMMA WorkLeavesStatus ==
    ASSUME CommandStep \/ ExecutorStep \/ Signal \/ Exited
           \/ ReceiveAbort \/ (\E c \in Commands \cup {Head(pullQ)} : ReceivePlain(c))
    PROVE  UNCHANGED <<main, current, status>>
<1>1. CASE CommandStep
  BY <1>1 DEF CommandStep, Drain, PutAbort, SignalAbort, CommandThreadEnds
<1>2. CASE ExecutorStep
  BY <1>2 DEF ExecutorStep, StartCall, StartStale, FinishCall, FinishStale
<1>3. CASE Signal \/ Exited
  BY <1>3 DEF Signal, Exited, vars
<1>4. CASE ReceiveAbort \/ (\E c \in Commands \cup {Head(pullQ)} : ReceivePlain(c))
  BY <1>4 DEF ReceiveAbort, ReceivePlain
<1> QED
  BY <1>1, <1>2, <1>3, <1>4

\* After the dispatch of an abort "aborted" stays only where it was answered
\* without an error; the end of any other dispatch does not bring it up.
LEMMA FinishKeepsAborted ==
    ASSUME AbortedInv, Done => Done', main \in {"send", "reply"},
           NEW o \in Outcomes \cup {Rejected}, Finish(o),
           o.error = "none" => Done'
    PROVE  AbortedInv'
<1> USE DEF AbortedInv
<1>1. CASE IsAbort(current)
  <2>1. /\ main' \notin {"batch", "send", "reply"}
        /\ status' = "aborted" => o.error = "none"
    BY <1>1 DEF Finish, FinishAbort, Idle
  <2> QED
    BY <2>1
<1>2. CASE ~IsAbort(current)
  <2>1. current' = current /\ (status' = status \/ status' = "bridge_offline")
    BY <1>2 DEF Finish, RecordCall
  <2> QED
    BY <1>2, <2>1
<1> QED
  BY <1>1, <1>2

\* Once the last request has been answered the bridge is done with it.
LEMMA AnsweredIsDone == ASSUME ChannelInv, answer # {} PROVE Done
  BY DEF ChannelInv, Done

\* A step at the REQ socket: an answer that gets there is that of the last
\* request, and without one there is an error to show.
LEMMA CallKeepsAborted ==
    ASSUME AbortedInv, ChannelInv, SendCall \/ GetAnswer \/ CallFails
    PROVE  AbortedInv'
<1>1. CASE SendCall /\ bridgeOffline
  <2>1. main = "send" /\ Finish(Rejected) /\ UNCHANGED <<sent, serving, carriedOut>>
    BY <1>1 DEF SendCall, Send, channelVars
  <2> QED
    BY <2>1, FinishKeepsAborted DEF Rejected, Done
<1>2. CASE SendCall /\ ~bridgeOffline
  <2>1. main = "send" /\ main' = "reply" /\ UNCHANGED <<current, status>>
    BY <1>2 DEF SendCall, Send
  <2> QED
    BY <2>1 DEF AbortedInv
<1>3. CASE GetAnswer
  <2>1. PICK o \in Outcomes : Reply(o)
    BY <1>3 DEF GetAnswer
  <2>2. Done
    BY <1>3, AnsweredIsDone DEF GetAnswer
  <2>3. UNCHANGED <<sent, serving, carriedOut>>
    BY <1>3 DEF GetAnswer
  <2>4. Done'
    BY <2>2, <2>3 DEF Done
  <2> QED
    BY <2>1, <2>4, FinishKeepsAborted DEF Reply
<1>4. CASE CallFails
  <2>1. PICK o \in Outcomes : Reply(o) /\ ~o.replied
    BY <1>4 DEF CallFails
  <2>2. o.error # "none" /\ (Done => Done')
    BY <1>4, <2>1 DEF CallFails, Outcomes, Done
  <2> QED
    BY <2>1, <2>2, FinishKeepsAborted DEF Reply
<1> QED
  BY <1>1, <1>2, <1>3, <1>4

\* What the bridge has done it does not take up again, whatever it takes next.
LEMMA BridgeKeepsAborted ==
    ASSUME AbortedInv, ChannelInv,
           Transmit \/ ServeNext \/ AnswerCall \/ BridgeEnds \/ BridgeStarts
    PROVE  AbortedInv'
<1>1. UNCHANGED <<main, current, status, sent>>
  BY DEF Transmit, ServeNext, AnswerCall, BridgeEnds, BridgeStarts, orchestratorSide, vars
<1>2. Done => Done'
  <2>1. CASE ServeNext
    <3>1. PICK r \in inbox : serving' = {r} /\ carriedOut' = carriedOut \cup {r.number}
      BY <2>1 DEF ServeNext
    <3>2. r.number \notin carriedOut
      BY DEF ChannelInv
    <3> QED
      BY <1>1, <3>1, <3>2 DEF Done
  <2>2. CASE Transmit \/ AnswerCall \/ BridgeEnds \/ BridgeStarts
    BY <1>1, <2>2 DEF Done, Transmit, AnswerCall, BridgeEnds, BridgeStarts
  <2> QED
    BY <2>1, <2>2
<1> QED
  BY <1>1, <1>2 DEF AbortedInv

\* "aborted" is shown before the abort is sent.  Once its dispatch is over it
\* stays only over an abort the bridge has carried out and is done with, for every
\* plan and queue size, however the bridge comes and goes and in whatever order it
\* takes its requests (main.py:339-357, 599-628).
THEOREM AbortedIsNoPromise == VoiceSpec => []AbortedIsTrue
<1>1. VoiceInit => AbortedInv
  BY DEF VoiceInit, Init, AbortedInv
<1>2. AbortedInv /\ ChannelInv /\ [VoiceNext]_allVars => AbortedInv'
  <2> SUFFICES ASSUME AbortedInv, ChannelInv, [VoiceNext]_allVars PROVE AbortedInv'
    OBVIOUS
  <2>1. ASSUME UNCHANGED <<main, current, status, channelVars>> PROVE AbortedInv'
    BY <2>1 DEF AbortedInv, Done, channelVars
  <2>2. CASE Speak \/ Unheard \/ Deliver \/ UNCHANGED allVars
    BY <2>1, <2>2 DEF Speak, Unheard, Deliver, allVars, vars
  <2>3. CASE Receive
    <3>1. ReceiveAbort \/ ReceivePlain(Head(pullQ))
      BY <2>3 DEF Receive
    <3> QED
      BY <2>1, <2>3, <3>1, WorkLeavesStatus DEF Receive
  <2>4. CASE Think
    BY <2>4, ThinkingKeepsAborted DEF Think, others, channelVars, Done
  <2>5. CASE SendCall \/ GetAnswer \/ CallFails
    BY <2>5, CallKeepsAborted
  <2>6. CASE CloseAll
    BY <2>6, ThinkingKeepsAborted DEF CloseAll, Done
  <2>7. CASE Work
    BY <2>1, <2>7, WorkLeavesStatus DEF Work, others
  <2>8. CASE Transmit \/ ServeNext \/ AnswerCall \/ BridgeEnds \/ BridgeStarts
    BY <2>8, BridgeKeepsAborted
  <2> QED
    BY <2>2, <2>3, <2>4, <2>5, <2>6, <2>7, <2>8 DEF VoiceNext, MainThread
<1>3. AbortedInv => AbortedIsTrue
  BY DEF AbortedInv, Done, AbortedIsTrue
<1> QED
  BY <1>1, <1>2, <1>3, ChannelInvHolds, PTL DEF VoiceSpec

-----------------------------------------------------------------------------
(* Types and bounds of the queues and sockets. *)

\* Each step of STT keeps the types of its variables and the bound of its
\* socket.
LEMMA SpeechStep == SttTypeOK /\ (SttStep \/ LingerExpires) => SttTypeOK'
<1> SUFFICES ASSUME SttTypeOK, SttStep \/ LingerExpires PROVE SttTypeOK'
  OBVIOUS
<1> USE DEF SttTypeOK
<1>1. CASE ReadLine
  <2>1. Head(lines) \in Utterances /\ lines' \in Seq(Utterances)
    BY <1>1, HeadTailProperties DEF ReadLine
  <2> QED
    BY <1>1, <2>1 DEF ReadLine
<1>2. CASE Push
  <2>1. Command(outgoing) \in Utterances
    BY DEF Command, Utterances
  <2>2. /\ sendQ' \in Seq(Utterances) /\ Len(sendQ') = Len(sendQ) + 1
        /\ Len(sendQ) \in Nat /\ Len(sendQ) < PushQueue /\ PushQueue \in Nat
    BY <1>2, <2>1, AppendProperties, LenProperties, SttAssumption DEF Push
  <2>3. Len(sendQ') <= PushQueue
    BY <2>2
  <2> QED
    BY <1>2, <2>2, <2>3 DEF Push
<1>3. CASE AudioFails
  BY <1>3, EmptySeq DEF AudioFails
<1>4. CASE NoMoreLines \/ SendFails
  BY <1>4 DEF NoMoreLines, SendFails, Interactive
<1>5. CASE SttSignal \/ SttClose \/ SttGone
  BY <1>5 DEF SttSignal, SttClose, SttGone
<1>6. CASE LingerExpires
  <2>1. <<>> \in Seq(Utterances) /\ Len(<<>>) = 0 /\ 0 <= PushQueue
    BY EmptySeq, SttAssumption
  <2> QED
    BY <1>6, <2>1 DEF LingerExpires
<1> QED
  BY <1>1, <1>2, <1>3, <1>4, <1>5, <1>6 DEF SttStep

\* Queues are within their bounds, and a place of one request has at most one.
Single(S) == \A x, y \in S : x = y

BoundsInv ==
    /\ SttTypeOK
    /\ Len(pullQ) <= PullQueue
    /\ IsFiniteSet(inbox) /\ Cardinality(inbox) <= Inbox
    /\ Single(held) /\ Single(serving)

\* One more element that still fits, one less, or none: a queue keeps its bound.
LEMMA BoundKept ==
    ASSUME NEW T, NEW q \in Seq(T), NEW bound \in Nat, Len(q) <= bound
    PROVE  /\ Len(<<>>) <= bound
           /\ q # <<>> => Len(Tail(q)) <= bound
           /\ \A x \in T : Len(q) < bound => Len(Append(q, x)) <= bound
<1>1. Len(q) \in Nat /\ Len(<<>>) = 0
  BY LenProperties, EmptySeq
<1>2. q # <<>> => Len(Tail(q)) = Len(q) - 1
  BY HeadTailProperties
<1>3. \A x \in T : Len(Append(q, x)) = Len(q) + 1
  BY AppendProperties
<1> QED
  BY <1>1, <1>2, <1>3

\* No step of the composition overfills anything.
LEMMA BoundsStep ==
    ASSUME BoundsInv, VoiceInv, ChannelInv, [VoiceNext]_allVars
    PROVE  BoundsInv'
<1> USE DEF BoundsInv
<1>1. PullQueue \in Nat /\ Inbox \in Nat
  BY ChannelAssumption
<1>2. ASSUME UNCHANGED sttVars PROVE SttTypeOK'
  BY <1>2 DEF sttVars, SttTypeOK
<1>3. CASE Speak
  <2>1. SttTypeOK'
    BY <1>3, SpeechStep DEF Speak
  <2> QED
    BY <1>3, <2>1 DEF Speak, channelVars
<1>4. CASE Unheard
  <2>1. SttTypeOK'
    BY <1>4, SpeechStep DEF Unheard
  <2> QED
    BY <1>4, <2>1 DEF Unheard, channelVars
<1>5. CASE Deliver
  <2>1. /\ sendQ # <<>> /\ Len(pullQ) < PullQueue /\ sendQ' = Tail(sendQ)
        /\ pullQ' = Append(pullQ, Head(sendQ))
        /\ UNCHANGED <<sttMode, lines, sender, outgoing, sttStop, sttProcess, channelVars>>
    BY <1>5 DEF Deliver
  <2>2. sendQ \in Seq(SaidCommands) /\ pullQ \in Seq(SaidCommands) /\ Head(sendQ) \in SaidCommands
    BY <2>1, HeadTailProperties DEF VoiceInv
  <2>3. Len(pullQ') <= PullQueue
    BY <1>1, <2>1, <2>2, BoundKept
  <2>4. sendQ' \in Seq(Utterances) /\ Len(sendQ') <= PushQueue
    BY <2>1, HeadTailProperties, BoundKept, SttAssumption DEF SttTypeOK
  <2> QED
    BY <2>1, <2>3, <2>4 DEF SttTypeOK, channelVars
<1>6. CASE Receive
  <2>1. Len(pullQ') <= PullQueue
    BY <1>1, <1>6, BoundKept DEF Receive, VoiceInv
  <2> QED
    BY <1>2, <1>6, <2>1 DEF Receive, channelVars
<1>7. CASE Think \/ Work \/ UNCHANGED allVars
  BY <1>2, <1>7 DEF Think, Work, others, allVars, channelVars
<1>8. CASE SendCall
  <2>1. (\E r \in RequestsMade : held' = {r}) \/ held' = held
    BY <1>8 DEF SendCall, channelVars
  <2>2. \A r, s \in RequestsMade : r = s
    BY DEF RequestsMade
  <2>3. Single(held')
    BY <2>1 DEF Single
  <2>4. UNCHANGED <<sttVars, pullQ, inbox, serving>>
    BY <1>8 DEF SendCall, channelVars
  <2> QED
    BY <1>2, <2>3, <2>4 DEF Single
<1>9. CASE GetAnswer \/ CallFails \/ CloseAll
  <2>1. /\ held' \in {held, {}} /\ pullQ' \in {pullQ, <<>>}
        /\ UNCHANGED <<sttVars, inbox, serving>>
    BY <1>9 DEF GetAnswer, CallFails, CloseAll, ResetReqSocket
  <2>2. Len(pullQ') <= PullQueue
    BY <1>1, <2>1, BoundKept DEF VoiceInv
  <2> QED
    BY <1>2, <2>1, <2>2 DEF Single
<1>10. CASE Transmit
  <2>1. PICK r : held = {r}
    <3>1. PICK r \in held : TRUE
      BY <1>10 DEF Transmit
    <3>2. held \subseteq {r} /\ {r} \subseteq held
      BY <3>1 DEF Single
    <3> QED
      BY <3>2
  <2>2. /\ Cardinality(inbox) < Inbox /\ held' = {} /\ inbox' = inbox \cup {r}
        /\ UNCHANGED <<sttVars, pullQ, serving>>
    BY <1>10, <2>1 DEF Transmit, orchestratorSide
  <2>3. /\ IsFiniteSet(inbox') /\ Cardinality(inbox) \in Nat
        /\ Cardinality(inbox') \in {Cardinality(inbox), Cardinality(inbox) + 1}
    BY <2>2, FS_AddElement, FS_CardinalityType
  <2>4. Cardinality(inbox') <= Inbox
    BY <1>1, <2>2, <2>3
  <2> QED
    BY <1>2, <2>2, <2>3, <2>4 DEF Single
<1>11. CASE ServeNext
  <2>1. PICK r \in inbox : serving' = {r} /\ inbox' = inbox \ {r}
    BY <1>11 DEF ServeNext
  <2>2. UNCHANGED <<sttVars, pullQ, held>>
    BY <1>11 DEF ServeNext, orchestratorSide
  <2>3. /\ IsFiniteSet(inbox') /\ Cardinality(inbox) \in Nat
        /\ Cardinality(inbox') = Cardinality(inbox) - 1
    BY <2>1, FS_RemoveElement, FS_CardinalityType
  <2>4. Cardinality(inbox') <= Inbox
    BY <1>1, <2>3
  <2> QED
    BY <1>2, <2>1, <2>2, <2>3, <2>4 DEF Single
<1>12. CASE AnswerCall \/ BridgeEnds \/ BridgeStarts
  <2>1. /\ serving' \in {serving, {}} /\ inbox' \in {inbox, {}}
        /\ UNCHANGED <<sttVars, pullQ, held>>
    BY <1>12 DEF AnswerCall, BridgeEnds, BridgeStarts, orchestratorSide
  <2>2. IsFiniteSet(inbox') /\ Cardinality(inbox') <= Inbox
    BY <1>1, <2>1, FS_EmptySet
  <2> QED
    BY <1>2, <2>1, <2>2 DEF Single
<1> QED
  BY <1>3, <1>4, <1>5, <1>6, <1>7, <1>8, <1>9, <1>10, <1>11, <1>12 DEF VoiceNext, MainThread

\* A place of one has at most one element.
LEMMA SingleCounts == ASSUME NEW S, Single(S) PROVE Cardinality(S) <= 1
<1>1. CASE S = {}
  BY <1>1, FS_EmptySet
<1>2. CASE S # {}
  <2>1. PICK x : S = {x}
    BY <1>2 DEF Single
  <2> QED
    BY <2>1, FS_Singleton
<1> QED
  BY <1>1, <1>2

\* Nothing is in the queues at the start.
LEMMA BoundsInitially == VoiceInit => BoundsInv
<1> SUFFICES ASSUME VoiceInit PROVE BoundsInv
  OBVIOUS
<1>1. /\ Len(<<>>) = 0 /\ <<>> \in Seq(Utterances)
      /\ 0 <= PushQueue /\ 0 <= PullQueue /\ 0 <= Inbox
  BY EmptySeq, SttAssumption, ChannelAssumption
<1>2. lines \in Seq(Utterances)
  BY SttAssumption DEF VoiceInit, SttInit
<1> QED
  BY <1>1, <1>2, FS_EmptySet DEF VoiceInit, SttInit, SttTypeOK, Utterances, BoundsInv, Single

\* The types of the whole path from an utterance to the bridge: queues and
\* sockets keep their high-water marks, and a call is in one place at a time
\* (transport.py:38-66, stt/main.py:66-95, main.py:548-572).
THEOREM VoiceTypes == VoiceSpec => []VoiceTypeOK
<1>1. VoiceSpec => []TypeOK
  BY RunsTheOrchestrator, TypesHold, PTL
<1>2. BoundsInv /\ VoiceInv /\ ChannelInv /\ [VoiceNext]_allVars => BoundsInv'
  BY BoundsStep
<1>3. TypeOK /\ BoundsInv /\ VoiceInv /\ ChannelInv => VoiceTypeOK
  <2> SUFFICES ASSUME TypeOK, BoundsInv, VoiceInv, ChannelInv PROVE VoiceTypeOK
    OBVIOUS
  <2>1. Single(answer) /\ answer \subseteq Nat
    BY DEF ChannelInv, Single
  <2>2. Cardinality(held) <= 1 /\ Cardinality(serving) <= 1 /\ Cardinality(answer) <= 1
    BY <2>1, SingleCounts DEF BoundsInv
  <2>3. pullQ \in Seq(Commands)
    <3>1. SaidCommands \subseteq Commands
      BY DEF SaidCommands
    <3> QED
      BY <3>1, SeqMonotonic DEF VoiceInv
  <2> QED
    BY <2>1, <2>2, <2>3 DEF BoundsInv, VoiceInv, ChannelInv, VoiceTypeOK
<1> QED
  BY <1>1, <1>2, <1>3, BoundsInitially, VoiceInvHolds, ChannelInvHolds, PTL DEF VoiceSpec
=============================================================================
