------------------------- MODULE OrchestratorProofs -------------------------
(* Theorems about the orchestrator: the abort path, the way to its end, the    *)
(* types and bounds, the offline flag, and the end of a stuck mission.         *)
EXTENDS Orchestrator, SequenceTheorems, FiniteSetTheorems, TLAPS

-----------------------------------------------------------------------------
(* The queue and the preempt event. *)

\* Between commands and after the last one.
Resting == {"idle", "ended", "closed"}

AbortFirst == commandQ # <<>> /\ Head(commandQ) = "abort"

\* Between its drain and its set the command thread is the only writer of the
\* queue, so the queue holds the abort alone, or nothing once it is taken.
QueueInv ==
    /\ commandQ \in Seq(Commands)
    /\ commandThread \in {"drain", "put", "signal"} => "abort" \in Commands
    /\ commandThread = "put" => commandQ = <<>>
    /\ commandThread = "signal" =>
           \/ commandQ = <<"abort">>
           \/ commandQ = <<>> /\ (main \in Resting \/ current = "abort")

PreemptInv ==
    preempt => \/ AbortFirst \/ commandThread = "put"
               \/ main \in Resting \cup {"start"} \/ IsAbort(current)

LateInv ==
    /\ late \in Nat /\ late <= 1
    /\ signalled => AbortFirst
    /\ signalled /\ ~IsAbort(current) =>
           /\ main \in {"wait", "batch", "send", "reply"} => preempt
           /\ main = "send" => late = 0

AbortInv == QueueInv /\ PreemptInv /\ LateInv

\* An abort at the head of the queue stays there when a command joins behind
\* it; a command is taken off the head.
LEMMA QueueSteps ==
    ASSUME NEW q \in Seq(Commands), NEW c \in Commands
    PROVE  /\ Append(q, c) \in Seq(Commands) /\ Append(q, c) # <<>>
           /\ q # <<>> => Head(Append(q, c)) = Head(q)
           /\ q = <<>> => Append(q, c) = <<c>>
           /\ q # <<>> => Tail(q) \in Seq(Commands)
           /\ Head(<<c>>) = c
<1>1. Append(q, c) \in Seq(Commands) /\ Append(q, c) # <<>>
  BY AppendProperties
<1>2. q # <<>> => Head(Append(q, c)) = Head(q)
  <2> SUFFICES ASSUME q # <<>> PROVE Head(Append(q, c)) = Head(q)
    OBVIOUS
  <2>1. Len(q) > 0
    BY EmptySeq
  <2> QED
    BY <2>1, AppendProperties
<1>3. q # <<>> => Tail(q) \in Seq(Commands)
  BY HeadTailProperties
<1>4. Head(<<c>>) = c
  OBVIOUS
<1>5. ASSUME q = <<>> PROVE Append(q, c) = <<c>>
  BY <1>5
<1> QED
  BY <1>1, <1>2, <1>3, <1>4, <1>5

\* The initial state has nothing queued and no event set.
LEMMA AbortInit == Init => AbortInv
  BY DEF Init, AbortInv, QueueInv, PreemptInv, LateInv, AbortFirst

\* The command thread keeps the invariant: an abort is alone in the queue when
\* its event is set, and whatever joins later stands behind it (main.py:235-256).
LEMMA CommandKeeps ==
    ASSUME AbortInv,
           (\E c \in Commands : ReceivePlain(c)) \/ ReceiveAbort \/ CommandStep
    PROVE  AbortInv'
<1> USE DEF AbortInv, QueueInv, PreemptInv, LateInv, AbortFirst, Resting
<1>1. ASSUME NEW c \in Commands, ReceivePlain(c) PROVE AbortInv'
  <2>1. /\ commandQ' \in Seq(Commands)
        /\ commandQ # <<>> => commandQ' # <<>> /\ Head(commandQ') = Head(commandQ)
    BY <1>1, QueueSteps DEF ReceivePlain
  <2> QED
    BY <1>1, <2>1 DEF ReceivePlain, Polling, mission, pool, history, IsAbort
<1>2. CASE ReceiveAbort
  BY <1>2 DEF ReceiveAbort, history, IsAbort
<1>3. CASE Drain
  BY <1>3 DEF Drain, IsAbort
<1>4. CASE PutAbort
  <2>1. "abort" \in Commands /\ commandQ = <<>>
    BY <1>4 DEF PutAbort
  <2>2. commandQ' = <<"abort">> /\ commandQ' # <<>> /\ Head(commandQ') = "abort"
        /\ commandQ' \in Seq(Commands)
    BY <1>4, <2>1, QueueSteps DEF PutAbort
  <2> QED
    BY <1>4, <2>2 DEF PutAbort, history, IsAbort
<1>5. CASE SignalAbort
  BY <1>5 DEF SignalAbort, Polling, Waiting, IsAbort
<1>6. CASE CommandThreadEnds
  BY <1>6 DEF CommandThreadEnds, history, IsAbort
<1> QED
  BY <1>1, <1>2, <1>3, <1>4, <1>5, <1>6 DEF CommandStep

\* The main thread keeps it: it takes commands off the head, and every way to
\* one more tool call passes a test of the event or of the queue (main.py:
\* 311-337, 379-400, 429-433).
LEMMA MainKeeps ==
    ASSUME AbortInv, MainStep
    PROVE  AbortInv'
<1> USE DEF AbortInv, QueueInv, PreemptInv, LateInv, AbortFirst, Resting
<1>1. CASE TakeCommand
  <2>1. commandQ' \in Seq(Commands)
    BY <1>1, QueueSteps, HeadTailProperties DEF TakeCommand
  <2>2. commandQ = <<"abort">> => commandQ' = <<>> /\ current' = "abort"
    BY <1>1 DEF TakeCommand
  <2>3. signalled' => signalled /\ Head(commandQ) # "abort"
    BY <1>1, Zenon DEF TakeCommand
  <2>4. ~signalled'
    BY <2>3
  <2> QED
    BY <1>1, <2>1, <2>2, <2>4 DEF TakeCommand, IsAbort
<1>2. CASE Start
  BY <1>2 DEF Start, IsAbort
<1>3. CASE LoopEnds \/ Ask \/ Abandon \/ VlmError \/ (\E b \in Batches : Decide(b))
  BY <1>3 DEF LoopEnds, Ask, Abandon, VlmError, Decide, queue, history
<1>4. CASE NextTool \/ PreemptBatch \/ BatchDone
  BY <1>4 DEF NextTool, PreemptBatch, BatchDone, queue, history
<1>5. ASSUME NEW o, Finish(o), UNCHANGED <<queue, signalled>>, late' \in Nat, late' <= 1,
             main = "reply" \/ main = "send"
      PROVE  AbortInv'
  <2>1. CASE IsAbort(current)
    BY <1>5, <2>1 DEF Finish, FinishAbort, Idle, queue, IsAbort
  <2>2. CASE ~IsAbort(current)
    <3>1. current' = current /\ main' \in {"batch", "check", "end"}
      BY <1>5, <2>2 DEF Finish, RecordCall
    <3> QED
      BY <1>5, <2>2, <3>1 DEF queue, IsAbort
  <2> QED
    BY <2>1, <2>2
<1>6. CASE Send
  <2>1. late' \in Nat /\ late' <= 1 /\ UNCHANGED <<queue, signalled>>
    BY <1>6 DEF Send
  <2>2. CASE bridgeOffline
    BY <1>5, <1>6, <2>1, <2>2 DEF Send
  <2>3. CASE ~bridgeOffline
    BY <1>6, <2>1, <2>3 DEF Send, queue, IsAbort
  <2> QED
    BY <2>2, <2>3
<1>7. CASE \E o \in Outcomes : Reply(o)
  BY <1>5, <1>7 DEF Reply
<1>8. CASE EndMission
  <2>1. main' \in Resting /\ current' = "none" /\ UNCHANGED <<queue, late, signalled>>
    BY <1>8 DEF EndMission, Idle, history
  <2> QED
    BY <1>8, <2>1 DEF EndMission, queue, IsAbort
<1>9. CASE MainEnds \/ Close
  BY <1>9 DEF MainEnds, Close, queue, history, IsAbort
<1> QED
  BY <1>1, <1>2, <1>3, <1>4, <1>6, <1>7, <1>8, <1>9 DEF MainStep, MainThinks

\* Neither the executor nor a stuttering step touches the queue, the event or
\* the main thread's place.
LEMMA OthersKeep ==
    ASSUME AbortInv,
           \/ ExecutorStep \/ Signal \/ Exited \/ UNCHANGED vars
    PROVE  AbortInv'
  BY DEF AbortInv, QueueInv, PreemptInv, LateInv, AbortFirst, ExecutorStep, StartCall, StartStale,
         FinishCall, FinishStale, Signal, Exited, vars, queue, history, IsAbort

\* The invariant of the abort path holds in every reachable state.
LEMMA AbortInvHolds == Spec => []AbortInv
<1>1. AbortInv /\ [Next]_vars => AbortInv'
  BY CommandKeeps, MainKeeps, OthersKeep DEF Next
<1> QED
  BY AbortInit, <1>1, PTL DEF Spec

\* However commands, VLM answers and bridge replies interleave, at most one more
\* tool call goes out between the signal of an abort and its turn (main.py:429).
THEOREM FewLateCalls == Spec => []LateCalls
<1>1. AbortInv => LateCalls
  BY DEF AbortInv, LateInv, LateCalls
<1> QED
  BY <1>1, AbortInvHolds, PTL

\* A running mission sees the preempt event only while the abort that set it is
\* still to be served (main.py:246-250 against 331).
THEOREM PreemptIsJustified == Spec => []NoSpuriousPreempt
<1>1. AbortInv => NoSpuriousPreempt
  <2> SUFFICES ASSUME AbortInv, AbortFirst PROVE Waiting("abort")
    BY DEF AbortInv, PreemptInv, NoSpuriousPreempt, InMission, Resting
  <2>1. commandQ \in Seq(Commands) /\ commandQ # <<>> /\ Head(commandQ) = commandQ[1]
    BY HeadTailProperties DEF AbortInv, QueueInv, AbortFirst
  <2>2. 1 \in DOMAIN commandQ
    BY <2>1, EmptySeq
  <2> QED
    BY <2>1, <2>2 DEF Waiting, AbortFirst
<1> QED
  BY <1>1, AbortInvHolds, PTL

\* Who touches the signal, and that only TakeCommand takes a command.
LEMMA SignalSteps ==
    ASSUME [Next]_vars
    PROVE  \/ TakeCommand \/ Drain \/ SignalAbort
           \/ /\ signalled' = signalled /\ (main = "idle" => main' # "start")
              /\ commandThread' = commandThread \/ commandThread' \notin {"put", "signal"}
                 \/ commandThread = "put"
<1>1. CASE (\E c \in Commands : ReceivePlain(c)) \/ ReceiveAbort \/ PutAbort \/ CommandThreadEnds
  BY <1>1 DEF ReceivePlain, ReceiveAbort, PutAbort, CommandThreadEnds, Polling, history
<1>2. CASE Start
  BY <1>2 DEF Start
<1>3. CASE LoopEnds \/ Ask \/ Abandon \/ VlmError \/ (\E b \in Batches : Decide(b))
  BY <1>3 DEF LoopEnds, Ask, Abandon, VlmError, Decide, queue, history
<1>4. CASE NextTool \/ PreemptBatch \/ BatchDone \/ EndMission \/ MainEnds \/ Close
  BY <1>4 DEF NextTool, PreemptBatch, BatchDone, EndMission, MainEnds, Close, queue, history
<1>5. CASE Send \/ \E o \in Outcomes : Reply(o)
  BY <1>5 DEF Send, Reply, queue
<1>6. CASE ExecutorStep
  BY <1>6 DEF ExecutorStep, StartCall, StartStale, FinishCall, FinishStale, queue, history
<1>7. CASE Signal \/ Exited \/ UNCHANGED vars
  BY <1>7 DEF Signal, Exited, vars, queue, history
<1> QED
  BY <1>1, <1>2, <1>3, <1>4, <1>5, <1>6, <1>7 DEF Next, CommandStep, MainStep, MainThinks

\* Between the drain and the signal nothing is signalled, so the step that
\* signals never loses an abort that already is.
UnsignalledInv == commandThread \in {"put", "signal"} => ~signalled

\* From its signal on an abort is the next command: while it is signalled no other
\* is taken, and it stays signalled until the main thread takes it or a newer
\* abort has drained the queue.
AbortIsNext ==
    [][signalled => \/ main' = "start" /\ current' = "abort"
                    \/ commandThread' = "put"
                    \/ signalled' /\ (main = "idle" => main' # "start")]_vars

\* No command overtakes an abort, whatever commands, answers and replies come in
\* between, for every size of the queue (main.py:239-250, 311-317).
THEOREM AbortOvertakes == Spec => AbortIsNext
<1>1. Init => UnsignalledInv
  BY DEF Init, UnsignalledInv
<1>2. UnsignalledInv /\ [Next]_vars => UnsignalledInv'
  <2> SUFFICES ASSUME UnsignalledInv, [Next]_vars PROVE UnsignalledInv'
    OBVIOUS
  <2>1. CASE TakeCommand \/ Drain \/ SignalAbort
    BY <2>1 DEF TakeCommand, Drain, SignalAbort, Polling, UnsignalledInv
  <2>2. CASE ~(TakeCommand \/ Drain \/ SignalAbort)
    BY <2>2, SignalSteps DEF UnsignalledInv
  <2> QED
    BY <2>1, <2>2
<1>3. AbortInv /\ UnsignalledInv /\ [Next]_vars =>
          [signalled => \/ main' = "start" /\ current' = "abort"
                        \/ commandThread' = "put"
                        \/ signalled' /\ (main = "idle" => main' # "start")]_vars
  <2> SUFFICES ASSUME AbortInv, UnsignalledInv, [Next]_vars, signalled
               PROVE  \/ main' = "start" /\ current' = "abort"
                      \/ commandThread' = "put"
                      \/ signalled' /\ (main = "idle" => main' # "start")
    OBVIOUS
  <2>1. CASE TakeCommand
    BY <2>1 DEF TakeCommand, AbortInv, LateInv, AbortFirst
  <2>2. CASE Drain
    BY <2>2 DEF Drain
  <2>3. ~SignalAbort
    BY DEF SignalAbort, UnsignalledInv
  <2> QED
    BY <2>1, <2>2, <2>3, SignalSteps
<1> QED
  BY <1>1, <1>2, <1>3, AbortInvHolds, PTL DEF Spec, AbortIsNext

-----------------------------------------------------------------------------
(* How many steps the threads still have.  Fairness makes them take their      *)
(* steps; that there are only so many is proved here.                          *)

\* Steps left to the main thread once the stop event is set: from the get() that
\* still returns a command to the closed socket.
StopRank(p) ==
    CASE p = "idle" -> 9 [] p = "start" -> 8 [] p = "send" -> 7 [] p = "reply" -> 6
      [] p = "batch" -> 5 [] p = "wait" -> 4 [] p = "check" -> 3 [] p = "end" -> 2
      [] p = "ended" -> 1 [] OTHER -> 0

\* Steps left to the command thread then.
CommandRank(p) ==
    CASE p = "poll" -> 4 [] p = "drain" -> 3 [] p = "put" -> 2 [] p = "signal" -> 1
      [] OTHER -> 0

\* After a dispatch the plan goes on, the mission is asked for more or ends.
LEMMA AfterDispatch ==
    ASSUME NEW o, Finish(o)
    PROVE  main' \in IF IsAbort(current) THEN {Idle} ELSE {"batch", "check", "end"}
<1>1. CASE IsAbort(current)
  BY <1>1 DEF Finish, FinishAbort
<1>2. CASE ~IsAbort(current)
  BY <1>2 DEF Finish, RecordCall
<1> QED
  BY <1>1, <1>2

\* Once the stop event is set every step of a thread is one of its last: no plan
\* goes on, no VLM call is waited for, at most one more command is taken.
StopRunsDown ==
    [][stop => /\ MainStep => StopRank(main') < StopRank(main)
               /\ main' = main \/ MainStep
               /\ \/ commandThread' = commandThread
                  \/ CommandRank(commandThread') < CommandRank(commandThread)]_vars

\* A step of the main thread after the signal.
LEMMA MainRunsDown == ASSUME stop, MainStep PROVE StopRank(main') < StopRank(main)
<1>1. CASE TakeCommand \/ Start \/ LoopEnds \/ Ask \/ Abandon \/ VlmError
  <2>1. TakeCommand => main = "idle" /\ main' = "start"
    BY DEF TakeCommand
  <2>2. Start => main = "start" /\ main' \in {"send", "check"}
    BY DEF Start
  <2>3. LoopEnds \/ Abandon => main \in {"check", "wait"} /\ main' = "end"
    BY DEF LoopEnds, Abandon
  <2>4. ~Ask /\ ~VlmError
    BY DEF Ask, VlmError
  <2> QED
    BY <1>1, <2>1, <2>2, <2>3, <2>4 DEF StopRank
<1>2. CASE (\E b \in Batches : Decide(b)) \/ NextTool \/ PreemptBatch \/ BatchDone
  <2>1. main = "batch" /\ main' \in {"end", "check"}
    BY <1>2 DEF Decide, NextTool, PreemptBatch, BatchDone
  <2> QED
    BY <2>1 DEF StopRank
<1>3. CASE EndMission \/ MainEnds \/ Close
  <2>1. EndMission \/ MainEnds => main \in {"end", "idle"} /\ main' = "ended"
    BY DEF EndMission, MainEnds, Idle
  <2>2. Close => main = "ended" /\ main' = "closed"
    BY DEF Close
  <2> QED
    BY <1>3, <2>1, <2>2 DEF StopRank
<1>4. CASE Send \/ \E o \in Outcomes : Reply(o)
  <2>1. main \in {"send", "reply"}
    BY <1>4 DEF Send, Reply
  <2>2. (main = "send" /\ main' = "reply") \/ main' \in {"batch", "check", "end", "ended"}
    BY <1>4, AfterDispatch DEF Send, Reply, Idle
  <2> QED
    BY <2>1, <2>2 DEF StopRank
<1> QED
  BY <1>1, <1>2, <1>3, <1>4 DEF MainStep, MainThinks

\* A signal leaves the main thread nine steps at most and the command thread four,
\* in whatever state it comes and for all commands, plans and answers (main.py:
\* 235-256, 311-317, 378-433).
THEOREM StopIsBounded == Spec => StopRunsDown
<1>1. [Next]_vars =>
          [stop => /\ MainStep => StopRank(main') < StopRank(main)
                   /\ main' = main \/ MainStep
                   /\ \/ commandThread' = commandThread
                      \/ CommandRank(commandThread') < CommandRank(commandThread)]_vars
  <2> SUFFICES ASSUME [Next]_vars, stop
               PROVE  /\ main' = main \/ MainStep
                      /\ \/ commandThread' = commandThread
                         \/ CommandRank(commandThread') < CommandRank(commandThread)
    BY MainRunsDown
  <2>1. CASE MainStep
    <3>1. commandThread' = commandThread
      BY <2>1 DEF MainStep, MainThinks, TakeCommand, Start, LoopEnds, Ask, Abandon, VlmError,
         Decide, NextTool, PreemptBatch, BatchDone, EndMission, MainEnds, Send, Reply, Close, queue
    <3> QED
      BY <2>1, <3>1
  <2>2. CASE (\E c \in Commands : ReceivePlain(c)) \/ ReceiveAbort
    <3>1. main' = main /\ commandThread = "poll" /\ commandThread' \in {"ended", "drain"}
      BY <2>2 DEF ReceivePlain, ReceiveAbort, Polling
    <3> QED
      BY <3>1 DEF CommandRank
  <2>3. CASE CommandStep
    <3>1. /\ main' = main
          /\ \/ commandThread = "drain" /\ commandThread' = "put"
             \/ commandThread = "put" /\ commandThread' = "signal"
             \/ commandThread \in {"signal", "poll"} /\ commandThread' = "ended"
      BY <2>3 DEF CommandStep, Drain, PutAbort, SignalAbort, CommandThreadEnds, Polling
    <3> QED
      BY <3>1 DEF CommandRank
  <2>4. CASE ExecutorStep \/ Signal \/ Exited \/ UNCHANGED vars
    BY <2>4 DEF ExecutorStep, StartCall, StartStale, FinishCall, FinishStale, Signal, Exited,
       vars, queue
  <2> QED
    BY <2>1, <2>2, <2>3, <2>4 DEF Next
<1> QED
  BY <1>1, PTL DEF Spec, StopRunsDown

\* Places on the way from a command in the main thread's hands to the next get(),
\* which returns the abort that is signalled.
AbortRank(p) ==
    CASE p = "start" -> 9 [] p = "send" -> 8 [] p = "reply" -> 7 [] p = "batch" -> 6
      [] p = "wait" -> 5 [] p = "check" -> 4 [] p = "end" -> 3 [] p = "idle" -> 2
      [] p = "ended" -> 1 [] OTHER -> 0

\* An abort has no mission: it is dispatched and done with.
AbortPlace == IsAbort(current) => main \in {"start", "send", "reply"}

\* While an abort is signalled the main thread only comes nearer to it.
AbortComesUp ==
    [][signalled /\ signalled' /\ MainStep => AbortRank(main') < AbortRank(main)]_vars

\* A command under way, with an abort signalled: its mission does not ask, does
\* not wait for an answer and takes no other call of its plan.
LEMMA AbortNearer ==
    ASSUME AbortInv, AbortPlace, signalled, signalled', MainStep
    PROVE  AbortRank(main') < AbortRank(main)
<1>1. AbortFirst /\ (main \in {"wait", "batch"} => preempt)
  BY DEF AbortInv, LateInv, AbortPlace
<1>2. ~TakeCommand
  BY <1>1 DEF TakeCommand, AbortFirst
<1>3. CASE Start \/ LoopEnds \/ Ask \/ Abandon \/ VlmError
  <2>1. Start => main = "start" /\ main' \in {"send", "check"}
    BY DEF Start
  <2>2. LoopEnds \/ Abandon \/ VlmError => main \in {"check", "wait"} /\ main' = "end"
    BY DEF LoopEnds, Abandon, VlmError
  <2>3. ~Ask
    BY <1>1 DEF Ask, AbortFirst
  <2> QED
    BY <1>3, <2>1, <2>2, <2>3 DEF AbortRank
<1>4. CASE (\E b \in Batches : Decide(b)) \/ NextTool \/ PreemptBatch \/ BatchDone
  <2>1. main = "batch" /\ main' \in {"end", "check"}
    BY <1>1, <1>4 DEF Decide, NextTool, PreemptBatch, BatchDone
  <2> QED
    BY <2>1 DEF AbortRank
<1>5. CASE EndMission \/ MainEnds \/ Close
  <2>1. EndMission => main = "end" /\ main' \in {"idle", "ended"}
    BY DEF EndMission, Idle
  <2>2. MainEnds => main = "idle" /\ main' = "ended"
    BY DEF MainEnds
  <2>3. Close => main = "ended" /\ main' = "closed"
    BY DEF Close
  <2> QED
    BY <1>5, <2>1, <2>2, <2>3 DEF AbortRank
<1>6. CASE Send \/ \E o \in Outcomes : Reply(o)
  <2>1. main \in {"send", "reply"}
    BY <1>6 DEF Send, Reply
  <2>2. (main = "send" /\ main' = "reply") \/ main' \in {"batch", "check", "end", "idle", "ended"}
    BY <1>6, AfterDispatch DEF Send, Reply, Idle
  <2> QED
    BY <2>1, <2>2 DEF AbortRank
<1> QED
  BY <1>2, <1>3, <1>4, <1>5, <1>6 DEF MainStep, MainThinks

\* However long a VLM call hangs and however long the plan is, a signalled abort
\* waits for seven steps of the main thread at most, of which only a dispatch under
\* way takes time (main.py:379-400, 429-433).
THEOREM AbortIsNear == Spec => AbortComesUp
<1>1. Init => AbortPlace
  BY DEF Init, AbortPlace, IsAbort
<1>2. AbortPlace /\ [Next]_vars => AbortPlace'
  <2> SUFFICES ASSUME AbortPlace, [Next]_vars PROVE AbortPlace'
    OBVIOUS
  <2>1. CASE UNCHANGED <<main, current>>
    BY <2>1 DEF AbortPlace, IsAbort
  <2>2. CASE TakeCommand \/ Start
    BY <2>2 DEF TakeCommand, Start, AbortPlace, IsAbort
  <2>3. CASE LoopEnds \/ Ask \/ Abandon \/ VlmError \/ (\E b \in Batches : Decide(b))
    BY <2>3 DEF LoopEnds, Ask, Abandon, VlmError, Decide, AbortPlace, IsAbort
  <2>4. CASE NextTool \/ PreemptBatch \/ BatchDone \/ EndMission \/ MainEnds \/ Close
    BY <2>4 DEF NextTool, PreemptBatch, BatchDone, EndMission, MainEnds, Close, AbortPlace, IsAbort
  <2>5. ASSUME NEW o, Finish(o) PROVE ~IsAbort(current')
    BY <2>5 DEF Finish, FinishAbort, RecordCall, IsAbort
  <2>6. CASE Send \/ \E o \in Outcomes : Reply(o)
    BY <2>5, <2>6 DEF Send, Reply, AbortPlace, IsAbort
  <2>7. CASE (\E c \in Commands : ReceivePlain(c)) \/ ReceiveAbort \/ CommandStep
    BY <2>1, <2>7 DEF ReceivePlain, ReceiveAbort, CommandStep, Drain, PutAbort, SignalAbort,
       CommandThreadEnds
  <2>8. CASE ExecutorStep \/ Signal \/ Exited \/ UNCHANGED vars
    BY <2>1, <2>8 DEF ExecutorStep, StartCall, StartStale, FinishCall, FinishStale, Signal, Exited, vars
  <2> QED
    BY <2>2, <2>3, <2>4, <2>6, <2>7, <2>8 DEF Next, MainStep, MainThinks
<1>3. AbortInv /\ AbortPlace /\ [Next]_vars =>
          [signalled /\ signalled' /\ MainStep => AbortRank(main') < AbortRank(main)]_vars
  BY AbortNearer
<1> QED
  BY <1>1, <1>2, <1>3, AbortInvHolds, PTL DEF Spec, AbortComesUp

-----------------------------------------------------------------------------
(* Types, and with them the bounds of the executor and of the history. *)

\* A call in the REQ socket is a tool; the VLM is asked with a decision and a
\* place among the waiting calls to spare; workers are not overbooked.
TypeInv ==
    /\ TypeOK
    /\ main \in {"send", "reply"} => call \in Tools
    /\ main = "wait" => decisions < MaxDecisions
    /\ future # "none" => main = "wait"
    /\ future = "queued" => staleQueued < MaxStale
    /\ Busy <= Workers

\* The trailing window of a step history is one.
LEMMA RecordedType ==
    ASSUME NEW entries \in Seq([tool : Tools, error : Errors]),
           steps \in Seq([tool : Tools, error : Errors])
    PROVE  /\ Recorded(entries) \in Seq([tool : Tools, error : Errors])
           /\ Len(Recorded(entries)) <= StuckWindow
<1> DEFINE Step == [tool : Tools, error : Errors]
           all == steps \o entries
           from == IF Len(all) > StuckWindow THEN Len(all) - StuckWindow + 1 ELSE 1
<1>1. all \in Seq(Step) /\ Len(all) \in Nat
  BY ConcatProperties, LenProperties
<1>2. StuckWindow \in Nat \ {0}
  BY OrchestratorAssumption
<1>3. from \in 1 .. Len(all) + 1 /\ Len(all) - from + 1 <= StuckWindow
  BY <1>1, <1>2
<1> HIDE DEF all, from, Step
<1>4. SubSeq(all, from, Len(all)) \in Seq(Step)
      /\ Len(SubSeq(all, from, Len(all))) = IF from <= Len(all) THEN Len(all) - from + 1 ELSE 0
  BY <1>1, <1>3, SubSeqProperties
<1>5. Recorded(entries) = SubSeq(all, from, Len(all))
  BY DEF Recorded, all, from
<1> QED
  BY <1>1, <1>2, <1>3, <1>4, <1>5 DEF Step

\* What is skipped of a batch is a history.
LEMMA SkippedType ==
    ASSUME NEW calls \in Seq(Tools)
    PROVE  Skipped(calls) \in Seq([tool : Tools, error : Errors])
<1>1. Skipped(calls) = [i \in 1 .. Len(calls) |-> [tool |-> calls[i], error |-> "skipped"]]
      /\ Len(calls) \in Nat
  BY LenProperties DEF Skipped
<1>2. \A i \in 1 .. Len(calls) : calls[i] \in Tools
  BY ElementOfSeq
<1>3. \A i \in 1 .. Len(calls) :
        [tool |-> calls[i], error |-> "skipped"] \in [tool : Tools, error : Errors]
  BY <1>2 DEF Errors
<1> QED
  BY <1>1, <1>3, IsASeq

\* The initial state has the types, with empty sequences.
LEMMA TypeInit == Init => TypeInv
<1>1. /\ <<>> \in Seq(Commands) /\ <<>> \in Seq(Tools)
      /\ <<>> \in Seq([tool : Tools, error : Errors]) /\ Len(<<>>) = 0
  BY EmptySeq
<1>2. /\ QueueSize \in Nat \ {0} /\ Workers \in Nat \ {0} /\ MaxStale \in Nat \ {0}
      /\ MaxDecisions \in Nat \ {0} /\ StuckWindow \in Nat \ {0}
  BY OrchestratorAssumption
<1>3. NoFailure \in [tool : Tools \cup {"none"}, error : Errors, times : Nat]
  BY DEF NoFailure, Errors
<1>4. ASSUME Init PROVE TypeInv
  <2>1. /\ commandQ \in Seq(Commands) /\ Len(commandQ) <= QueueSize /\ batch \in Seq(Tools)
        /\ steps \in Seq([tool : Tools, error : Errors]) /\ Len(steps) <= StuckWindow
    BY <1>1, <1>2, <1>4 DEF Init
  <2>2. repeats \in [tool : Tools \cup {"none"}, error : Errors, times : Nat]
    BY <1>3, <1>4 DEF Init
  <2>3. /\ preempt \in BOOLEAN /\ bridgeOffline \in BOOLEAN /\ stop \in BOOLEAN
        /\ signalled \in BOOLEAN /\ unanswered \in BOOLEAN
    BY <1>4 DEF Init
  <2>4. /\ commandThread = "poll" /\ main = "idle" /\ current = "none" /\ call = "none"
        /\ decisions = 0 /\ why = "none" /\ status = "idle"
        /\ future = "none" /\ staleRunning = 0 /\ staleQueued = 0 /\ late = 0
    BY <1>4 DEF Init
  <2> QED
    BY <1>2, <2>1, <2>2, <2>3, <2>4 DEF TypeInv, TypeOK, Busy
<1> QED
  BY <1>4

\* The command thread and the queue: an abort is put into an empty one.
LEMMA CommandKeepsTypes ==
    ASSUME TypeInv, AbortInv,
           (\E c \in Commands : ReceivePlain(c)) \/ ReceiveAbort \/ CommandStep
    PROVE  TypeInv'
<1> USE OrchestratorAssumption DEF TypeInv, TypeOK, Busy
<1>1. ASSUME NEW c \in Commands, ReceivePlain(c) PROVE TypeInv'
  <2>1. commandQ' \in Seq(Commands) /\ Len(commandQ') <= QueueSize
    BY <1>1, AppendProperties, LenProperties DEF ReceivePlain
  <2> QED
    BY <1>1, <2>1 DEF ReceivePlain, Polling, mission, pool, history
<1>2. CASE ReceiveAbort
  BY <1>2 DEF ReceiveAbort, mission, pool, history
<1>3. CASE Drain
  <2>1. commandQ' \in Seq(Commands) /\ Len(commandQ') <= QueueSize
    BY <1>3, EmptySeq DEF Drain
  <2>2. commandThread' = "put" /\ signalled' \in BOOLEAN
        /\ UNCHANGED <<stop, preempt, main, current, call, mission, bridgeOffline, status, pool,
                       late, unanswered, repeats>>
    BY <1>3 DEF Drain
  <2> QED
    BY <2>1, <2>2 DEF mission, pool
<1>4. CASE PutAbort
  <2>1. commandQ = <<>> /\ "abort" \in Commands
    BY <1>4 DEF PutAbort, AbortInv, QueueInv
  <2>2. commandQ' \in Seq(Commands) /\ Len(commandQ') <= QueueSize
    BY <1>4, <2>1, AppendProperties, EmptySeq DEF PutAbort
  <2> QED
    BY <1>4, <2>2 DEF PutAbort, mission, pool, history
<1>5. CASE SignalAbort
  BY <1>5 DEF SignalAbort, Polling, Waiting, mission, pool
<1>6. CASE CommandThreadEnds
  BY <1>6 DEF CommandThreadEnds, mission, pool, history
<1> QED
  BY <1>1, <1>2, <1>3, <1>4, <1>5, <1>6 DEF CommandStep

\* How a dispatch can end, field by field.
LEMMA OutcomeFields ==
    ASSUME NEW o \in Outcomes
    PROVE  /\ o.error \in Errors /\ o.offline \in BOOLEAN /\ o.replied \in BOOLEAN
           /\ o.offline => o.error \in {"timeout", "wire_error"}
           /\ o.replied = ~o.offline
<1>1. CASE \E e \in {"none", "denied", "timeout"} :
             o = [error |-> e, replied |-> TRUE, offline |-> FALSE]
  <2>1. PICK e \in {"none", "denied", "timeout"} :
               o = [error |-> e, replied |-> TRUE, offline |-> FALSE]
    BY <1>1
  <2>2. o.error = e /\ o.replied = TRUE /\ o.offline = FALSE
    BY <2>1
  <2> QED
    BY <2>2 DEF Errors
<1>2. CASE o = [error |-> "timeout", replied |-> FALSE, offline |-> TRUE]
  BY <1>2 DEF Errors
<1>3. CASE o = [error |-> "wire_error", replied |-> FALSE, offline |-> TRUE]
  BY <1>3 DEF Errors
<1>4. CASE o = [error |-> "wire_error", replied |-> TRUE, offline |-> FALSE]
  BY <1>4 DEF Errors
<1> QED
  BY <1>1, <1>2, <1>3, <1>4 DEF Outcomes

\* What a dispatch leaves behind.
LEMMA FinishKeepsTypes ==
    ASSUME TypeInv, NEW o, o.error \in Errors, main = "send" \/ main = "reply", Finish(o),
           UNCHANGED <<queue, pool, stop>>, signalled' \in BOOLEAN, late' \in Nat,
           bridgeOffline' \in BOOLEAN, unanswered' \in BOOLEAN
    PROVE  TypeInv'
<1> USE OrchestratorAssumption DEF TypeInv, TypeOK, Busy, queue, pool
<1>1. CASE IsAbort(current)
  BY <1>1 DEF Finish, FinishAbort, Idle, mission
<1>2. CASE ~IsAbort(current)
  <2> DEFINE step == [tool |-> call, error |-> o.error]
             rest == IF o.error # "none" \/ call \in TerminalTools
                     THEN Skipped(batch) ELSE <<>>
  <2>1. step \in [tool : Tools, error : Errors]
    OBVIOUS
  <2>2. RecordCall(o)
    BY <1>2 DEF Finish
  <2>3. rest \in Seq([tool : Tools, error : Errors])
    BY SkippedType, EmptySeq
  <2>4. <<step>> \o rest \in Seq([tool : Tools, error : Errors])
    BY <2>1, <2>3, ConcatProperties
  <2>5. steps' = Recorded(<<step>> \o rest)
    BY <2>2 DEF RecordCall
  <2>6. steps' \in Seq([tool : Tools, error : Errors]) /\ Len(steps') <= StuckWindow
    BY <2>4, <2>5, RecordedType
  <2>7. batch' \in Seq(Tools)
    BY <2>2, EmptySeq DEF RecordCall
  <2>8. repeats' \in [tool : Tools \cup {"none"}, error : Errors, times : Nat]
    BY <2>1, <2>2 DEF RecordCall, Repeated, NoFailure, Errors
  <2>9. /\ why' \in {"none", "preempted", "terminal", "offline", "stuck", "vlm_error"}
        /\ main' \in {"batch", "check", "end"}
        /\ status' \in {"bridge_offline", status} /\ call' = "none"
        /\ UNCHANGED <<current, decisions>>
    BY <2>2 DEF RecordCall
  <2> QED
    BY <2>6, <2>7, <2>8, <2>9
<1> QED
  BY <1>1, <1>2

\* The main thread: a decision is asked for below the budget only.
LEMMA MainKeepsTypes ==
    ASSUME TypeInv, MainStep
    PROVE  TypeInv'
<1> USE OrchestratorAssumption DEF TypeInv, TypeOK, Busy
<1>1. CASE TakeCommand
  <2>1. Head(commandQ) \in Commands /\ commandQ' \in Seq(Commands) /\ Len(commandQ') <= QueueSize
    BY <1>1, HeadTailProperties, LenProperties DEF TakeCommand
  <2> QED
    BY <1>1, <2>1 DEF TakeCommand, mission, pool
<1>2. CASE Start
  <2>1. /\ batch' \in Seq(Tools) /\ steps' \in Seq([tool : Tools, error : Errors])
        /\ Len(steps') = 0 /\ "abort" \in Tools
    BY <1>2, EmptySeq DEF Start, Tools, TerminalTools
  <2>2. repeats' \in [tool : Tools \cup {"none"}, error : Errors, times : Nat]
    BY <1>2 DEF Start, NoFailure, Errors
  <2>3. /\ main' \in {"send", "check"} /\ (main' = "send" => call' = "abort")
        /\ call' \in {"abort", call} /\ status' \in {"aborted", status}
        /\ preempt' \in BOOLEAN /\ bridgeOffline' \in BOOLEAN /\ decisions' = 0 /\ why' = "none"
        /\ main = "start"
        /\ UNCHANGED <<stop, commandThread, commandQ, current, pool, signalled, late, unanswered>>
    BY <1>2 DEF Start
  <2> QED
    BY <2>1, <2>2, <2>3 DEF pool
<1>3. CASE LoopEnds \/ BatchDone \/ MainEnds
  <2>1. /\ main \in {"check", "batch", "idle"} /\ main' \in {"end", "check", "ended"}
        /\ why' \in {why, "preempted"}
        /\ UNCHANGED <<stop, queue, current, call, decisions, batch, steps, bridgeOffline, status,
                      pool, history>>
    BY <1>3 DEF LoopEnds, BatchDone, MainEnds, mission
  <2> QED
    BY <2>1 DEF queue, pool, history
<1>4. CASE Ask
  BY <1>4 DEF Ask, queue, mission, history
<1>5. CASE Abandon
  BY <1>5 DEF Abandon, queue, history
<1>6. CASE VlmError
  BY <1>6 DEF VlmError, queue, history
<1>7. ASSUME NEW b \in Batches, Decide(b) PROVE TypeInv'
  <2>1. b \in Seq(Tools)
    OBVIOUS
  <2> QED
    BY <1>7, <2>1 DEF Decide, queue, history
<1>8. CASE NextTool
  <2>1. Head(batch) \in Tools /\ batch' \in Seq(Tools)
    BY <1>8, HeadTailProperties DEF NextTool
  <2> QED
    BY <1>8, <2>1 DEF NextTool, queue, pool, history
<1>9. CASE PreemptBatch
  <2>1. steps' \in Seq([tool : Tools, error : Errors]) /\ Len(steps') <= StuckWindow
    BY <1>9, SkippedType, RecordedType DEF PreemptBatch
  <2>2. batch' \in Seq(Tools)
    BY <1>9, EmptySeq DEF PreemptBatch
  <2> QED
    BY <1>9, <2>1, <2>2 DEF PreemptBatch, queue, pool, history
<1>10. CASE EndMission
  <2>1. status' \in {status, "vlm_error", "idle"}
    BY <1>10 DEF EndMission
  <2>2. /\ main = "end" /\ main' \in {"idle", "ended"} /\ current' = "none" /\ call' = "none"
        /\ UNCHANGED <<stop, queue, mission, bridgeOffline, pool, history>>
    BY <1>10 DEF EndMission, Idle
  <2> QED
    BY <2>1, <2>2 DEF queue, mission, pool, history
<1>11. CASE Send
  <2>1. /\ late' \in Nat
        /\ UNCHANGED <<stop, queue, bridgeOffline, pool, signalled, unanswered>>
    BY <1>11 DEF Send
  <2>2. Rejected.error \in Errors
    BY DEF Rejected, Errors
  <2>3. CASE bridgeOffline
    BY <1>11, <2>1, <2>2, <2>3, FinishKeepsTypes DEF Send
  <2>4. CASE ~bridgeOffline
    BY <1>11, <2>1, <2>4 DEF Send, queue, mission, pool
  <2> QED
    BY <2>3, <2>4
<1>12. ASSUME NEW o \in Outcomes, Reply(o) PROVE TypeInv'
  <2>1. o.error \in Errors /\ o.offline \in BOOLEAN /\ o.replied \in BOOLEAN
    BY OutcomeFields
  <2>2. /\ main = "reply" /\ Finish(o) /\ UNCHANGED <<stop, queue, pool, signalled, late>>
        /\ bridgeOffline' \in BOOLEAN /\ unanswered' \in BOOLEAN
    BY <1>12, <2>1 DEF Reply
  <2> QED
    BY <2>1, <2>2, FinishKeepsTypes
<1>13. CASE Close
  BY <1>13 DEF Close, mission, history
<1> QED
  BY <1>1, <1>2, <1>3, <1>4, <1>5, <1>6, <1>7, <1>8, <1>9, <1>10, <1>11, <1>12, <1>13
     DEF MainStep, MainThinks

\* The executor: a call that starts finds a worker.
LEMMA OthersKeepTypes ==
    ASSUME TypeInv, ExecutorStep \/ Signal \/ Exited \/ UNCHANGED vars
    PROVE  TypeInv'
<1> USE OrchestratorAssumption DEF TypeInv, TypeOK, Busy
<1>1. ASSUME ExecutorStep
      PROVE  UNCHANGED <<stop, queue, main, current, call, mission, bridgeOffline, status, history>>
  BY <1>1 DEF ExecutorStep, StartCall, StartStale, FinishCall, FinishStale
<1>2. ASSUME ExecutorStep
      PROVE  /\ future' \in {"none", "queued", "running", "done"}
             /\ staleRunning' \in 0 .. Workers /\ staleQueued' \in 0 .. MaxStale
             /\ future' # "none" => main = "wait"
             /\ future' = "queued" => staleQueued' < MaxStale
             /\ Busy' <= Workers
  <2>1. CASE StartCall
    BY <2>1 DEF StartCall
  <2>2. CASE StartStale
    BY <2>2 DEF StartStale
  <2>3. CASE FinishCall
    BY <2>3 DEF FinishCall
  <2>4. CASE FinishStale
    BY <2>4 DEF FinishStale
  <2> QED
    BY <1>2, <2>1, <2>2, <2>3, <2>4 DEF ExecutorStep
<1>3. CASE Signal
  BY <1>3 DEF Signal, queue, mission, pool, history
<1>4. CASE Exited \/ UNCHANGED vars
  <2>1. UNCHANGED vars
    BY <1>4 DEF Exited
  <2> QED
    BY <2>1 DEF vars, queue, mission, pool, history
<1>5. CASE ExecutorStep
  BY <1>1, <1>2, <1>5 DEF queue, mission, history
<1> QED
  BY <1>3, <1>4, <1>5

\* The types and bounds hold in every reachable state.
LEMMA TypeInvHolds == Spec => []TypeInv
<1>1. TypeInv /\ AbortInv /\ [Next]_vars => TypeInv'
  BY CommandKeepsTypes, MainKeepsTypes, OthersKeepTypes DEF Next
<1> QED
  BY TypeInit, AbortInvHolds, <1>1, PTL DEF Spec

\* Every variable keeps its type and its bound: the queue and the executor never
\* hold more than they have room for, and the history stays a window (main.py:
\* 180-186, 248, 379).
THEOREM TypesHold == Spec => []TypeOK
<1>1. TypeInv => TypeOK
  BY DEF TypeInv
<1> QED
  BY TypeInvHolds, <1>1, PTL

-----------------------------------------------------------------------------
(* The offline flag and what the operator is shown. *)

\* The flag is set with the status, and the mission it ends ends for no other
\* reason.
OfflineInv ==
    /\ main \in {"idle", "start", "check", "wait", "batch", "send", "reply", "end"}
                \cup {"ended", "closed"}
    /\ bridgeOffline =>
           \/ main \in {"start", "ended", "closed"}
           \/ main = "idle" /\ status = "bridge_offline"
           \/ main = "end" /\ status = "bridge_offline" /\ why = "offline"

\* Only an answered garbled reply leaves the flag as it was, and then it is clear.
LEMMA OfflineStep == OfflineInv /\ [Next]_vars => OfflineInv'
<1> SUFFICES ASSUME OfflineInv, [Next]_vars PROVE OfflineInv'
  OBVIOUS
<1> USE DEF OfflineInv
<1>1. ASSUME NEW o \in Outcomes, Reply(o) PROVE OfflineInv'
  <2>1. /\ ~bridgeOffline /\ (bridgeOffline' => o.offline)
        /\ o.offline => o.error \in {"timeout", "wire_error"}
    BY <1>1, OutcomeFields DEF Reply
  <2>2. CASE IsAbort(current)
    BY <1>1, <2>1, <2>2 DEF Reply, Finish, FinishAbort, Idle
  <2>3. CASE ~IsAbort(current)
    <3>1. RecordCall(o)
      BY <1>1, <2>3 DEF Reply, Finish
    <3>2. o.offline => main' = "end" /\ why' = "offline" /\ status' = "bridge_offline"
      BY <2>1, <3>1 DEF RecordCall, LooksOffline, Failed
    <3>3. main' \in {"batch", "check", "end"}
      BY <3>1 DEF RecordCall
    <3> QED
      BY <2>1, <3>2, <3>3
  <2> QED
    BY <2>2, <2>3
<1>2. CASE Send
  BY <1>2 DEF Send
<1>3. CASE EndMission
  <2>1. CASE stop
    BY <1>3, <2>1 DEF EndMission, Idle
  <2>2. CASE ~stop /\ bridgeOffline
    <3>1. EndReason = "bridge_offline"
      BY <1>3, <2>2 DEF EndReason, EndMission
    <3> QED
      BY <1>3, <2>2, <3>1 DEF EndMission, Idle
  <2>3. CASE ~stop /\ ~bridgeOffline
    BY <1>3, <2>3 DEF EndMission, Idle
  <2> QED
    BY <2>1, <2>2, <2>3
<1>4. CASE TakeCommand \/ Start \/ MainEnds \/ Close
  BY <1>4 DEF TakeCommand, Start, MainEnds, Close, mission
<1>5. CASE LoopEnds \/ Ask \/ Abandon \/ VlmError \/ (\E b \in Batches : Decide(b))
  BY <1>5 DEF LoopEnds, Ask, Abandon, VlmError, Decide
<1>6. CASE NextTool \/ PreemptBatch \/ BatchDone
  BY <1>6 DEF NextTool, PreemptBatch, BatchDone, mission
<1>7. CASE (\E c \in Commands : ReceivePlain(c)) \/ ReceiveAbort \/ CommandStep
  BY <1>7 DEF ReceivePlain, ReceiveAbort, CommandStep, Drain, PutAbort, SignalAbort,
     CommandThreadEnds, mission
<1>8. CASE ExecutorStep
  BY <1>8 DEF ExecutorStep, StartCall, StartStale, FinishCall, FinishStale, mission
<1>9. CASE Signal \/ Exited \/ UNCHANGED vars
  BY <1>9 DEF Signal, Exited, vars, mission
<1> QED
  BY <1>1, <1>2, <1>3, <1>4, <1>5, <1>6, <1>7, <1>8, <1>9 DEF Next, MainStep, MainThinks

\* Whatever ends the mission a call fails in, the orchestrator never goes idle
\* over a bridge it holds for offline without showing it (main.py:346-357,
\* 436-447, 493-498).
THEOREM OfflineIsShown == Spec => []OfflineShown
<1>1. Init => OfflineInv
  BY DEF Init, OfflineInv
<1>2. OfflineInv => OfflineShown
  BY DEF OfflineInv, OfflineShown
<1> QED
  BY <1>1, <1>2, OfflineStep, PTL DEF Spec

-----------------------------------------------------------------------------
(* A mission that is stuck.  Between two failures in a row of one tool with  *)
(* one error, the history gains at most what a plan holds: the call that     *)
(* failed and the rest of its plan as skipped.  So the last k failures in a  *)
(* row stand in the last k * L entries, L the length of the longest plan,    *)
(* and the window holds them all while (StuckThreshold - 1) * L is below it. *)

\* A plan is short enough for the window.
ShortPlans(L) ==
    /\ L \in Nat
    /\ \A b \in Batches : Len(b) <= L
    /\ (StuckThreshold - 1) * L < StuckWindow

StepType == [tool : Tools, error : Errors]

\* Where e stands among the last n entries of a history.
Occurs(s, e, n) == {i \in 1 .. Len(s) : i + n > Len(s) /\ s[i] = e}

\* While a mission goes on, its failures in a row are below the threshold and in
\* the window; what is left of its plan is a part of a plan.
FailInv(L) ==
    /\ main \in {"check", "wait", "batch", "send", "reply"} =>
           /\ repeats.times < StuckThreshold
           /\ Cardinality(Occurs(steps, [tool |-> repeats.tool, error |-> repeats.error],
                                 repeats.times * L)) >= repeats.times
    /\ main = "batch" => Len(batch) <= L
    /\ main \in {"send", "reply"} /\ ~IsAbort(current) => Len(batch) + 1 <= L

\* Occurrences are finitely many, and a longer look back finds no fewer.
LEMMA OccursFinite ==
    ASSUME NEW S, NEW s \in Seq(S), NEW e, NEW n \in Nat
    PROVE  /\ IsFiniteSet(Occurs(s, e, n)) /\ Cardinality(Occurs(s, e, n)) \in Nat
           /\ \A m \in Nat : n <= m => Cardinality(Occurs(s, e, n)) <= Cardinality(Occurs(s, e, m))
<1>1. Len(s) \in Nat
  BY LenProperties
<1>2. ASSUME NEW m \in Nat
      PROVE  IsFiniteSet(Occurs(s, e, m)) /\ Cardinality(Occurs(s, e, m)) \in Nat
  <2>1. IsFiniteSet(1 .. Len(s))
    BY <1>1, FS_Interval
  <2>2. Occurs(s, e, m) \subseteq 1 .. Len(s)
    BY DEF Occurs
  <2> QED
    BY <2>1, <2>2, FS_Subset, FS_CardinalityType
<1>3. ASSUME NEW m \in Nat, n <= m
      PROVE  Cardinality(Occurs(s, e, n)) <= Cardinality(Occurs(s, e, m))
  <2>1. Occurs(s, e, n) \subseteq Occurs(s, e, m)
    BY <1>1, <1>3 DEF Occurs
  <2> QED
    BY <1>2, <2>1, FS_Subset
<1> QED
  BY <1>2, <1>3

\* A history that goes on with e and then x shows one e more, that much further
\* back.
LEMMA OccursOnceMore ==
    ASSUME NEW S, NEW s \in Seq(S), NEW e \in S, NEW x \in Seq(S), NEW n \in Nat
    PROVE  Cardinality(Occurs(s, e, n)) + 1
               <= Cardinality(Occurs(s \o (<<e>> \o x), e, n + 1 + Len(x)))
<1> DEFINE all == s \o (<<e>> \o x)
           old == Occurs(s, e, n)
           new == Occurs(all, e, n + 1 + Len(x))
<1>1. /\ Len(s) \in Nat /\ Len(x) \in Nat /\ n + 1 + Len(x) \in Nat
      /\ <<e>> \in Seq(S) /\ Len(<<e>>) = 1 /\ <<e>>[1] = e
  BY LenProperties
<1>2. /\ <<e>> \o x \in Seq(S) /\ Len(<<e>> \o x) = 1 + Len(x) /\ (<<e>> \o x)[1] = e
  BY <1>1, ConcatProperties
<1>3. /\ all \in Seq(S) /\ Len(all) = Len(s) + 1 + Len(x)
      /\ \A i \in 1 .. Len(s) : all[i] = s[i]
      /\ all[Len(s) + 1] = e
  <2>1. /\ all \in Seq(S) /\ Len(all) = Len(s) + (1 + Len(x))
        /\ \A i \in 1 .. Len(s) + (1 + Len(x)) :
              all[i] = IF i <= Len(s) THEN s[i] ELSE (<<e>> \o x)[i - Len(s)]
    BY <1>1, <1>2, ConcatProperties
  <2> HIDE DEF all
  <2>2. Len(s) + 1 \in 1 .. Len(s) + (1 + Len(x)) /\ ~(Len(s) + 1 <= Len(s))
        /\ Len(s) + 1 - Len(s) = 1
    BY <1>1
  <2>3. all[Len(s) + 1] = e
    BY <1>2, <2>1, <2>2
  <2>4. \A i \in 1 .. Len(s) : all[i] = s[i]
    BY <1>1, <2>1
  <2> QED
    BY <1>1, <2>1, <2>3, <2>4
<1> HIDE DEF all
<1>4. old \cup {Len(s) + 1} \subseteq new
  BY <1>1, <1>3 DEF Occurs
<1>5. Len(s) + 1 \notin old
  BY <1>1 DEF Occurs
<1>6. IsFiniteSet(old) /\ IsFiniteSet(new) /\ Cardinality(old) \in Nat
  BY <1>1, <1>3, OccursFinite
<1> HIDE DEF old, new
<1>7. IsFiniteSet(old \cup {Len(s) + 1})
      /\ Cardinality(old \cup {Len(s) + 1}) = Cardinality(old) + 1
  BY <1>5, <1>6, FS_AddElement
<1>8. Cardinality(old \cup {Len(s) + 1}) <= Cardinality(new)
  BY <1>4, <1>6, FS_Subset
<1> QED
  BY <1>7, <1>8 DEF old, new, all

\* The window of a history shows what the history shows of its last entries, as
\* far back as the window reaches.
LEMMA WindowShows ==
    ASSUME NEW entries \in Seq(StepType), steps \in Seq(StepType),
           NEW e, NEW n \in Nat, n <= StuckWindow
    PROVE  Cardinality(Occurs(steps \o entries, e, n))
               <= Cardinality(Occurs(Recorded(entries), e, n))
<1> DEFINE all == steps \o entries
           from == IF Len(all) > StuckWindow THEN Len(all) - StuckWindow + 1 ELSE 1
           win == SubSeq(all, from, Len(all))
<1>1. all \in Seq(StepType) /\ Len(all) \in Nat
  BY ConcatProperties, LenProperties
<1>2. StuckWindow \in Nat \ {0}
  BY OrchestratorAssumption
<1>3. /\ from \in 1 .. Len(all) + 1 /\ from \in Int
      /\ Len(all) - n + 1 >= from \/ from = 1
      /\ from = 1 \/ from = Len(all) - StuckWindow + 1
  BY <1>1, <1>2
<1>4. Recorded(entries) = win
  BY DEF Recorded
<1> HIDE DEF all, from
<1>5. /\ win \in Seq(StepType)
      /\ Len(win) = IF from <= Len(all) THEN Len(all) - from + 1 ELSE 0
      /\ \A i \in 1 .. Len(all) - from + 1 : win[i] = all[from + i - 1]
  BY <1>1, <1>3, SubSeqProperties
<1>6. Len(win) = Len(all) - from + 1
  BY <1>1, <1>3, <1>5
<1> HIDE DEF win
<1> DEFINE A == Occurs(all, e, n)
           B == Occurs(win, e, n)
           f == [i \in A |-> i - from + 1]
<1>7. ASSUME NEW i \in A PROVE f[i] \in B /\ i \in Int /\ f[i] = i - from + 1
  <2>1. i \in 1 .. Len(all) /\ i + n > Len(all) /\ all[i] = e
    BY DEF Occurs
  <2>2. i >= from
    BY <1>1, <1>3, <2>1
  <2>3. i - from + 1 \in 1 .. Len(win) /\ (i - from + 1) + n > Len(win)
        /\ from + (i - from + 1) - 1 = i
    BY <1>1, <1>3, <1>6, <2>1, <2>2
  <2>4. win[i - from + 1] = e
    BY <1>5, <1>6, <2>1, <2>3
  <2> QED
    BY <2>1, <2>3, <2>4 DEF Occurs
<1>8. f \in Injection(A, B)
  <2>1. f \in [A -> B]
    BY <1>7
  <2>2. \A i, j \in A : f[i] = f[j] => i = j
    <3> SUFFICES ASSUME NEW i \in A, NEW j \in A, f[i] = f[j] PROVE i = j
      OBVIOUS
    <3>1. i \in Int /\ j \in Int /\ i - from + 1 = j - from + 1
      BY <1>7
    <3> QED
      BY <1>3, <3>1
  <2> QED
    BY <2>1, <2>2 DEF Injection, IsInjective
<1>9. IsFiniteSet(B)
  BY <1>5, OccursFinite
<1>10. Cardinality(A) <= Cardinality(B)
  BY <1>8, <1>9, FS_Injection
<1> QED
  BY <1>4, <1>10 DEF all

\* A failure recorded with the rest of its plan leaves one more to see.
LEMMA RecordedOnceMore ==
    ASSUME NEW e \in StepType, NEW x \in Seq(StepType), steps \in Seq(StepType),
           NEW n \in Nat, NEW m \in Nat, n + 1 + Len(x) <= m, m <= StuckWindow
    PROVE  /\ Cardinality(Occurs(steps, e, n)) + 1
                 <= Cardinality(Occurs(Recorded(<<e>> \o x), e, m))
           /\ Cardinality(Occurs(steps, e, n)) \in Nat
           /\ Cardinality(Occurs(Recorded(<<e>> \o x), e, m)) \in Nat
<1>1. <<e>> \o x \in Seq(StepType) /\ Len(x) \in Nat /\ n + 1 + Len(x) \in Nat
  BY ConcatProperties, LenProperties
<1>2. Cardinality(Occurs(steps, e, n)) + 1
          <= Cardinality(Occurs(steps \o (<<e>> \o x), e, n + 1 + Len(x)))
  BY OccursOnceMore
<1>3. steps \o (<<e>> \o x) \in Seq(StepType)
  BY <1>1, ConcatProperties
<1>4. Cardinality(Occurs(steps \o (<<e>> \o x), e, n + 1 + Len(x)))
          <= Cardinality(Occurs(steps \o (<<e>> \o x), e, m))
  BY <1>1, <1>3, OccursFinite
<1>5. Cardinality(Occurs(steps \o (<<e>> \o x), e, m))
          <= Cardinality(Occurs(Recorded(<<e>> \o x), e, m))
  BY <1>1, WindowShows
<1>6. Recorded(<<e>> \o x) \in Seq(StepType)
  BY <1>1, RecordedType DEF StepType
<1>7. /\ Cardinality(Occurs(steps, e, n)) \in Nat
      /\ Cardinality(Occurs(steps \o (<<e>> \o x), e, n + 1 + Len(x))) \in Nat
      /\ Cardinality(Occurs(steps \o (<<e>> \o x), e, m)) \in Nat
      /\ Cardinality(Occurs(Recorded(<<e>> \o x), e, m)) \in Nat
  BY <1>1, <1>3, <1>6, OccursFinite
<1> QED
  BY <1>2, <1>4, <1>5, <1>7

\* What the window shows of the last entries counts towards the threshold.
LEMMA StuckSees ==
    ASSUME NEW w \in Seq(StepType), NEW e, NEW n \in Nat,
           Cardinality(Occurs(w, e, n)) >= StuckThreshold
    PROVE  Stuck(w, e)
<1> DEFINE every == {i \in DOMAIN w : w[i] = e}
<1>1. Len(w) \in Nat /\ DOMAIN w = 1 .. Len(w)
  BY LenProperties
<1>2. IsFiniteSet(every)
  <2>1. IsFiniteSet(1 .. Len(w))
    BY <1>1, FS_Interval
  <2> QED
    BY <1>1, <2>1, FS_Subset
<1>3. Occurs(w, e, n) \subseteq every
  BY <1>1 DEF Occurs
<1>4. Cardinality(Occurs(w, e, n)) <= Cardinality(every)
  BY <1>2, <1>3, FS_Subset
<1>5. Cardinality(every) \in Nat /\ Cardinality(Occurs(w, e, n)) \in Nat /\ StuckThreshold \in Nat
  BY <1>2, OccursFinite, FS_CardinalityType, OrchestratorAssumption
<1> QED
  BY <1>4, <1>5 DEF Stuck

\* The skipped rest is as long as what it stands for.
LEMMA SkippedLength ==
    ASSUME NEW calls \in Seq(Tools)
    PROVE  Len(Skipped(calls)) = Len(calls) /\ Skipped(calls) \in Seq(StepType)
<1>1. Skipped(calls) = [i \in 1 .. Len(calls) |-> [tool |-> calls[i], error |-> "skipped"]]
      /\ Len(calls) \in Nat
  BY LenProperties DEF Skipped
<1>2. Skipped(calls) \in Seq(StepType)
  BY SkippedType DEF StepType
<1>3. DOMAIN Skipped(calls) = 1 .. Len(calls)
  BY <1>1
<1>4. DOMAIN Skipped(calls) = 1 .. Len(Skipped(calls)) /\ Len(Skipped(calls)) \in Nat
  BY <1>2, LenProperties
<1> QED
  BY <1>1, <1>2, <1>3, <1>4

\* k failures in a row, and one more, within the window.
LEMMA WindowRoom ==
    ASSUME NEW L \in Nat, NEW k \in Nat, k < StuckThreshold, NEW r \in Nat, r + 1 <= L,
           (StuckThreshold - 1) * L < StuckWindow
    PROVE  /\ k * L \in Nat /\ k * L + 1 <= StuckWindow
           /\ (k + 1) * L \in Nat /\ k * L + 1 + r <= (k + 1) * L
           /\ k + 1 < StuckThreshold => (k + 1) * L <= StuckWindow
<1>1. StuckWindow \in Nat /\ StuckThreshold \in Nat /\ StuckThreshold >= 1
  BY OrchestratorAssumption
<1> DEFINE T == StuckThreshold - 1
<1>2. T \in Nat /\ k <= T
  BY <1>1
<1>3. (k + 1) * L = k * L + L /\ k * L \in Nat /\ (k + 1) * L \in Nat
  BY SMT
<1>4. ASSUME NEW a \in Nat, NEW b \in Nat, a <= b PROVE a * L <= b * L /\ a * L \in Nat /\ b * L \in Nat
  BY <1>4, SMT
<1>5. k * L <= T * L /\ T * L \in Nat
  BY <1>2, <1>4
<1>6. k + 1 < StuckThreshold => (k + 1) * L <= T * L
  BY <1>1, <1>2, <1>4
<1>7. T * L < StuckWindow
  OBVIOUS
<1> HIDE DEF T
<1> QED
  BY <1>1, <1>3, <1>5, <1>6, <1>7

\* Recording a call: the failure that reaches the threshold is seen in the window
\* and ends the mission (main.py:449-461), one below it leaves its trace.
LEMMA RecordSees ==
    ASSUME NEW L, ShortPlans(L), TypeInv, FailInv(L), NEW o, o.error \in Errors,
           main \in {"send", "reply"}, ~IsAbort(current), RecordCall(o)
    PROVE  FailInv(L)'
<1> DEFINE e == [tool |-> call, error |-> o.error]
           r == [tool |-> repeats.tool, error |-> repeats.error]
           k == IF r = e THEN repeats.times ELSE 0
<1>1. /\ steps \in Seq(StepType) /\ batch \in Seq(Tools) /\ call \in Tools
      /\ repeats \in [tool : Tools \cup {"none"}, error : Errors, times : Nat]
      /\ e \in StepType /\ Len(batch) \in Nat /\ L \in Nat
      /\ StuckThreshold \in Nat \ {0}
  BY LenProperties, OrchestratorAssumption DEF TypeInv, TypeOK, StepType, ShortPlans
<1>2. main' \in {"batch", "check", "end"}
  BY DEF RecordCall
<1>3. Len(batch) + 1 <= L
  BY DEF FailInv
<1>4. main' = "batch" => Len(batch') <= L
  BY <1>1, <1>3 DEF RecordCall
<1>5. CASE ~Failed(o)
  <2>1. repeats' = NoFailure
    BY <1>5 DEF RecordCall
  <2>2. main' \in {"batch", "end"}
    BY <1>5 DEF RecordCall
  <2>3. repeats'.times = 0 /\ repeats'.times * L = 0
    BY <1>1, <2>1 DEF NoFailure
  <2>4. steps' \in Seq(StepType)
    <3>1. batch \in Seq(Tools) /\ <<>> \in Seq(StepType) /\ <<e>> \in Seq(StepType)
      BY <1>1, EmptySeq
    <3>2. Skipped(batch) \in Seq(StepType)
      BY <1>1, SkippedLength
    <3>3. <<e>> \o Skipped(batch) \in Seq(StepType) /\ <<e>> \o <<>> \in Seq(StepType)
      BY <3>1, <3>2, ConcatProperties
    <3>4. Recorded(<<e>> \o Skipped(batch)) \in Seq(StepType)
          /\ Recorded(<<e>> \o <<>>) \in Seq(StepType)
      BY <1>1, <3>3, RecordedType DEF StepType
    <3> QED
      BY <3>4 DEF RecordCall
  <2>5. Cardinality(Occurs(steps', [tool |-> repeats'.tool, error |-> repeats'.error], 0)) \in Nat
    BY <2>4, OccursFinite
  <2> QED
    BY <1>1, <1>2, <1>4, <2>2, <2>3, <2>5 DEF FailInv
<1>6. CASE Failed(o)
  <2>1. k \in Nat /\ k < StuckThreshold /\ Cardinality(Occurs(steps, e, k * L)) >= k
    <3>1. CASE r = e
      BY <1>1, <3>1 DEF FailInv
    <3>2. CASE r # e
      <4>1. k = 0 /\ k * L = 0
        BY <1>1, <3>2
      <4>2. Cardinality(Occurs(steps, e, 0)) \in Nat
        BY <1>1, OccursFinite
      <4> QED
        BY <1>1, <4>1, <4>2
    <3> QED
      BY <3>1, <3>2
  <2>2. /\ repeats'.tool = call /\ repeats'.error = o.error /\ repeats'.times = k + 1
    <3>1. repeats' = [tool |-> call, error |-> o.error,
                      times |-> IF repeats.tool = call /\ repeats.error = o.error
                                THEN repeats.times + 1 ELSE 1]
      BY <1>6 DEF RecordCall, Repeated
    <3>2. (r = e) <=> (repeats.tool = call /\ repeats.error = o.error)
      OBVIOUS
    <3> QED
      BY <3>1, <3>2
  <2> HIDE DEF k, r
  <2>3. /\ k * L \in Nat /\ k * L + 1 <= StuckWindow
        /\ (k + 1) * L \in Nat /\ k * L + 1 + Len(batch) <= (k + 1) * L
        /\ k + 1 < StuckThreshold => (k + 1) * L <= StuckWindow
    BY <1>1, <1>3, <2>1, WindowRoom DEF ShortPlans
  <2>4. o.error # "none" /\ steps' = Recorded(<<e>> \o Skipped(batch))
    BY <1>6 DEF RecordCall, Failed
  <2>5. Stuck(Recorded(<<e>>), e) \/ k + 1 < StuckThreshold
    <3>1. <<>> \in Seq(StepType) /\ Len(<<>>) = 0 /\ <<e>> \o <<>> = <<e>> /\ <<e>> \in Seq(StepType)
      BY <1>1, EmptySeq, ConcatEmptySeq
    <3>2. k * L + 1 \in Nat /\ k * L + 1 + 0 <= k * L + 1
      BY <2>3
    <3>3. /\ Cardinality(Occurs(steps, e, k * L)) + 1
                 <= Cardinality(Occurs(Recorded(<<e>>), e, k * L + 1))
          /\ Cardinality(Occurs(steps, e, k * L)) \in Nat
          /\ Cardinality(Occurs(Recorded(<<e>>), e, k * L + 1)) \in Nat
      BY <1>1, <2>3, <3>1, <3>2, RecordedOnceMore
    <3>4. Recorded(<<e>>) \in Seq(StepType)
      BY <1>1, <3>1, RecordedType DEF StepType
    <3>5. Cardinality(Occurs(Recorded(<<e>>), e, k * L + 1)) >= k + 1
      BY <2>1, <3>3
    <3> HIDE DEF e
    <3>6. CASE k + 1 >= StuckThreshold
      <4>1. Cardinality(Occurs(Recorded(<<e>>), e, k * L + 1)) >= StuckThreshold
        BY <1>1, <2>1, <3>3, <3>5, <3>6
      <4> QED
        BY <3>2, <3>4, <4>1, StuckSees
    <3> QED
      BY <1>1, <2>1, <3>6
  <2>6. main' # "batch" /\ (Stuck(Recorded(<<e>>), e) => main' = "end")
    BY <1>6, <2>4 DEF RecordCall
  <2>7. CASE k + 1 < StuckThreshold
    <3>1. Skipped(batch) \in Seq(StepType) /\ Len(Skipped(batch)) = Len(batch)
      BY <1>1, SkippedLength
    <3>2. /\ Cardinality(Occurs(steps, e, k * L)) + 1
                 <= Cardinality(Occurs(Recorded(<<e>> \o Skipped(batch)), e, (k + 1) * L))
          /\ Cardinality(Occurs(steps, e, k * L)) \in Nat
          /\ Cardinality(Occurs(Recorded(<<e>> \o Skipped(batch)), e, (k + 1) * L)) \in Nat
      BY <1>1, <2>3, <2>7, <3>1, RecordedOnceMore
    <3>3. Cardinality(Occurs(steps', e, (k + 1) * L)) >= k + 1
      BY <2>1, <2>4, <3>2
    <3> QED
      BY <1>2, <2>2, <2>6, <2>7, <3>3 DEF FailInv
  <2>8. CASE ~(k + 1 < StuckThreshold)
    <3>1. main' = "end"
      BY <2>5, <2>6, <2>8
    <3> QED
      BY <3>1 DEF FailInv
  <2> QED
    BY <2>7, <2>8
<1> QED
  BY <1>5, <1>6

\* Every other step leaves the failures and the history alone, starts afresh or
\* ends the mission.
LEMMA FailStep ==
    ASSUME NEW L, ShortPlans(L), TypeInv, FailInv(L), [Next]_vars
    PROVE  FailInv(L)'
<1> USE DEF FailInv
<1>1. L \in Nat /\ \A b \in Batches : Len(b) <= L
  BY DEF ShortPlans
<1>2. ASSUME NEW o, o.error \in Errors, main \in {"send", "reply"}, Finish(o) PROVE FailInv(L)'
  <2>1. CASE IsAbort(current)
    BY <1>2, <2>1 DEF Finish, FinishAbort, Idle
  <2>2. CASE ~IsAbort(current)
    BY <1>2, <2>2, RecordSees DEF Finish
  <2> QED
    BY <2>1, <2>2
<1>3. CASE Send
  <2>1. CASE bridgeOffline
    BY <1>2, <1>3, <2>1 DEF Send, Rejected, Errors
  <2>2. CASE ~bridgeOffline
    BY <1>3, <2>2 DEF Send, mission
  <2> QED
    BY <2>1, <2>2
<1>4. ASSUME NEW o \in Outcomes, Reply(o) PROVE FailInv(L)'
  <2>1. o.error \in Errors
    BY OutcomeFields
  <2> QED
    BY <1>2, <1>4, <2>1 DEF Reply
<1>5. CASE Start
  <2>1. repeats' = NoFailure /\ steps' = <<>> /\ main' \in {"send", "check"}
        /\ current' = current /\ (main' = "send" => IsAbort(current))
    BY <1>5 DEF Start
  <2>2. repeats'.times = 0 /\ repeats'.times * L = 0 /\ 0 < StuckThreshold
    BY <1>1, <2>1, OrchestratorAssumption DEF NoFailure
  <2>3. Cardinality(Occurs(steps', [tool |-> repeats'.tool, error |-> repeats'.error], 0)) \in Nat
    BY <2>1, EmptySeq, OccursFinite
  <2> QED
    BY <2>1, <2>2, <2>3 DEF IsAbort
<1>6. CASE TakeCommand \/ LoopEnds \/ Abandon \/ VlmError \/ PreemptBatch \/ EndMission \/ MainEnds \/ Close
  BY <1>6 DEF TakeCommand, LoopEnds, Abandon, VlmError, PreemptBatch, EndMission, MainEnds, Close, Idle
<1>7. CASE Ask
  BY <1>7 DEF Ask, mission, history
<1>8. ASSUME NEW b \in Batches, Decide(b) PROVE FailInv(L)'
  BY <1>1, <1>8 DEF Decide, history
<1>9. CASE NextTool
  <2>1. batch \in Seq(Tools) /\ Len(batch) \in Nat /\ batch # <<>>
    BY <1>9, LenProperties DEF TypeInv, TypeOK, NextTool
  <2>2. Len(Tail(batch)) = Len(batch) - 1
    BY <2>1, HeadTailProperties
  <2>3. main = "batch" /\ main' = "send" /\ batch' = Tail(batch)
        /\ UNCHANGED <<steps, repeats, current>>
    BY <1>9 DEF NextTool, history
  <2> QED
    BY <2>1, <2>2, <2>3
<1>10. CASE BatchDone
  BY <1>10 DEF BatchDone, mission, history
<1>11. CASE (\E c \in Commands : ReceivePlain(c)) \/ ReceiveAbort \/ CommandStep
  BY <1>11 DEF ReceivePlain, ReceiveAbort, CommandStep, Drain, PutAbort, SignalAbort,
     CommandThreadEnds, mission, history
<1>12. CASE ExecutorStep
  BY <1>12 DEF ExecutorStep, StartCall, StartStale, FinishCall, FinishStale, mission, history
<1>13. CASE Signal \/ Exited \/ UNCHANGED vars
  BY <1>13 DEF Signal, Exited, vars, mission, history
<1> QED
  BY <1>3, <1>4, <1>5, <1>6, <1>7, <1>8, <1>9, <1>10, <1>11, <1>12, <1>13
     DEF Next, MainStep, MainThinks

\* Where no plan is longer than L and (StuckThreshold - 1) * L entries leave room
\* in the window, a mission ends with the failure that reaches the threshold,
\* whatever the VLM answers in between (main.py:448-461).  With the code's window
\* of 4 and threshold of 2 that is every mission whose plans have at most three
\* calls; OrchestratorStuck shows that a plan of four is enough to escape.
THEOREM StuckIsSeen ==
    ASSUME NEW L, ShortPlans(L)
    PROVE  Spec => []StuckStops
<1>1. Init => FailInv(L)
  BY DEF Init, FailInv
<1>2. TypeInv /\ FailInv(L) /\ [Next]_vars => FailInv(L)'
  BY FailStep
<1>3. TypeInv /\ FailInv(L) => StuckStops
  <2> SUFFICES ASSUME TypeInv, FailInv(L), repeats.times >= StuckThreshold
               PROVE  main \in {"end", "idle", "start", "ended", "closed"}
    BY DEF StuckStops
  <2>1. repeats.times \in Nat /\ StuckThreshold \in Nat
    BY OrchestratorAssumption DEF TypeInv, TypeOK
  <2>2. main \notin {"check", "wait", "batch", "send", "reply"}
    BY <2>1 DEF FailInv
  <2> QED
    BY <2>2 DEF TypeInv, TypeOK
<1> QED
  BY TypeInvHolds, <1>1, <1>2, <1>3, PTL DEF Spec

=============================================================================
