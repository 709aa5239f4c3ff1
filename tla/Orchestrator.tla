---------------------------- MODULE Orchestrator ----------------------------
(***************************************************************************)
(* The orchestrator process: python/services/orchestrator/main.py.         *)
(*                                                                         *)
(* Three kinds of thread take part.  The command thread moves voice        *)
(* commands from a PULL socket into a bounded queue, and lets an abort     *)
(* jump that queue and raise the preempt event.  The main thread takes one *)
(* command at a time and runs a mission: it asks the VLM for a batch of    *)
(* tool calls, sends them one by one to the flight bridge, and asks again. *)
(* The VLM calls run on a pool of workers; a call the main thread abandons *)
(* keeps its worker until it returns, if it ever does.                     *)
(*                                                                         *)
(* The VLM and the bridge are environment here: the VLM answers with any   *)
(* batch of a small set or fails, a tool call has any outcome the code     *)
(* tells apart.  A signal stops the service at any moment: it only sets    *)
(* stop_event, which every loop tests.                                     *)
(***************************************************************************)
EXTENDS Integers, Sequences, FiniteSets

CONSTANTS
    Commands,      \* the kinds of voice command the operator gives
    Batches,       \* the batches of tool calls the VLM may answer with
    QueueSize,     \* maxsize of command_q
    Workers,       \* max_workers of the VLM executor
    MaxStale,      \* bound: abandoned calls still waiting for a worker
    MaxDecisions,  \* orchestrator.mission_max_steps
    StuckWindow,   \* _STUCK_FAILURE_WINDOW
    StuckThreshold \* _STUCK_FAILURE_THRESHOLD

\* "abort" is flagged by STT; "abort_text" is not flagged but matches the
\* abort keyword; "arm" contains the word arm.
CommandKinds == {"plain", "arm", "abort", "abort_text"}
TerminalTools == {"hold", "land", "abort", "return_to_launch", "kill", "disarm"}
Tools == TerminalTools \cup {"arm", "takeoff", "goto_ned", "set_velocity_ned"}

ASSUME OrchestratorAssumption ==
    /\ Commands \subseteq CommandKinds
    /\ Batches \subseteq Seq(Tools)
    /\ QueueSize \in Nat \ {0} /\ Workers \in Nat \ {0} /\ MaxStale \in Nat \ {0}
    /\ MaxDecisions \in Nat \ {0}
    /\ StuckWindow \in Nat \ {0} /\ StuckThreshold \in Nat \ {0}

VARIABLES
    \* the command thread and the queue it feeds
    commandThread, commandQ, preempt,
    \* the main thread: where it is, the command and tool call it serves
    main, current, call,
    \* the mission: VLM decisions so far, tool calls left of the batch, the
    \* trailing step_history, why the loop ended
    decisions, batch, steps, why,
    \* _bridge_offline_flag and the last status published
    bridgeOffline, status,
    \* the VLM call being waited for; abandoned calls running and queued
    future, staleRunning, staleQueued,
    \* stop_event
    stop,
    \* history: a signalled abort waits in the queue; tool calls sent since
    signalled, late,
    \* history: a call went unanswered and no reply has come since
    unanswered,
    \* history: times in a row that a call failed with one tool and error
    repeats

queue == <<commandThread, commandQ, preempt>>
mission == <<decisions, batch, steps, why>>
pool == <<future, staleRunning, staleQueued>>
history == <<signalled, late, unanswered, repeats>>
vars == <<queue, main, current, call, mission, bridgeOffline, status, pool, stop, history>>

NoFailure == [tool |-> "none", error |-> "none", times |-> 0]
Errors == {"none", "denied", "timeout", "wire_error", "bridge_offline", "skipped"}

TypeOK ==
    /\ commandThread \in {"poll", "drain", "put", "signal", "ended"}
    /\ commandQ \in Seq(Commands) /\ Len(commandQ) <= QueueSize
    /\ preempt \in BOOLEAN
    /\ main \in {"idle", "start", "check", "wait", "batch", "send", "reply", "end"}
                \cup {"ended", "closed"}
    /\ current \in Commands \cup {"none"} /\ call \in Tools \cup {"none"}
    /\ decisions \in 0 .. MaxDecisions
    /\ batch \in Seq(Tools)
    /\ steps \in Seq([tool : Tools, error : Errors]) /\ Len(steps) <= StuckWindow
    /\ why \in {"none", "preempted", "terminal", "offline", "stuck", "vlm_error"}
    /\ bridgeOffline \in BOOLEAN
    /\ status \in {"idle", "aborted", "abort_failed", "bridge_offline", "thinking",
                   "executing", "vlm_error"}
    /\ future \in {"none", "queued", "running", "done"}
    /\ staleRunning \in 0 .. Workers /\ staleQueued \in 0 .. MaxStale
    /\ stop \in BOOLEAN
    /\ signalled \in BOOLEAN /\ late \in Nat
    /\ unanswered \in BOOLEAN
    /\ repeats \in [tool : Tools \cup {"none"}, error : Errors, times : Nat]

Init ==
    /\ commandThread = "poll" /\ commandQ = <<>> /\ preempt = FALSE
    /\ main = "idle" /\ current = "none" /\ call = "none"
    /\ decisions = 0 /\ batch = <<>> /\ steps = <<>> /\ why = "none"
    /\ bridgeOffline = FALSE /\ status = "idle"
    /\ future = "none" /\ staleRunning = 0 /\ staleQueued = 0
    /\ stop = FALSE
    /\ signalled = FALSE /\ late = 0 /\ unanswered = FALSE /\ repeats = NoFailure

-----------------------------------------------------------------------------
(* The command thread.  Its loop tests stop_event before each poll: the poll *)
(* it is in when the signal comes may still return a command.                *)

Polling == IF stop THEN "ended" ELSE "poll"

\* A command that STT did not flag joins the queue or, with the queue full,
\* is dropped.
ReceivePlain(c) ==
    /\ commandThread = "poll" /\ c # "abort"
    /\ commandThread' = Polling
    /\ commandQ' = IF Len(commandQ) < QueueSize THEN Append(commandQ, c) ELSE commandQ
    /\ UNCHANGED <<stop, preempt, main, current, call, mission,
                   bridgeOffline, status, pool, history>>

ReceiveAbort ==
    /\ commandThread = "poll" /\ "abort" \in Commands
    /\ commandThread' = "drain"
    /\ UNCHANGED <<stop, commandQ, preempt, main, current, call, mission,
                   bridgeOffline, status, pool, history>>

\* Mutant: the abort joins the queue behind what is pending.
DrainNothing ==
    /\ commandThread = "drain" /\ commandThread' = "put" /\ signalled' = FALSE
    /\ UNCHANGED <<stop, commandQ, preempt, main, current, call, mission, bridgeOffline, status,
                   pool, late, unanswered, repeats>>

\* The get_nowait loop: nobody else fills the queue, so taking the commands
\* one at a time or at once makes no difference to the main thread.
Drain ==
    /\ commandThread = "drain"
    /\ commandThread' = "put" /\ commandQ' = <<>>
    /\ signalled' = FALSE
    /\ UNCHANGED <<stop, preempt, main, current, call, mission, bridgeOffline, status, pool,
                   late, unanswered, repeats>>

PutAbort ==
    /\ commandThread = "put"
    /\ commandThread' = "signal" /\ commandQ' = Append(commandQ, "abort")
    /\ UNCHANGED <<stop, preempt, main, current, call, mission, bridgeOffline, status, pool, history>>

Waiting(kind) == \E i \in DOMAIN commandQ : commandQ[i] = kind

SignalAbort ==
    /\ commandThread = "signal"
    /\ commandThread' = Polling /\ preempt' = TRUE
    /\ signalled' = Waiting("abort") /\ late' = 0
    /\ UNCHANGED <<stop, commandQ, main, current, call, mission, bridgeOffline, status, pool,
                   unanswered, repeats>>

\* The poll ran into its timeout.
CommandThreadEnds ==
    /\ commandThread = "poll" /\ stop
    /\ commandThread' = "ended"
    /\ UNCHANGED <<stop, commandQ, preempt, main, current, call, mission, bridgeOffline,
                   status, pool, history>>

-----------------------------------------------------------------------------
(* The main thread between commands.  "idle" is the get() with its timeout,  *)
(* which the loop only enters while stop_event is clear: it may still return *)
(* one command after the signal.                                             *)

Idle == IF stop THEN "ended" ELSE "idle"

TakeCommand ==
    /\ main = "idle" /\ commandQ # <<>>
    /\ main' = "start" /\ current' = Head(commandQ) /\ commandQ' = Tail(commandQ)
    /\ signalled' = (signalled /\ Head(commandQ) # "abort")
    /\ UNCHANGED <<stop, commandThread, preempt, call, mission, bridgeOffline, status, pool,
                   late, unanswered, repeats>>

IsAbort(c) == c \in {"abort", "abort_text"}

\* voice_confirmed of every arm this command's mission sends.
ArmAuthorized == current = "arm"

\* Mutant: the preempt event is not cleared for the new command.
StartKeepsPreempt ==
    /\ main = "start"
    /\ bridgeOffline' = FALSE
    /\ decisions' = 0 /\ batch' = <<>> /\ steps' = <<>> /\ why' = "none"
    /\ repeats' = NoFailure
    /\ IF IsAbort(current)
         THEN main' = "send" /\ call' = "abort" /\ status' = "aborted"
         ELSE main' = "check" /\ UNCHANGED <<call, status>>
    /\ UNCHANGED <<stop, commandThread, commandQ, preempt, current, pool, signalled, late, unanswered>>

\* _on_command up to the mission loop, or up to the dispatch of an abort.
Start ==
    /\ main = "start"
    /\ bridgeOffline' = FALSE /\ preempt' = FALSE
    /\ decisions' = 0 /\ batch' = <<>> /\ steps' = <<>> /\ why' = "none"
    /\ repeats' = NoFailure
    /\ IF IsAbort(current)
         THEN main' = "send" /\ call' = "abort" /\ status' = "aborted"
         ELSE main' = "check" /\ UNCHANGED <<call, status>>
    /\ UNCHANGED <<stop, commandThread, commandQ, current, pool, signalled, late, unanswered>>

Signal == ~stop /\ stop' = TRUE /\ UNCHANGED <<queue, main, current, call, mission,
                                                 bridgeOffline, status, pool, history>>

\* get() ran into its timeout; the loop ends.
MainEnds ==
    /\ main = "idle" /\ stop /\ main' = "ended"
    /\ UNCHANGED <<stop, queue, current, call, mission, bridgeOffline, status, pool, history>>

\* Mutant: the executor's shutdown waits for the calls that run.
CloseWaits ==
    /\ main = "ended" /\ staleRunning = 0 /\ main' = "closed"
    /\ preempt' = TRUE /\ staleQueued' = 0
    /\ UNCHANGED <<stop, commandThread, commandQ, current, call, mission, bridgeOffline, status,
                   future, staleRunning, history>>

\* stop(): the event wakes nobody any more, calls without a worker are cancelled,
\* the REQ socket is closed.
Close ==
    /\ main = "ended" /\ main' = "closed"
    /\ preempt' = TRUE /\ staleQueued' = 0
    /\ UNCHANGED <<stop, commandThread, commandQ, current, call, mission, bridgeOffline, status,
                   future, staleRunning, history>>

\* The interpreter waits for the calls that have a worker, then the process ends.
Exited == main = "closed" /\ commandThread = "ended" /\ staleRunning = 0 /\ UNCHANGED vars

-----------------------------------------------------------------------------
(* The mission loop: one round asks the VLM and carries out its batch. *)

LoopEnds ==
    /\ main = "check"
    /\ \/ decisions >= MaxDecisions /\ UNCHANGED why
       \/ stop /\ UNCHANGED why
       \/ decisions < MaxDecisions /\ ~stop /\ (preempt \/ commandQ # <<>>) /\ why' = "preempted"
    /\ main' = "end"
    /\ UNCHANGED <<stop, queue, current, call, decisions, batch, steps, bridgeOffline, status,
                   pool, history>>

\* submit() to the executor; MaxStale bounds the calls left waiting in it.
Ask ==
    /\ main = "check" /\ decisions < MaxDecisions /\ ~stop /\ ~preempt /\ commandQ = <<>>
    /\ staleQueued < MaxStale
    /\ main' = "wait" /\ future' = "queued" /\ status' = "thinking"
    /\ UNCHANGED <<stop, queue, current, call, mission, bridgeOffline, staleRunning, staleQueued, history>>

\* Mutant: the main thread waits for the VLM first and looks for an abort after.
AbandonWhenDone ==
    /\ main = "wait" /\ (preempt \/ stop) /\ future = "done"
    /\ main' = "end" /\ why' = "preempted" /\ future' = "none"
    /\ UNCHANGED <<stop, queue, current, call, decisions, batch, steps, bridgeOffline, status,
                   staleRunning, staleQueued, history>>

\* The wait loop sees the preempt or the stop event, also when the future is
\* done by then.
Abandon ==
    /\ main = "wait" /\ (preempt \/ stop)
    /\ main' = "end" /\ why' = "preempted" /\ future' = "none"
    /\ staleRunning' = staleRunning + (IF future = "running" THEN 1 ELSE 0)
    /\ staleQueued' = staleQueued + (IF future = "queued" THEN 1 ELSE 0)
    /\ UNCHANGED <<stop, queue, current, call, decisions, batch, steps, bridgeOffline, status, history>>

\* decide() returned a batch; an empty one ends the mission.
Decide(b) ==
    /\ main = "wait" /\ future = "done" /\ ~preempt /\ ~stop
    /\ future' = "none" /\ decisions' = decisions + 1 /\ batch' = b
    /\ IF b = <<>>
         THEN main' = "end" /\ UNCHANGED status
         ELSE main' = "batch" /\ status' = "executing"
    /\ UNCHANGED <<stop, queue, current, call, steps, why, bridgeOffline, staleRunning, staleQueued, history>>

\* decide() returned a vlm_error thought, which counts as a decision, or raised.
VlmError ==
    /\ main = "wait" /\ future = "done" /\ ~preempt /\ ~stop
    /\ future' = "none" /\ main' = "end" /\ why' = "vlm_error"
    /\ decisions' \in {decisions, decisions + 1}
    /\ UNCHANGED <<stop, queue, current, call, batch, steps, bridgeOffline, status,
                   staleRunning, staleQueued, history>>

\* The trailing window of step_history after more entries.
Recorded(entries) ==
    LET all == steps \o entries
    IN  SubSeq(all, IF Len(all) > StuckWindow THEN Len(all) - StuckWindow + 1 ELSE 1, Len(all))

Skipped(calls) == [i \in DOMAIN calls |-> [tool |-> calls[i], error |-> "skipped"]]

\* Mutant: an abort is only looked for between decisions.
NextToolUnchecked ==
    /\ main = "batch" /\ batch # <<>>
    /\ main' = "send" /\ call' = Head(batch) /\ batch' = Tail(batch)
    /\ UNCHANGED <<stop, queue, current, decisions, steps, why, bridgeOffline, status, pool, history>>

NextTool ==
    /\ main = "batch" /\ batch # <<>> /\ ~preempt /\ ~stop
    /\ main' = "send" /\ call' = Head(batch) /\ batch' = Tail(batch)
    /\ UNCHANGED <<stop, queue, current, decisions, steps, why, bridgeOffline, status, pool, history>>

PreemptBatch ==
    /\ main = "batch" /\ batch # <<>> /\ (preempt \/ stop)
    /\ main' = "end" /\ why' = "preempted"
    /\ steps' = Recorded(Skipped(batch)) /\ batch' = <<>>
    /\ UNCHANGED <<stop, queue, current, call, decisions, bridgeOffline, status, pool, history>>

BatchDone ==
    /\ main = "batch" /\ batch = <<>>
    /\ main' = "check"
    /\ UNCHANGED <<stop, queue, current, call, mission, bridgeOffline, status, pool, history>>

-----------------------------------------------------------------------------
(* _dispatch_tool_call. *)

\* Every way a dispatch can end: the error the caller sees, whether the REQ
\* layer saw a reply, and whether it flags the bridge offline.  A reply may
\* carry any error of the bridge, MAVSDK's "timeout" among them.
Outcomes ==
    {[error |-> e, replied |-> TRUE, offline |-> FALSE] : e \in {"none", "denied", "timeout"}}
    \cup {[error |-> "timeout",    replied |-> FALSE, offline |-> TRUE],   \* zmq.Again
          [error |-> "wire_error", replied |-> FALSE, offline |-> TRUE],   \* ZMQError
          [error |-> "wire_error", replied |-> TRUE,  offline |-> FALSE]}  \* garbled
Rejected == [error |-> "bridge_offline", replied |-> FALSE, offline |-> TRUE]

\* Mutant: only an answer of the bridge is reported.
FinishAbortAnswered(o) ==
    /\ main' = Idle /\ current' = "none" /\ call' = "none"
    /\ status' = IF o.error = "none" \/ o.offline THEN status ELSE "abort_failed"
    /\ UNCHANGED <<mission, repeats>>

\* The abort path of _on_command after its dispatch.
FinishAbort(o) ==
    /\ main' = Idle /\ current' = "none" /\ call' = "none"
    /\ status' = IF o.error = "none" THEN status
                 ELSE IF o.offline THEN "bridge_offline" ELSE "abort_failed"
    /\ UNCHANGED <<mission, repeats>>

LooksOffline(o) == o.error \in {"bridge_offline", "timeout", "wire_error"}

Failed(o) == o.error # "none" /\ ~LooksOffline(o)

\* Mutant: one failure more than the threshold is let through.
StuckOneLater(window, step) ==
    Cardinality({i \in DOMAIN window : window[i] = step}) > StuckThreshold

\* The same tool failed with the same error often enough in the window.
Stuck(window, step) ==
    Cardinality({i \in DOMAIN window : window[i] = step}) >= StuckThreshold

Repeated(step) ==
    [tool |-> step.tool, error |-> step.error,
     times |-> IF repeats.tool = step.tool /\ repeats.error = step.error
               THEN repeats.times + 1 ELSE 1]

\* mission.record, then the tests of the tool loop in their order.  Whatever
\* ends the batch records the rest of it as skipped.
RecordCall(o) ==
    LET step == [tool |-> call, error |-> o.error]
        stuck == Failed(o) /\ Stuck(Recorded(<<step>>), step)
        over == o.error # "none" \/ call \in TerminalTools
    IN  /\ steps' = Recorded(<<step>> \o (IF over THEN Skipped(batch) ELSE <<>>))
        /\ batch' = IF over THEN <<>> ELSE batch
        /\ why' = IF LooksOffline(o) THEN "offline"
                  ELSE IF stuck THEN "stuck"
                  ELSE IF Failed(o) THEN why
                  ELSE IF over THEN "terminal" ELSE why
        /\ main' = IF ~over THEN "batch" ELSE IF Failed(o) /\ ~stuck THEN "check" ELSE "end"
        /\ repeats' = IF Failed(o) THEN Repeated(step) ELSE NoFailure
        /\ status' = IF o.offline THEN "bridge_offline" ELSE status
        /\ call' = "none"
        /\ UNCHANGED <<current, decisions>>

Finish(o) == IF IsAbort(current) THEN FinishAbort(o) ELSE RecordCall(o)

\* The request goes out, unless the offline flag answers in its place.
Send ==
    /\ main = "send"
    /\ late' = IF signalled /\ ~IsAbort(current) THEN late + 1 ELSE late
    /\ IF bridgeOffline
         THEN Finish(Rejected)
         ELSE main' = "reply" /\ UNCHANGED <<current, call, mission, status, repeats>>
    /\ UNCHANGED <<stop, queue, bridgeOffline, pool, signalled, unanswered>>

Reply(o) ==
    /\ main = "reply" /\ o \in Outcomes
    /\ bridgeOffline' = (o.offline \/ (bridgeOffline /\ o.error = "wire_error"))
    /\ unanswered' = ~o.replied
    /\ Finish(o)
    /\ UNCHANGED <<stop, queue, pool, signalled, late>>

\* Mutant: the budget is tested before the bridge.
EndReasonBudgetFirst ==
    CASE stop -> "stopped"
      [] ~stop /\ why \in {"preempted", "terminal"} -> why
      [] ~stop /\ why \notin {"preempted", "terminal"} /\ decisions >= MaxDecisions -> "max_decisions"
      [] OTHER -> IF bridgeOffline THEN "bridge_offline"
                  ELSE IF why \in {"vlm_error", "stuck"} THEN why ELSE "no_tool_calls"

\* The end reason, in the order the code tests for it.
EndReason ==
    CASE stop -> "stopped"
      [] ~stop /\ why \in {"preempted", "terminal"} -> why
      [] ~stop /\ why \notin {"preempted", "terminal"} /\ bridgeOffline -> "bridge_offline"
      [] ~stop /\ why = "vlm_error" /\ ~bridgeOffline -> "vlm_error"
      [] OTHER -> IF decisions >= MaxDecisions THEN "max_decisions"
                  ELSE IF why = "stuck" THEN "stuck" ELSE "no_tool_calls"

EndMission ==
    /\ main = "end"
    /\ main' = Idle /\ current' = "none" /\ call' = "none"
    /\ status' = CASE EndReason = "vlm_error" -> "vlm_error"
                   [] EndReason = "bridge_offline" -> status
                   [] OTHER -> "idle"
    /\ UNCHANGED <<stop, queue, mission, bridgeOffline, pool, history>>

-----------------------------------------------------------------------------
(* The executor: a call takes a worker in the order of submission and keeps *)
(* it until it returns.                                                     *)

Busy == staleRunning + (IF future = "running" THEN 1 ELSE 0)

StartCall ==
    /\ future = "queued" /\ staleQueued = 0 /\ Busy < Workers
    /\ future' = "running"
    /\ UNCHANGED <<stop, queue, main, current, call, mission, bridgeOffline, status,
                   staleRunning, staleQueued, history>>

StartStale ==
    /\ staleQueued > 0 /\ Busy < Workers
    /\ staleQueued' = staleQueued - 1 /\ staleRunning' = staleRunning + 1
    /\ UNCHANGED <<stop, queue, main, current, call, mission, bridgeOffline, status, future, history>>

FinishCall ==
    /\ future = "running" /\ future' = "done"
    /\ UNCHANGED <<stop, queue, main, current, call, mission, bridgeOffline, status,
                   staleRunning, staleQueued, history>>

FinishStale ==
    /\ staleRunning > 0 /\ staleRunning' = staleRunning - 1
    /\ UNCHANGED <<stop, queue, main, current, call, mission, bridgeOffline, status,
                   future, staleQueued, history>>

-----------------------------------------------------------------------------
CommandStep == Drain \/ PutAbort \/ SignalAbort \/ CommandThreadEnds

\* The main thread away from the REQ socket.
MainThinks ==
    \/ TakeCommand \/ Start \/ LoopEnds \/ Ask \/ Abandon \/ VlmError
    \/ \E b \in Batches : Decide(b)
    \/ NextTool \/ PreemptBatch \/ BatchDone \/ EndMission \/ MainEnds

MainStep == MainThinks \/ Send \/ (\E o \in Outcomes : Reply(o)) \/ Close

ExecutorStep == StartCall \/ StartStale \/ FinishCall \/ FinishStale

Next ==
    \/ \E c \in Commands : ReceivePlain(c)
    \/ ReceiveAbort \/ CommandStep \/ MainStep \/ Signal \/ Exited
    \/ ExecutorStep

Spec == Init /\ [][Next]_vars

\* The two threads keep running and an idle worker takes the next call.  The
\* REQ socket has timeouts, so a call to the bridge ends; a VLM call has none
\* and may hang for ever, so finishing one is not fair.
FairSpec ==
    /\ Spec
    /\ WF_vars(CommandStep) /\ WF_vars(MainStep)
    /\ WF_vars(StartCall) /\ WF_vars(StartStale)

-----------------------------------------------------------------------------
(* Properties. *)

InMission == main \in {"check", "wait", "batch", "send", "reply", "end"} /\ ~IsAbort(current)

\* From the moment an abort is signalled until the main thread takes it, or a
\* second abort drains it, at most one more tool call of the running mission
\* goes out: the one already past its preempt test (main.py:429).
LateCalls == late <= 1

\* A mission is only ever preempted by an abort that is still to be served:
\* clearing the event at the start of a command (main.py:331) neither leaves an
\* old abort's signal behind to kill the next mission nor loses an abort, whose
\* put and set are two steps (main.py:246, 250).
NoSpuriousPreempt ==
    preempt /\ InMission => Waiting("abort") \/ commandThread = "put"

\* When the orchestrator has gone idle after a call that did not reach the
\* bridge, the operator is shown bridge_offline, whatever else ended the
\* mission with it (main.py:477, 493-498).
OfflineShown == main = "idle" /\ bridgeOffline => status = "bridge_offline"

\* A mission in which one tool keeps failing with one error is not asked for
\* more ("End the mission once the VLM is stuck on a loop it can't escape on its
\* own", main.py:448-449).
StuckStops ==
    repeats.times >= StuckThreshold => main \in {"end", "idle", "start", "ended", "closed"}

\* A flagged abort is sent to the bridge once the operator stops repeating it,
\* also while a VLM call hangs (main.py:247-250, 392-399).
AbortSent ==
    <>[](commandThread = "poll")
        => (Waiting("abort") ~> (main = "send" /\ call = "abort"))

\* A signal ends the service whatever it is doing: a VLM call that hangs is left
\* behind, a dispatch has its timeouts, a plan is cut short (main.py:378, 393,
\* 429, "Don't wait for in-flight VLM calls", main.py:205).
StopCloses == stop ~> (main = "closed" /\ commandThread = "ended")
=============================================================================
