# Lexaire in TLA+

Lexaire flies a small PX4 drone by voice. A speech service turns an utterance
into a command, an orchestrator asks a vision-language model (VLM) what to do
about it and sends tool calls to a flight bridge, and the bridge checks each call
against a safety envelope and commands the autopilot through MAVSDK. A publisher
on the drone's Raspberry Pi streams color and depth images; a perception service
turns them into scenes for the VLM. A terminal program (TUI) on the ground
station deploys all that and shows its state.

For work without the drone a replay harness records what the publisher sends and
plays it back.

The modules here model the parts of that in which order, failure, concurrency or
arithmetic at an edge matter. TLC checks them on small instances, TLAPS proves the theorems listed
below for every value of the constants.

## The system

| Component | State it keeps | Operations | Hard because |
|---|---|---|---|
| Safety gate (`include/lexaire/safety.hpp`, `src/flight_bridge/handlers.cpp`) | none; reads the two latches | `check_tool`, then the handler's own argument checks | the gate and the handlers read a missing argument differently |
| Flight bridge (`src/flight_bridge/main.cpp`) | latches `aborted` and `armed_with_voice`; the REP socket; `action_fired` and the loss timer | REP loop, armed callback, heartbeat watchdog, telemetry broadcast | three threads on two latches; callbacks arrive late; calls to MAVSDK block; replies fail; the process restarts |
| Orchestrator (`python/services/orchestrator/main.py`, `tools.py`) | command queue, preempt event, mission, offline flag, status, executor, REQ socket; scene, telemetry history and image age | command thread, mission loop, dispatch, telemetry/scene/frame threads, shutdown | an abort must overtake a mission that may be waiting for a VLM, or for the bridge; a call given up may still be carried out |
| VLM backend (`vlm_gemini.py`) | none | `decide`, the prompt | no timeout; three sources of different age in one prompt |
| Sensor subscriber (`python/lexaire/subscriber.py`) | two bounded buffers, bounded output queue | two stream threads, a matcher thread, `frames()` | lossy streams meet in any order; the publisher restarts; readers stall |
| Perception (`python/services/perception/main.py`) | latest frameset and its age | drain, detect, publish, `--once`, end | drops frames on purpose; must not go back in time; its end waits for other threads |
| TUI (`src/main.cpp`) | service states, views | startup checks, deploys, stack restart, periodic query | callbacks of overlapping jobs write one state |
| Publisher deployment (`pi-setup/deploy-publisher.sh`, `check-publisher.sh`) | checkout, image and container on the Pi | each command of the script | any command can fail, the SSH session can drop, the next run decides by what is left |
| Services panel (`src/services_panel.cpp`) | last message of each service | receive, summarise | staleness |
| STT (`python/services/stt`) | utterances to read, PUSH socket, `stop_event` | read, transcribe, flag aborts, push, stop | blocking send; a socket closed under the reader; one-shot senders |
| Replay (`python/services/replay`) | the file, buffered lines, SUB sockets; position and start of a pass | record, play at a pace | killed between flushes; lines from an editor; stop in a long wait |
| Detectors (`perception/detectors.py`) | none | depth and ray of a box, class filter | boxes over the edges; misspelled classes |
| Messages, configuration, transport | none | pure | - |
| Relay, access point, preflight, compose files | configuration | one-shot | - |

How they interact:

    STT --PUSH/PULL--> Orchestrator --REQ/REP (3 s timeouts)--> Flight bridge --MAVLink--> PX4
                           |  ^  ^                                   |
                    decide v  |  +--PUB/SUB telemetry, scene---------+
                          VLM +--PUB/SUB scene-- Perception <--frames() -- Sensor subscriber
                                                                                 ^
    TUI --ssh--> Pi: deploy-publisher.sh --> publisher --PUB color, PUB depth----+

What makes each part correct:

* Bridge: an abort in the air stops the mission until the aircraft is disarmed;
  nothing outside the envelope reaches the FC; no takeoff without a spoken arm;
  a link loss is answered; the loop never wedges; a disarm that is reported clears
  the latches.
* Orchestrator: an abort reaches the bridge whatever the VLM does; hardly
  anything of the old mission follows it; an abort ends no mission but the one it
  was meant for; the operator sees an offline bridge; a mission that keeps failing
  ends.
* Voice to flight: what is said gets through while somebody takes it; calls are
  carried out one at a time and at most once, and no late answer is taken for
  another's; no arm is confirmed that nobody said; an abort is carried out or the
  operator is told; a signal ends the services.
* What the VLM sees: telemetry, trend and image of one prompt fit together; a depth
  is measured inside the box; a class filter is kept; the tools offered are the
  tools the bridge takes.
* Sensor path: buffers stay bounded; pairs are pairs; scenes do not go back in
  time; a stalled reader does not stop the threads; a signal ends the service.
* Replay: what is played is what was recorded, in order and never early, whatever a
  crash left of the file and wherever an editor put a comment or a broken line into it.
  A line that is JSON but no record is the exception (`Seen while modelling`).
* Deployment: one restart of the stack and at most two deploys at a time (one is what
  the menu means to allow, the startup check may add another); no container loses the checkout it runs from;
  a successful deploy runs what the checkout says.

## Modules

| Module | Models | How |
|---|---|---|
| `SafetyGate` | `check_tool`, the handlers' argument checks | predicates on a tool call, one conjunct per test; `InEnvelope` states the promise on the setpoint sent |
| `FlightBridge` | `flight_bridge/main.cpp`, `handlers.cpp` | extends `SafetyGate`; threads as below |
| `FlightAuthority` | the bridge's promise, abstractly | sessions opened by a spoken arm, stops begun by an abort, calls served one at a time; `FlightBridge` is shown to implement it |
| `Orchestrator` | `orchestrator/main.py` | command thread, main thread, executor, shutdown |
| `Stt` | `stt/main.py`, the outcomes of `whisper_backend.py` | the thread that reads and sends, the one that closes |
| `VoiceToFlight` | STT, orchestrator and the REP loop over PUSH/PULL and REQ/REP | extends `Orchestrator` and `Stt`, adds the sockets |
| `CallChannel` | what a call over REQ/REP may rely on, abstractly | numbers of calls; `VoiceToFlight` is shown to implement it |
| `ToolSchemas` | `orchestrator/tools.py` | extends `SafetyGate`; schemas and handlers take the same calls (a theorem of `FlightBridgeProofs`, no run) |
| `MissionContext` | the three source threads, `_build_context`, the trend in `vlm_gemini.py` | extends `Detectors`; what a prompt holds is a function of the state |
| `Detectors` | `perception/detectors.py` | pure: depth and ray of a box, class filter by the ids of names |
| `SensorSubscriber` | `subscriber.py`, `perception/main.py` | two stream threads, matcher, reader, `--once`, the end of the process |
| `Replay` | `replay/main.py`, `replay/store.py` | recorder, file, player, one after the other |
| `PublisherDeploy` | the two scripts on the Pi | every command of a run is an action, `Fail` at each; the SSH session of a run may `Drop` |
| `TuiDeploy` | the asynchronous jobs of `src/main.cpp` | extends `PublisherDeploy`; every callback is one action |
| `Enumeration` | Python's `sorted()` and a list comprehension with an `if` | without recursion, so that they can be reasoned about; used by `SensorSubscriber`, `Replay` and `MissionContext`; `EnumerationAgrees` in `MCReplay` compares them with the operators of the library on small sets |
| `MCFlightBridge`, `MCOrchestrator`, `MCVoiceToFlight`, `MCMissionContext`, `MCReplay`, `MCTuiDeploy` | instances for TLC | sets of calls, batches, commands, scripts, images, boxes, streams and runs |
| `FlightBridgeProofs`, `OrchestratorProofs`, `VoiceToFlightProofs`, `MissionContextProofs`, `ReplayProofs`, `SensorSubscriberProofs`, `TuiDeployProofs` | theorems | |
| `EnumerationProofs` | lemmas on `Enumeration` | shared by the proofs of the modules that use it |

Operators headed "Mutant:" are plausible slips in the code, each defined before
the definition it would replace. Nothing uses them; they are there so that each
property can be shown to notice the slip.

### FlightBridge

State and code: `aborted` and `voiceArmed` are the atomics of `SafetyState`;
`loop`, `call` and `reply` are where the REP loop is, the request it serves and
what it will answer; `watchdog` is `last_connected` (in polls of 200 ms),
`action_fired` and whether its MAVSDK call is out; `heartbeats` are the armed
callbacks MAVSDK still has to deliver, `reported` is the last of them, `callback` is the lambda between its two
stores, `seenAirborne` is the cached `in_air()`. `fcArmed`, `fcAirborne`,
`fcMode` and `link` are the FC and the link, external. `safeStop` and `spoken`
are history variables.

* A request is `Admit` or `Refuse` (gate and handler checks, and the latch an
  abort or kill sets before it commands the FC), `FcAnswers` (the blocking call),
  `Commit` (the latches of an `arm` or a `disarm`), then `SendReply`, or
  `SendFails` and `Rebuild`/`RebuildFails`. Gate and handler start are one action
  because no shared variable is written between them; the callback can run
  between any two of the others.
* A command without a link is never acknowledged and may or may not arrive. With
  a link it is obeyed or refused; it may be obeyed and the acknowledgement lost.
* `ArmedCallback` and `ArmedCallbackEnds` are the two stores of the lambda.
  `ReceiveHeartbeat` may queue a report at any time while there is a link; only the one
  that reports a disarm (`FallingEdge`) is relied on to come.
* `Crash`, `Boot` and `BootFails` follow `restart: on-failure:5`; a new process
  has clear latches, so the history variables are those of the process.
* `LiftOff` waits until no callback with an old "disarmed" is queued: lift-off takes
  seconds, a queued callback milliseconds. Without it the model would refute
  more than the code does.
* The arguments of `get_param` and `set_param` are checked as the handlers check them
  (`NamesParam`, `GivesValue`); what they read or write in the FC, and what `get_health`
  reads, no property mentions.

The refinement mapping of `FlightAuthority` takes `fcArmed`, `spoken` and
`safeStop` as they are and shows a call as served from the gate to the commit.
The late callback, the watchdog, the link, the socket and the boot become
stutters, a crash the abstract `Restart`.

### Orchestrator

`commandThread` is the command thread between its statements (drain the queue,
put the abort, set the event: three steps, in that order). `main` is the main
thread; `preempt` and `bridgeOffline` are the two events, `steps` is the last
`_STUCK_FAILURE_WINDOW` entries of `step_history`; `future`, `staleRunning` and
`staleQueued` are the executor. `RecordCall` keeps the tests after a dispatch in
their order: offline, failed (stuck or not), terminal.

* `Outcomes` lists each way a dispatch can end: answered without error, with an
  error of the bridge (MAVSDK's "timeout" among them), timed out, failed in the
  socket, or with a garbled reply. The code treats the last one and a bridge that
  answers "timeout" as offline in the tool loop but does not raise the flag, so
  such a mission ends with `no_tool_calls`; the model keeps this.
* The offline gate in the dispatch is kept although the flag can only be seen by
  the next call of the same mission, which it has already ended.
* A second abort drains the first out of the queue: `signalled` restarts with it.
* `Signal` may come anywhere; the main thread and the command thread stop on their
  own tests of `stop_event`, each where the code has it, and `Close` closes the
  sockets. A VLM call that hangs is left behind.

### Stt, VoiceToFlight and CallChannel

An utterance is one of five kinds, which is what the code tells apart: blank, a
comment, with the word arm, with the word abort, or anything else. `sender` is the thread
that reads and sends: the main thread in the modes once, file and audio, the reader
thread in interactive mode, where the main thread waits for `stop_event` and then
closes the socket under the reader (`SttClose`, `SendFails`).

The channel to the bridge is `held` (the request in the REQ socket), `inbox` (the requests
in the bridge's REP socket, a set), `serving` and `answer`. Requests are numbered by a counter the code
does not have; `closedUpTo` is the last number whose socket has been closed
(`ResetReqSocket`): an answer to it has nowhere to go, but the request may be served
late all the same. `GetAnswer` is a `recv` that returned, `CallFails` one that timed out
or a socket that failed. Every way the bridge's own threads can answer is in
`Outcomes` of `Orchestrator`. The bridge may end and come back at any time; what its
socket held is then lost.

One assumption on time is made and stated in the module: a socket hands over to a peer that
is up well within the timeouts. None is made on the order in which the bridge takes requests.
Each connection holds one request and a REP socket serves its connections in turn, so
`ServeNext` takes any request of `inbox`: one given up long ago may be served after a newer one.

`Calls` is `CallChannel` with `issued`, `begun`, `busy`, `waiting` and `silent` mapped to `sent`,
`carriedOut`, the numbers in `serving`, `main = "reply"` and `unanswered`. It promises of a call
what the sockets can keep: it is carried out at most once and by itself, and its answer is its own.

### Detectors and MissionContext

A depth image is a function of pixels, a box has its edges in halves of a pixel, so that
truncation (`Whole`) and clamping (`Covered`) have something to do. `MedianTwice` is
twice the median, which keeps it whole. A scene is one detection, made of an image, a
header and a box; a source that has died is one whose action is not taken. Metric scale
and camera matrix only enter by being there or not.

`Names` is the model's table of labels. A filter is turned into class ids (`Wanted`), of which
the network returns only those (`Asked`); an empty set of ids is as false as `None` and asks for
every class. A filter of which nothing is left is refused before the detector exists
(`Refused`), which is what keeps it from turning into no filter.

### Replay

A line of the file is a record, or one of the kinds `read_all` meets: a comment, a torn
line, or an "alien", which is JSON but not an object with the four fields.
`ReadOne` writes a line, `Flush` is the step after every `FlushEvery`-th of them, and `Crash` may
come between the two: it keeps what was flushed and any prefix of the rest, perhaps with a torn
line. An `OSError` while a line is written is one of the crashes; a file that cannot be opened
ends the process before it has done anything. The
clock moves while the process reads it (`Tick`); `--speed` is bounded from below as in
`_run_play`.

### SensorSubscriber

A frame is its number and the run of the publisher that took it; the code sees
only the number. `Store` is `buf[seq] = f` on a dict (an existing key keeps its
place) with `_trim_locked`; `Match` takes every common number out of both buffers
in ascending order, any of the pairs may have a malformed header. `Put`,
`PutTimesOut` and `DropOldest` are the three steps of handing over a frameset:
if the reader empties the queue between the second and the third, `get_nowait`
raises and it is the new frameset that is lost.

`perception` is the loop of `perception/main.py` and then its `finally`: `LeaveLoop` is
`sub.stop()`, whose joins have a timeout each, and `Exit` is the return of `ctx.term()`,
which has none and waits for the two stream threads to close their sockets. A stream
thread may store one more frame after `_stop` is set, the matcher may match once more.

### PublisherDeploy and TuiDeploy

A run goes through `url`, then `down`, `remove`, `clone` for another repository,
or `fetch`, `compare` and `reset`, and ends in `build` or `up`. A step whose command
needs the checkout is blocked when it is gone; `Fail` then ends the run. Whether
compose takes an image of the former repository for this one's depends on service
names the repository does not fix: both outcomes are allowed. An interrupted
`rm -rf` or `git clone` counts as not begun. `session` is the caller's `ssh`: when it drops
(`Drop`) the caller is told of a failure, while the run, which has no terminal, goes on, or ends
where its closed output makes a command fail; its place is free again once it has ended (`Gone`).

In `TuiDeploy` `configured` says whether a publisher's repository is configured, without which
neither the startup check nor menu entry 6 starts anything. The views that Enter closes are
taken as one. The relay's check and deploy repeat the publisher's and are not modelled twice.

## Runs

Passing runs:

| Run | Checks | Bounds, and why they are enough |
|---|---|---|
| `bridge_safety` | `TypeOK`, `SafeStop`, `EnvelopeHeld`, `SpokenTakeoff`, `KeepsAuthority` | every tool of the dispatch table, one malformed and one unknown call; arguments missing, mistyped, on a limit and one beyond; 2 queued callbacks so that an old one waits behind a new one; 1 restart; threshold 1 poll: only "reached" and "not reached" differ; arms from outside; watchdog action `hold` |
| `bridge_liveness` | `KeepsServing`, `LatchesClearAfterFlight`, `WatchdogActs`, `AbortLands` | one session: arm, takeoff, goto, abort, disarm; 1 queued callback; action `return_to_launch` |
| `orchestrator` | `TypeOK`, `LateCalls`, `NoSpuriousPreempt`, `OfflineShown`, `StuckStops`, `AbortSent`, `StopCloses` | queue of 2 (full with one command behind another), 2 workers as in the code, 2 decisions, batches of 0, 1 and 2 calls, all four kinds of command |
| `voice_to_flight` | `VoiceTypeOK`, `ConfirmedArmWasSaid`, `AbortedIsTrue`, `KeepsCalls`, `SttEnds`, `AbortReachesBridge`, `AbortActsOrTold` | every mode of STT; five scripts of one to three utterances with an abort alone, last, after a mission with an arm and after one without; queues of 1 (PUSH, PULL) and 2 (commands, bridge), so that each is full at some time and a request given up waits beside a new one, served before or after it; 1 worker, 1 decision, a plan of arm and takeoff: a mission with two calls is the shortest with a late call before another |
| `scene_context` | `TypeOK`, `PromptConsistent`, `DepthIsMeasured`, `FilterKept` | images of 2 by 2 with one, three and four pixels measured: odd and even medians; seven boxes over each edge, outside, between pixels and empty; three headers; four class filters with and without misspelled names; 10 samples in a span of 1, so that the trend takes every second one |
| `replay` | `TypeOK`, `PlaysTheRecording`, `NeverEarly`, `CrashLosesLittle`, `StopEnds` | two channels, each alone or together in the config of either program; three streams of up to 4 messages with a short and a malformed one; queue of 1 so that it overflows; a flush every 2 lines, so that a crash can come before, between and after a line and its flush; speeds 0 (bounded from below) and twice; a clock of 3 |
| `sensor_path` | `TypeOK`, `ScenesAdvance`, `MatcherServes`, `PerceptionEnds` | buffers of 2 and 3 captures so that trimming happens; queue of 1 so that it fills; 2 runs of the publisher, the second a capture shorter; 1 frame in a socket; with and without `--once` |
| `deploy` | `TypeOK`, `NoOrphan`, `StackGuarded`, `AtMostTwoDeploys` | 3 runs, so that a third deploy and a run that goes on without its caller have room beside two others (the runs are alike: symmetry); 2 repositories, 2 versions, 1 query, which is enough to answer during a restart |

What the properties say:

* `SafeStop`: after an airborne abort or kill has latched, the latch stays and
  only abort, kill, land and disarm go to the FC until it disarms, although a
  callback on another thread clears the latch. It holds because an armed aircraft
  in the air has no "disarmed" report left in MAVSDK that could clear the latch. It says nothing of an abort whose cached
  `in_air()` was stale and false: that one does not latch.
* `EnvelopeHeld`: the gate treats an absent coordinate as 0; the handlers reject
  it. Neither check alone keeps the setpoint inside.
* `SpokenTakeoff`: a refused arm does not open the gate.
* `KeepsAuthority`: the bridge implements `FlightAuthority`. Beyond `SafeStop` and
  `SpokenTakeoff` it says that an unspoken arm is served only in an open session,
  that only an acknowledged spoken arm opens one, that the motors go on only for a
  call being served (or from outside) and that nothing but their going off ends a
  stop. A session ends with the `disarm` tool, not with every disarm of the FC (see the
  first item of "Seen while modelling").
* `LatchesClearAfterFlight`: a disarm that the bridge is told of clears both latches, with old
  reports, commits and calls of clients around it, unless the FC arms again, the link drops or
  the process ends first. It starts from the falling edge and says nothing of a latch set on the
  ground, which has none to clear it (`Seen while modelling`).
* `KeepsServing`, `WatchdogActs`, `AbortLands`: what must
  eventually happen. `AbortLands` is for the configured action
  `return_to_launch`: with `hold` the watchdog, which does not look at
  `aborted`, stops the descent of an abort when the link is lost, and the
  aircraft hovers until somebody acts. With `hold` the property fails.
* `LateCalls`: the preempt event is tested before every dispatch, so one call at most
  slips out after an abort. `NoSpuriousPreempt`: putting and signalling are two
  steps and so are taking and clearing; no order of them loses an abort or ends a
  mission for an old one.
* `OfflineShown`: the order of the tests in `end_reason` matters; an offline bridge is
  shown also when the mission ran out of decisions in the same step.
* `AbortSent`: once the operator stops repeating it, a flagged abort goes out,
  also while a VLM call hangs for ever. An abort STT did not flag is recognised by
  the main thread only and has to wait for whatever that is doing.
* `StopCloses`: a signal at any point ends both threads, although the main thread may be
  waiting for a VLM that never answers.
* `KeepsCalls`: the composition implements `CallChannel`. Nothing compares the
  `request_id` of an answer with that of the request; that a call never takes the late answer of
  one before it rests on the socket being closed after every failed call. Nothing keeps a call
  that was given up from being carried out later, also after the next ones, and the property
  does not say so.
* `ConfirmedArmWasSaid`: `voice_confirmed` is overwritten from the command being served,
  whatever the VLM put there. It says that somebody has said "arm", not that the command being
  served is that one: an arm confirmed for an earlier command would not be noticed.
* `AbortedIsTrue`: the status says "aborted" before the abort is sent. Once its dispatch is
  over it stays only over an abort that the bridge has carried out and is done with: neither the
  late answer of another call nor a bridge that restarted passes for it. Like `KeepsCalls` it
  rests on the new socket after a failed call. A call given up before the abort may still be
  carried out after it; in the air `SafeStop` and `AbortLands` of the bridge are what keeps it
  from undoing the abort.
* `SttEnds`: a signal ends the interactive mode though the reader sits in a full socket. The
  other modes are in "Seen while modelling".
* `AbortReachesBridge`: from the microphone to the bridge, with a bridge that stays up and
  services nobody stops. `AbortActsOrTold`: with a bridge that comes and goes, an abort
  that is being sent is carried out or the status says that it was not.
* `PromptConsistent`: the telemetry shown as current is the last sample of the history the
  trend is taken from; the trend goes forward, has fewer than ten entries, spans no more
  than the configured seconds and misses less than one interval at its end.
* `DepthIsMeasured`: stated without truncation or clamping, as the median of the measured
  pixels within the box. `FilterKept`: every label shown was asked for. A filter of
  misspelled names only would come out empty, and an empty one is no filter; the detector
  refuses to start with it.
* `PlaysTheRecording`: record for record and in order, less the channels that are not
  enabled. A pass under way has played exactly what was recorded up to where it is; one that is
  over and was not stopped has played all that can be read of the file, so a comment or a torn
  line costs itself alone. A file with an alien line is excepted and played not at all (below).
  `NeverEarly`: also in the second pass of `--loop`. `CrashLosesLittle`: at most the lines of one
  flush interval, all of them when the kill comes between the last of them and its flush.
  `StopEnds`: also in a long wait for the next record.
* `PerceptionEnds`: what the end of the service waits for comes back to its test of
  `_stop`, with a silent publisher and with a full queue that nobody reads any more.
* `ScenesAdvance`: no later scene is older, whatever was lost, trimmed or dropped.
* `NoOrphan`: while deploys do not overlap, the checkout is not removed under a
  running container. `StackGuarded`: the periodic query does not unlock the menu
  entry during a restart. `AtMostTwoDeploys`: the callback of the startup check writes over the
  state of a deploy from the menu and adds one of its own; each of the two that ends unlocks the
  menu for one in its place, and never for a third. `TypeOK` also says that a run by itself works
  on the configured repository from the URL check on (`RightCheckout`).

Runs that show a disagreement between the code and what its documents say (each
has an entry under `findings`):

| Run | Property | What happens |
|---|---|---|
| `bridge_loss_in_flight` | `AirborneLossIsAnswered` | a late "disarmed" from before the arm clears the latch of the new session; the watchdog stands down when the link drops |
| `orchestrator_long_plan` | `StuckStops` | the skipped entries of a plan of four push the earlier failure out of the window of four; the mission is not recognised as stuck |
| `sensor_restart` | `Synchronized` | a frame left from the publisher's previous run pairs with a new one of the same number |
| `deploy_failed_build` | `DeployedMatches` | after a failed build the next deploy finds the checkout up to date and starts the old image |

`StuckStops` passes in `orchestrator` (plans of at most two calls) and fails in
`orchestrator_long_plan` (plans of four): the first shows the mechanism works
where the window holds two failures. Where the line is, `StuckIsSeen` proves: with a
threshold of two and a window of four, plans of at most three calls are always
recognised.

### Seen while modelling

Not given a run, either because the documents leave it open or because it can be read
off one line:

* Bridge. Between the FC's disarm and the callback that reports it the gate is still
  open: an arm without `voice_confirmed` passes (`main.cpp:127` and `296`;
  `docs/phase-2.md:81` wants an arm without the flag rejected). A failed rebuild of the REP
  socket ends the process with status 0, which `on-failure:5` does not restart. A bridge that
  restarts in flight has no latch until the next spoken arm. A latch set on the ground may
  stay: `handlers.cpp:179-180` takes it that nothing but a falling edge of armed clears it and
  latches airborne aborts only, but `in_air()` is a cached value and may still be true after the
  disarm. A further report of "disarmed" or a `disarm` call clears such a latch, if one comes.
* Orchestrator. Each command clears the offline flag (`main.py:320-324` says why), so that
  "reject any further tool calls until reconnect" (`docs/phase-2.md:66`) lasts until the next
  command. Scenes and
  telemetry are shown to the VLM whatever their age; only the image is aged
  (`main.py:126-129`). The executor's threads are joined by the interpreter at its exit, so
  a VLM call that never returns keeps the process although `main.py:205` does not wait for it.
  Two VLM calls that hang take both workers and block the next decision for ever
  (`main.py:180-182`); an abort is still served.
  A request that timed out may be carried out after a newer one, since REP sockets serve their
  connections in turn: a call older than an abort may come to the gate after it, where only the
  latch of an airborne abort stops it.
  The trend, meant to be about five samples, can have nine, and can end up to one interval
  before the newest one.
* TUI. The startup check may start a deploy while one from the menu is under way
  (`main.cpp:671-673`; the menu's own test is at `468-470`); the two then race on one checkout,
  and while both run the end of either unlocks the menu. When the SSH session of a deploy drops,
  its script goes on while the TUI shows `Unknown` and would start another. It reports `Up` for a
  publisher of the former repository, so a changed `publisher_repo` is deployed only from
  the menu. A finished preflight or deploy writes its text into whichever view is shown by
  then (`main.cpp:405`).
* STT. In the modes once and file the main thread itself blocks in `send`: with nobody to
  take commands a signal does not end them. `SttEnds` takes it that closing a ZMQ socket under a
  thread that is blocked in its `send` fails that `send` (`SttClose`); ZMQ does not promise it.
* Perception. With `--once` only a publisher that never sends is given up on: a
  detector that raises on every frame, or a publisher that falls silent after its first
  one, keeps the process waiting, although the deadline is there so that "a missing publisher
  doesn't hang CI runs" (`perception/main.py:73-74`).
* Replay. A line that is valid JSON but not an object, or whose `ts_ns` is null, raises an
  exception that `read_all` does not expect and ends the playback before its first
  record ("One bad line shouldn't kill the playback session", `store.py:70`). `play` closes its PUB sockets with
  `LINGER` 0, which may drop the last records.

Deadlock is checked in every run. Models of the bridge can always step (the link
toggles); the orchestrator, the sensor path and the TUI always have an
environment step.

## Fairness

* `FlightBridge`: weak fairness of each thread of a live process, of MAVSDK while
  there is a link (it reports a disarm and the landed state; a MAVSDK call has its own timeout
  and returns; that it repeats a report is not assumed), of the restart,
  and of landing and disarming once the FC was told to land. Nothing of clients, the
  link, crashes, or lift-off.
* `Orchestrator`: weak fairness of the command thread past its `recv`, of the main
  thread (the REQ socket has `RCVTIMEO` and `SNDTIMEO` of 3 s, so every dispatch
  ends), and of an idle worker taking the next call. Nothing of the operator and
  nothing of a VLM call's end: it has no timeout.
* `VoiceToFlight`: weak fairness of both services' threads, of delivery to a peer that
  is there and of a bridge that is up, which takes some request or other (`ServeNext`). Strong fairness of `CallFails`: while the bridge
  comes and goes the step is enabled again and again but not always, and the receive
  timeout expires all the same. Nothing of the operator, of signals, of the bridge's restart or of a
  VLM call's end.
* `SensorSubscriber`: weak fairness of the three threads of the subscriber
  (`recv` after a poll with a timeout, `put` with a timeout) and of the end of the
  process; of the perception loop only once a signal has come, since a detector call
  under way then returns. Nothing of the publisher, and otherwise nothing of the reader, whose
  detector may take any time. That draining the queue comes to an end follows from the bound on captures
  in the model, and in the code from a publisher of some tens of frames a second.
* `Replay`: weak fairness of the recorder and of the player, each a loop whose waits have
  timeouts. Nothing of the clock, the publisher, or the person.
* `MissionContext`: none; its properties are safety.
* `TuiDeploy`: none; its properties are safety.

## Theorems

| Theorem | States | From |
|---|---|---|
| `FlightBridgeProofs!TypeCorrect` | `[]TypeOK` | one lemma per thread |
| `FlightBridgeProofs!EnvelopeIsHeld` | `[]EnvelopeHeld`: for every set of calls and every envelope | a lemma about the gate alone: a call that passes `CheckTool` and `HandlerAccepts` is `InEnvelope` |
| `FlightBridgeProofs!SafeStopHolds` | `[]SafeStop`, with any number of callbacks queued | `SafeStopInv` |
| `FlightBridgeProofs!DescentHolds` | `DescentIsKept`: the descent of a stop is changed by the watchdog only, whatever clients send | `SafeStopInv` |
| `FlightBridgeProofs!LatchLastsInFlight` | `SessionLastsInFlight`: in the air no late report takes the latch from a session; only the end of the process or the commit of a disarm does | `TypeOK`, `SafeStopInv` |
| `FlightBridgeProofs!SessionLatchLasts` | `SessionLasts`: on the ground too, from an arm with no disarm behind it (`ArmsClean`) | `CleanInv` |
| `FlightBridgeProofs!TakeoffIsSpoken` | `[]SpokenTakeoff` | `SpokenInv` |
| `FlightBridgeProofs!BridgeKeepsAuthority` | `KeepsAuthority`: `FlightBridge` implements `FlightAuthority` | `TypeOK`, `SafeStopInv`, `SpokenInv`, `ServingInv`; one lemma per thread |
| `OrchestratorProofs!FewLateCalls` | `[]LateCalls`, for every queue, plan and VLM | `AbortInv` |
| `OrchestratorProofs!PreemptIsJustified` | `[]NoSpuriousPreempt` | `AbortInv` |
| `OrchestratorProofs!AbortOvertakes` | `AbortIsNext`: while an abort is signalled no other command is taken, and it stays signalled until it is taken or a newer abort drains the queue | `AbortInv`, `UnsignalledInv` |
| `OrchestratorProofs!AbortIsNear` | `AbortComesUp`: each step of the main thread brings a signalled abort nearer; from any place seven steps at most | `AbortInv`, `AbortPlace`, `AbortRank` |
| `OrchestratorProofs!StopIsBounded` | `StopRunsDown`: after a signal nine steps of the main thread and four of the command thread at most | `StopRank`, `CommandRank` |
| `OrchestratorProofs!TypesHold` | `[]TypeOK`: queue, executor and history stay within their bounds | `TypeInv` |
| `OrchestratorProofs!OfflineIsShown` | `[]OfflineShown` | `OfflineInv` |
| `OrchestratorProofs!StuckIsSeen` | `[]StuckStops`, for every queue and VLM whose plans have at most `L` calls, `(StuckThreshold - 1) * L < StuckWindow` | `TypeInv`, `FailInv` |
| `VoiceToFlightProofs!RunsTheOrchestrator` | `VoiceSpec => Spec`: the composition implements `Orchestrator` | `VoiceInv` |
| `VoiceToFlightProofs!FewLateCallsInFlight` | `[]LateCalls` of the composition | `RunsTheOrchestrator`, `FewLateCalls` |
| `VoiceToFlightProofs!ChannelKeepsCalls` | `KeepsCalls`: the sockets implement `CallChannel`, with any number of calls and restarts and in whatever order the bridge takes them | `ChannelInv`; one lemma per side of the channel |
| `VoiceToFlightProofs!NoArmUnsaid` | `[]ConfirmedArmWasSaid`, for every plan of the VLM | `ConfirmedInv`, `VoiceInv` |
| `VoiceToFlightProofs!AbortedIsNoPromise` | `[]AbortedIsTrue`: the abort is carried out and done with, for every plan, any number of calls and restarts of the bridge | `AbortedInv`, `ChannelInv` |
| `VoiceToFlightProofs!AbortsInFlight` | `AbortIsNext`, `AbortComesUp`, `[]NoSpuriousPreempt` of the composition | `RunsTheOrchestrator` and the theorems above |
| `VoiceToFlightProofs!EndInFlight` | `StopRunsDown`, `[]OfflineShown` of the composition | the same |
| `VoiceToFlightProofs!VoiceTypes` | `[]VoiceTypeOK`: every queue and socket within its bound | `VoiceInv`, `ChannelInv`, `BoundsInv` |
| `FlightBridgeProofs!SchemasMatch` | the schemas offered to the VLM and the bridge's handlers take the same calls | a case for each tool with arguments |
| `MissionContextProofs!DepthIsOfTheBox` | `[]DepthIsMeasured`, for every image and box | `CoveredIsReached`, `RankedIsThere`, `MedianSplits`, `SceneInv` |
| `MissionContextProofs!FilterIsKept` | `[]FilterKept`, for every table of names and every filter | `SceneInv`: a filter that was accepted has an id left |
| `MissionContextProofs!ContextTypes` | `[]TypeOK`, with the span of the history bounded | `HistoryInv`, `SceneInv` |
| `MissionContextProofs!PromptIsOneStory` | `[]PromptConsistent`, for every span, interval and stream of samples | `HistoryInv`; `PrunedIsEnd`, `SampleContinues`, `TrendCounts`, `TrendRises` |
| `ReplayProofs!NothingIsEarly` | `[]NeverEarly`, for every recording, speed and number of passes | `TimingInv` |
| `ReplayProofs!ReplayTypes` | `[]TypeOK` | `TypeInv` of that module |
| `ReplayProofs!CrashLosesFewRecords` | `[]CrashLosesLittle`, wherever the recorder is killed, between a line and its flush too | `FileInv` |
| `ReplayProofs!PlaybackIsTheRecording` | `[]PlaysTheRecording`, exactly, for every stream, choice of channels and file without an alien line | `FileInv`, `PlayInv` |
| `SensorSubscriberProofs!SensorTypes` | `[]TypeOK`: buffers, queue and sockets within their bounds | `SensorInv` |
| `SensorSubscriberProofs!ScenesDoAdvance` | `ScenesAdvance`, for any sizes and any number of restarts of the publisher; of scenes whose streams are from the same run of it | `SensorInv` |
| `SensorSubscriberProofs!ReadsDoAdvance` | `ReadsAdvance`: what the service reads gets newer, and all that is still to come is newer than that, although both threads take from the queue | `SensorInv` |
| `SensorSubscriberProofs!OneRunIsSynchronized` | `[]Synchronized` of a publisher that is not restarted (`MaxRuns = 1`) | `SensorInv` |
| `TuiDeployProofs!TypesHold` | `[]TypeOK`, wherever runs fail or lose their session | `PiTypes`, `TuiTypes`, `RightCheckoutHolds`, `OrphanInv` |
| `TuiDeployProofs!StackIsGuarded` | `[]StackGuarded`, with any number of queries | `StackInv` |
| `TuiDeployProofs!TwoDeploysAtMost` | `[]AtMostTwoDeploys`, for any number of runs and any order in which they end | `DeployingInv` |
| `TuiDeployProofs!NeverOrphaned` | `[]NoOrphan`, wherever runs fail | `OrphanInv` |
| `TuiDeployProofs!OnlyABuildMismatches` | `[]DeployedMatches` as long as no build fails (`BuildsSucceed`), wherever the other commands do | `TypeOK`, `OrphanInv`, `ImageInv` |

Assumptions: only the named ones of each module (`EnvelopeAssumption`,
`CallsAssumption`, `BridgeAssumption`, `OrchestratorAssumption`, `SttAssumption`,
`ChannelAssumption`, `DetectorAssumption`, `ContextAssumption`, `ReplayAssumption`,
`SubscriberAssumption`, `DeployAssumption`, `TuiAssumption`), which say what values a
configuration may have; `ReplayAssumption` has each channel of the configuration once.
Four theorems say more, each because without it the property is false, as a run shows:
`StuckIsSeen` bounds the plans (`orchestrator_long_plan`), `OneRunIsSynchronized` excludes
restarts (`sensor_restart`), `OnlyABuildMismatches` a run of the script that ends at
`docker compose up -d --build` (`deploy_failed_build`), `SessionLatchLasts` an arm while a
disarm is still on its way through MAVSDK's queue or the bridge's commit
(`bridge_loss_in_flight`). They say that these are the only
ways to those violations.

Why the invariants are what they are:

* `SafeStopInv`. `SafeStop` alone is not inductive: a queued "disarmed" could clear
  the latch in the next step. The invariant adds what makes this impossible:
  while a safe stop is active the FC is armed and no "disarmed" is queued or being
  delivered; an airborne, armed FC has none queued either (lift-off waited for
  them, and the FC does not disarm in the air); and a disarm about to be committed,
  which clears the latch too, has already ended the stop.
* `CleanInv`: while the motors are on no "disarmed" is on its way through the bridge. That
  an arm finds none is the assumption of `SessionLatchLasts`; that none is added, and that
  nothing but such a report clears the latch of a live process, is its proof.
  `LatchLastsInFlight` needs no assumption, because `SafeStopInv` keeps an
  airborne aircraft free of old reports.
* `SpokenInv` ties `voiceArmed` to `spoken` at every point of the loop, so that a
  commit that races the callback can clear a latch but not make one.
* `ServingInv`: a call between the gate and the commit is one of the dispatch table, so
  that a commit always ends a call of the abstract bridge.
* `AbortInv` is three parts. `QueueInv`: between the drain and the signal the
  queue holds the abort alone, or is empty because the main thread has it.
  `PreemptInv`: the event is set only with an abort at the head of the queue, about
  to be put, or being served. `LateInv`: with a signalled abort the mission is
  past its test only with the event set, and has sent nothing yet while it is still
  in `send`.
* `UnsignalledInv`: between the drain and the signal no abort is signalled, so that the
  signal cannot hide one that already was. `AbortPlace`: an abort has no mission, it is only
  ever started, sent and answered.
* `StopRank`, `CommandRank` and `AbortRank` count the steps a thread still has. Each of its steps
  lowers them and no step of anybody else raises them (for `AbortRank`: while the abort is
  signalled), so that fair threads get there. What fairness adds is left to TLC.
* `TypeInv` of `OrchestratorProofs` adds to the types that a call under way is a tool, that the
  VLM is asked with a decision to spare, that a call waits for a worker with room among the
  abandoned ones, and that workers are not overbooked; without them a step count or the executor
  could leave its bound.
* `OfflineInv` says where the flag may be up: with the status showing it, at the end of
  the mission that raised it, and before the next command has been looked at.
* `FailInv` counts in `steps`. Between two failures in a row the history gains at most the
  rest of one plan, so the last k failures in a row stand in its last k * L entries; while
  (threshold - 1) * L is below the window, the failure that reaches the threshold finds all
  the others still there. `OccursOnceMore` and `RecordedOnceMore` count across an append and a
  cut.
* `VoiceInv` types everything on the way of a command with the sets `SaidCommands` and
  `SaidRequests`, which hold arm only when somebody has said it; what was a sequence over
  them stays one because they only grow.
* `ChannelInv`: every request in the bridge's socket is one that has not been carried out, and
  no two have a number; one in the REQ socket is the last one made and has not reached the bridge;
  an answer that has arrived is that of the last request, which has then been carried out and is
  no longer being served; whatever else is at the bridge came over a connection that is closed.
* `AbortedInv`: under "aborted" the last request has been carried out and the bridge is done with
  it (`Done`), except during the abort's own dispatch; a mission that carries out a plan has
  replaced the status before its first call. That an answer taken means `Done` is `ChannelInv`.
* `BoundsInv`: queues within their bounds, and at most one request in the hand of the REQ
  socket and of the bridge; `VoiceInv` and `ChannelInv` type what is in them.
* `TimingInv`: within a pass `t_zero_wall` is when the pass began.
* `FileInv`: while the recorder runs the file is what was written, flushed up to fewer than
  `FlushEvery` lines, or just that many when the flush is due (`FlushAhead`); once it has ended,
  what can be read back is a prefix of what was written that misses at most one interval. A person's edits add only lines that are no
  records. `PlayInv`: what was loaded is what can be read of the file, and a pass has published exactly
  those of the records it has passed that are on an enabled channel, one more for every line (`OnEnabledAppended`).
* `HistoryInv`: the samples in the history are numbered without a gap up to the latest,
  ordered in time and within the span of the latest. Pruning such a history keeps an end of
  it (`PrunedIsEnd`); of that the trend takes every n-th from the first, which
  makes at most nine (`TrendCounts`, with integer division) in rising order (`TrendRises`).
* `SensorInv`. `ScenesAdvance` is far from inductive: it needs what every frameset on its
  way may become. `StreamsInv`: a socket holds frames in the order of their capture, all
  after everything in the buffer, which holds no number twice. `PassedInv`: for every
  frameset that was handed over, what the two streams still hold can only make newer
  pairs, because `Match` leaves no common number behind and in one run of the publisher
  a later number is a later frame. `LineInv`: scene, latest frameset, queue and what the
  matcher has in its hands are a line of ever newer framesets. Like the property they say
  nothing of two framesets with an image from different runs of the publisher, but do say it
  of two whose images are mixed alike (`sensor_restart`).
* `Enumeration`. `Ascending` is the one strictly rising listing of its set, which settles
  what it is after an element is added at the end or all are moved (`Renames`); `Only` follows from
  that for a sequence that grows, is cut or is mapped.
* `SceneInv`: a scene is a detection of some image, box, header and class the network was asked
  for, with a filter that was not refused; that one has an id left, so that what was asked for is
  what was wanted. The
  rest is arithmetic: truncation towards zero and clamping together select the pixels whose
  far corner is within the box (`CoveredIsReached`), the k-th smallest value
  exists (`RankedIsThere`, from the least number above), and the mean of the two middle
  ones has half of the pixels on either side (`MedianSplits`).
* `OrphanInv`: without overlap one run at most is not free (`Alone`), and between
  `down` and the removal no container runs (`DownBeforeRemove`). `RightCheckoutHolds` rests on the same: the
  checkout that a run alone has made or checked is changed by nobody else. `ImageInv`: away from
  a build, image and container are those of the checkout, or not there.
* `DeployingInv`: the TUI waits for two deploys only when the startup check has answered and the
  state says "Deploying", and while the check is out the state says so whenever there is one.

Every safety invariant and every action property of a passing run is stated by a theorem.
Only model-checked are:

* liveness (the steps left are counted by a theorem for `AbortSent` and `StopCloses`, that
  they are taken is not), which with `ENABLED` is out of reach of the prover: `KeepsServing`,
  `LatchesClearAfterFlight`, `WatchdogActs`, `AbortLands`; `AbortSent`, `StopCloses`,
  `SttEnds`, `AbortReachesBridge`, `AbortActsOrTold`; `MatcherServes`,
  `PerceptionEnds`; `StopEnds`;
* that `Ascending` and `Only` compute what the recursive operators of the library do
  (`EnumerationAgrees`): that needs induction over the data, of which the proofs use what
  cardinalities give;
* the four violations, one trace each.

## Not modelled

* The bridge's telemetry broadcast and its shutdown by signal, what `set_param`
  changes in the FC.
* The wording of the prompt, the VLM's client library and the parsing of its answer beyond
  plan, failure or no answer; the network of the detector; Whisper and the WAV loader's
  arithmetic beyond text, no text or an exception.
* Services panel: the last message of each service with its age, shown and used for
  nothing else. Its text and that of the TUI, the preflight check.
* Messages and configuration (stateless, or read once at the start), host rewriting in
  `transport.py`; container and access-point configuration. The relay's check and deploy
  repeat the publisher's.
* The PUB sockets of `play`: what a slow subscriber misses.

## Plan

Done, in this order: `SafetyGate`, `FlightBridge` and `FlightAuthority`, `Orchestrator`,
`SensorSubscriber`, `PublisherDeploy`, `TuiDeploy`; then `Stt`, `VoiceToFlight` with
`CallChannel`, `Replay`, `Detectors` and `MissionContext`, `ToolSchemas`, the shutdown of
orchestrator and perception; and the proofs above.

Next:

1. Ranks for the other liveness properties, as `StopRank` and `AbortRank` are for the
   orchestrator: the end of perception and of the recorder.
2. The bridge's shutdown by signal against a call being served.
