--------------------------- MODULE MissionContext ---------------------------
(***************************************************************************)
(* What the VLM is shown: the perception service's scene, the telemetry    *)
(* and the color image as the threads of python/services/orchestrator/     *)
(* main.py keep them, _build_context, and the prompt of vlm_gemini.py.     *)
(*                                                                         *)
(* The three sources are independent and may fall silent at any time: a    *)
(* source that is dead is one whose action is not taken.  A scene is one   *)
(* detection (the others are made alike).  A context can be built at any   *)
(* moment, so what it holds is a function of the state.                    *)
(***************************************************************************)
EXTENDS Detectors, Enumeration, SequencesExt

CONSTANTS
    DepthImages,     \* depth images the camera may take
    Boxes,           \* boxes the network may return
    Headers,         \* what a depth header may say: [scaled, calibrated]
    ClassConfigs,    \* values of perception.detector.classes, {} for none
    HistorySpan,     \* telemetry_history_seconds
    FrameMaxAge,     \* frame_max_age_s
    MaxSamples,      \* bound on the telemetry samples
    MaxNow           \* bound on the clock

ASSUME ContextAssumption ==
    /\ DepthImages \subseteq Images
    /\ Boxes \subseteq [x : Int, w : Nat, y : Int, h : Nat]
    /\ Headers \subseteq [scaled : BOOLEAN, calibrated : BOOLEAN]
    /\ {HistorySpan, FrameMaxAge, MaxSamples, MaxNow} \subseteq Nat

VARIABLES
    now,        \* time.monotonic()
    classes,    \* the class filter of the config
    scene,      \* latest_scene, with the depth image it was made from
    samples,    \* telemetry samples published
    latest,     \* latest_telem
    history,    \* _telem_history, oldest first
    frameTime   \* latest_fs_ts, or Never

vars == <<now, classes, scene, samples, latest, history, frameTime>>

Never == -1
NoScene == [label |-> "none"]

Init ==
    /\ now = 0 /\ classes \in ClassConfigs
    /\ scene = NoScene
    /\ samples = 0 /\ latest = 0 /\ history = <<>> /\ frameTime = Never

Tick ==
    /\ now < MaxNow /\ now' = now + 1
    /\ UNCHANGED <<classes, scene, samples, latest, history, frameTime>>

\* The perception service detects something and _run_scene_thread takes the
\* scene; a message that does not decode changes nothing.
SceneArrives ==
    /\ ~Refused(classes)
    /\ \E image \in DepthImages, hdr \in Headers, box \in Boxes, k \in Asked(Wanted(classes)) :
          scene' = Detection(image, hdr.scaled, hdr.calibrated, box, k)
    /\ UNCHANGED <<now, classes, samples, latest, history, frameTime>>

\* Mutant: the history is never pruned.
Unpruned(kept) == kept

\* Mutant: an if in place of the while, one old sample goes for each that arrives.
PrunedOnce(kept) ==
    IF Head(kept).at < now - HistorySpan THEN Tail(kept) ELSE kept

\* The samples within the configured span of now.
Pruned(kept) == Only(kept, {i \in DOMAIN kept : kept[i].at >= now - HistorySpan})

\* _run_telemetry_thread: both under one lock.
TelemetryArrives ==
    /\ samples < MaxSamples
    /\ samples' = samples + 1 /\ latest' = samples + 1
    /\ history' = Pruned(Append(history, [n |-> samples + 1, at |-> now]))
    /\ UNCHANGED <<now, classes, scene, frameTime>>

\* _run_frame_thread.
FrameArrives ==
    /\ frameTime' = now
    /\ UNCHANGED <<now, classes, scene, samples, latest, history>>

Next == Tick \/ SceneArrives \/ TelemetryArrives \/ FrameArrives

Spec == Init /\ [][Next]_vars

----------------------------------------------------------------------------
\* Every how many samples the trend takes one.
Step(n) == IF n > 5 THEN n \div 5 ELSE 1

\* history[::step] of _build_prompt.
Trend(all) ==
    LET step == Step(Len(all))
    IN [i \in 1..((Len(all) + step - 1) \div step) |-> all[(i - 1) * step + 1]]

\* _build_context and the parts of the prompt that depend on it.
Prompt ==
    [scene |-> scene, telemetry |-> latest, trend |-> Trend(history),
     image |-> frameTime # Never /\ now - frameTime <= FrameMaxAge]

----------------------------------------------------------------------------
(* Properties                                                              *)

\* The types, and the bound of the history: it spans no more than the configured
\* seconds, however long the telemetry was silent before it came back.
TypeOK ==
    /\ now \in 0..MaxNow /\ classes \in ClassConfigs
    /\ samples \in 0..MaxSamples /\ latest \in 0..samples
    /\ history \in Seq([n : 1..samples, at : 0..now])
    /\ \A i \in DOMAIN history : Last(history).at - history[i].at <= HistorySpan
    /\ frameTime \in {Never} \cup 0..now
    /\ scene = NoScene \/
          /\ scene.image \in DepthImages /\ scene.scaled \in BOOLEAN
          /\ scene.label \in {Names[k] : k \in DOMAIN Names} /\ scene.box \in Boxes

\* The telemetry of a prompt is one story: "telemetry now" is the last sample of
\* the history, the trend goes forward from the oldest sample kept, spans no more
\* than the configured seconds, is short, and misses less than one interval at
\* its end (_run_telemetry_thread prunes on arrival only; _build_prompt).
PromptConsistent ==
    LET trend == Prompt.trend
    IN /\ Prompt.telemetry = (IF history = <<>> THEN 0 ELSE Last(history).n)
       /\ history # <<>> => trend # <<>> /\ Head(trend) = Head(history)
       /\ Len(trend) < 10
       /\ \A i, j \in DOMAIN trend : i < j =>
             /\ trend[i].n < trend[j].n
             /\ trend[j].at - trend[i].at \in 0..HistorySpan
       /\ trend # <<>> => latest - Last(trend).n < Step(Len(history))

\* The depth and the ray of a detection are those of the whole box, wherever it
\* hangs over the edge of the image: only measured pixels of the box count, and
\* no depth is given when there is none (detectors.py:42-59).
DepthIsMeasured ==
    scene # NoScene =>
        /\ IsDepthOf(scene.of.depth, scene.image, scene.scaled, scene.box)
        /\ scene.of.ray \in {NoRay,
               <<2 * scene.box.x + scene.box.w, 2 * scene.box.y + scene.box.h>>}
        /\ scene.of.depth = Unmeasured => scene.of.ray = NoRay

\* A class filter is kept: a scene shows what the operator asked for, also when
\* some or all of the names are misspelled.  Nothing is left of the filter then,
\* and detect() takes an empty filter for none: only that the detector is not
\* built keeps every class from being shown (detectors.py:113-124, 137-138).
FilterKept == scene # NoScene /\ classes # {} => scene.label \in classes
=============================================================================
