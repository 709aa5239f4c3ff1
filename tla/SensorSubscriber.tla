-------------------------- MODULE SensorSubscriber --------------------------
(***************************************************************************)
(* The sensor path: the publisher on the Pi (external), the two lossy      *)
(* PUB/SUB channels, python/lexaire/subscriber.py with its two stream      *)
(* threads and its matcher thread, and the perception service that reads   *)
(* the framesets (python/services/perception/main.py): its loop, --once    *)
(* and its end.                                                            *)
(*                                                                         *)
(* A frame is its sequence number and the run of the publisher that        *)
(* captured it; the code sees the number only.  A channel delivers in      *)
(* order and may lose anything; a frame the decoder rejects counts as lost.*)
(***************************************************************************)
EXTENDS Enumeration

CONSTANTS
    BufferSize,  \* SensorSubscriber.buffer_size
    QueueSize,   \* maxsize of _out
    MaxSeq,      \* bound: captures in the first run of the publisher, one less in the next ...
    MaxRuns,     \* bound: runs of the publisher
    MaxInFlight  \* bound: frames waiting in the socket of a channel

ASSUME SubscriberAssumption ==
    /\ BufferSize \in Nat \ {0} /\ QueueSize \in Nat \ {0}
    /\ MaxSeq \in Nat /\ MaxRuns \in Nat \ {0} /\ MaxInFlight \in Nat

VARIABLES
    \* the publisher: which run it is in and the last number it used
    run, seq,
    \* what waits in the sockets, and the two buffers in insertion order
    rgbChannel, depthChannel, rgbBuf, depthBuf,
    \* the matcher thread, the framesets it still has to hand over, and _out
    matcher, matched, out,
    \* the perception loop: its step, latest_fs, whether that is older than
    \* frame_max_age_s, and the frameset of the last scene published
    perception, latest, aged, scene,
    \* --once, the flag a signal raises, _stop, and the stream threads that run
    once, stop, stopped, streams

publisher == <<run, seq>>
channels == <<rgbChannel, depthChannel>>
buffers == <<rgbBuf, depthBuf>>
reader == <<latest, aged, scene>>
lifecycle == <<once, stop, stopped, streams>>
consumer == <<perception, reader, lifecycle>>
vars == <<publisher, channels, buffers, matcher, matched, out, consumer>>

Frames == [run : 1 .. MaxRuns, seq : 1 .. MaxSeq]
Framesets == {fs \in [rgb : Frames, depth : Frames] : fs.rgb.seq = fs.depth.seq}
NoFrameset == [rgb |-> [run |-> 0, seq |-> 0], depth |-> [run |-> 0, seq |-> 0]]

\* A buffer is a dict: one frame to a number.
Keyed(buf) == \A i, j \in DOMAIN buf : buf[i].seq = buf[j].seq => i = j

TypeOK ==
    /\ run \in 1 .. MaxRuns /\ seq \in 0 .. MaxSeq
    /\ rgbChannel \in Seq(Frames) /\ depthChannel \in Seq(Frames)
    /\ Len(rgbChannel) <= MaxInFlight /\ Len(depthChannel) <= MaxInFlight
    /\ rgbBuf \in Seq(Frames) /\ depthBuf \in Seq(Frames)
    /\ Len(rgbBuf) <= BufferSize /\ Len(depthBuf) <= BufferSize
    /\ Keyed(rgbBuf) /\ Keyed(depthBuf)
    /\ matcher \in {"match", "put", "drop", "over"}
    /\ matched \in Seq(Framesets)
    /\ out \in Seq(Framesets) /\ Len(out) <= QueueSize
    /\ perception \in {"drain", "tick", "closing", "gone"}
    /\ latest \in Framesets \cup {NoFrameset} /\ scene \in Framesets \cup {NoFrameset}
    /\ {aged, once, stop, stopped} \subseteq BOOLEAN
    /\ streams \subseteq {"rgb", "depth"}

Init ==
    /\ run = 1 /\ seq = 0
    /\ rgbChannel = <<>> /\ depthChannel = <<>> /\ rgbBuf = <<>> /\ depthBuf = <<>>
    /\ matcher = "match" /\ matched = <<>> /\ out = <<>>
    /\ perception = "drain" /\ latest = NoFrameset /\ aged = FALSE /\ scene = NoFrameset
    /\ once \in BOOLEAN /\ stop = FALSE /\ stopped = FALSE /\ streams = {"rgb", "depth"}

-----------------------------------------------------------------------------
(* The publisher and the channels. *)

\* What a channel holds after a send: the frame, or not.
Sent(stream, channel, f) ==
    {channel} \cup (IF stream \in streams /\ Len(channel) < MaxInFlight
                       THEN {Append(channel, f)} ELSE {})

Capture ==
    /\ seq + run <= MaxSeq
    /\ seq' = seq + 1
    /\ rgbChannel' \in Sent("rgb", rgbChannel, [run |-> run, seq |-> seq + 1])
    /\ depthChannel' \in Sent("depth", depthChannel, [run |-> run, seq |-> seq + 1])
    /\ UNCHANGED <<run, buffers, matcher, matched, out, consumer>>

\* A restart of the publisher, or of a replay, counts from the beginning.
RestartPublisher ==
    /\ run < MaxRuns /\ run' = run + 1 /\ seq' = 0
    /\ UNCHANGED <<channels, buffers, matcher, matched, out, consumer>>

-----------------------------------------------------------------------------
(* The stream threads. *)

\* Mutant: the buffer is trimmed to one frame more than its size.
TrimLate(buf) == IF Len(buf) > BufferSize + 1 THEN Tail(buf) ELSE buf

\* _trim_locked.  A store adds one key at most, so one key leaves at most.
Trim(buf) == IF Len(buf) > BufferSize THEN Tail(buf) ELSE buf

\* buf[seq] = f: a dict keeps the place of a key it has.
Store(buf, f) ==
    IF \E i \in DOMAIN buf : buf[i].seq = f.seq
      THEN [i \in DOMAIN buf |-> IF buf[i].seq = f.seq THEN f ELSE buf[i]]
      ELSE Trim(Append(buf, f))

ReceiveRgb ==
    /\ "rgb" \in streams /\ rgbChannel # <<>>
    /\ rgbBuf' = Store(rgbBuf, Head(rgbChannel)) /\ rgbChannel' = Tail(rgbChannel)
    /\ UNCHANGED <<publisher, depthChannel, depthBuf, matcher, matched, out, consumer>>

ReceiveDepth ==
    /\ "depth" \in streams /\ depthChannel # <<>>
    /\ depthBuf' = Store(depthBuf, Head(depthChannel)) /\ depthChannel' = Tail(depthChannel)
    /\ UNCHANGED <<publisher, rgbChannel, rgbBuf, matcher, matched, out, consumer>>

\* Mutant: recv() without a poll before it.
StreamEndsAfterFrame(stream) ==
    /\ stopped /\ stream \in streams
    /\ (IF stream = "rgb" THEN rgbChannel ELSE depthChannel) # <<>>
    /\ streams' = streams \ {stream}
    /\ UNCHANGED <<publisher, channels, buffers, matcher, matched, out, perception, reader,
                   once, stop, stopped>>

\* The test of _stop, which a poll that times out comes back to.  The socket is
\* closed with what it holds.
StreamEnds(stream) ==
    /\ stopped /\ stream \in streams
    /\ streams' = streams \ {stream}
    /\ rgbChannel' = IF stream = "rgb" THEN <<>> ELSE rgbChannel
    /\ depthChannel' = IF stream = "depth" THEN <<>> ELSE depthChannel
    /\ UNCHANGED <<publisher, buffers, matcher, matched, out, perception, reader,
                   once, stop, stopped>>

-----------------------------------------------------------------------------
(* The matcher thread. *)

Keys(buf) == {buf[i].seq : i \in DOMAIN buf}
Common == Keys(rgbBuf) \cap Keys(depthBuf)
At(buf, key) == buf[CHOOSE i \in DOMAIN buf : buf[i].seq = key]
Without(buf, keys) == Only(buf, {i \in DOMAIN buf : buf[i].seq \notin keys})

\* Mutant: the common numbers are matched newest first.
NewestFirst(keys) ==
    [k \in 1 .. Cardinality(keys) |-> Ascending(keys)[Cardinality(keys) + 1 - k]]

OldestFirst(keys) == Ascending(keys)

\* _try_match_locked: every common pair leaves the buffers; one with a
\* malformed header is not handed over.  With nothing in common the thread
\* waits for a notification or 100 ms and looks again.
Match(malformed) ==
    /\ matcher = "match" /\ Common # {}
    /\ LET keys == OldestFirst(Common \ malformed)
       IN  /\ matched' = [i \in DOMAIN keys |->
                 [rgb |-> At(rgbBuf, keys[i]), depth |-> At(depthBuf, keys[i])]]
           /\ matcher' = IF keys = <<>> THEN "match" ELSE "put"
    /\ rgbBuf' = Without(rgbBuf, Common) /\ depthBuf' = Without(depthBuf, Common)
    /\ UNCHANGED <<publisher, channels, out, consumer>>

\* On to the next frameset of the batch.
NextFrameset ==
    /\ matched' = Tail(matched)
    /\ matcher' = IF Tail(matched) = <<>> THEN "match" ELSE "put"

Put ==
    /\ matcher = "put" /\ Len(out) < QueueSize
    /\ out' = Append(out, Head(matched))
    /\ NextFrameset
    /\ UNCHANGED <<publisher, channels, buffers, consumer>>

\* Mutant: put() without its timeout.
PutBlocks == FALSE /\ UNCHANGED vars

PutTimesOut ==
    /\ matcher = "put" /\ Len(out) = QueueSize
    /\ matcher' = "drop"
    /\ UNCHANGED <<publisher, channels, buffers, matched, out, consumer>>

\* get_nowait, put_nowait.  If the consumer emptied the queue in the meantime
\* get_nowait raises Empty and it is the new frameset that is dropped.
DropOldest ==
    /\ matcher = "drop"
    /\ out' = IF out = <<>> THEN out ELSE Append(Tail(out), Head(matched))
    /\ NextFrameset
    /\ UNCHANGED <<publisher, channels, buffers, consumer>>

\* _stop is tested between two batches.
MatcherEnds ==
    /\ matcher = "match" /\ stopped
    /\ matcher' = "over"
    /\ UNCHANGED <<publisher, channels, buffers, matched, out, consumer>>

-----------------------------------------------------------------------------
(* The perception loop. *)

Drain ==
    /\ perception = "drain" /\ out # <<>>
    /\ latest' = Head(out) /\ out' = Tail(out) /\ aged' = FALSE
    /\ UNCHANGED <<publisher, channels, buffers, matcher, matched, perception, scene, lifecycle>>

Drained ==
    /\ perception = "drain" /\ out = <<>>
    /\ perception' = "tick"
    /\ UNCHANGED <<publisher, channels, buffers, matcher, matched, out, reader, lifecycle>>

\* frame_max_age_s passes without a new frame.
Age ==
    /\ latest # NoFrameset /\ ~aged
    /\ aged' = TRUE
    /\ UNCHANGED <<publisher, channels, buffers, matcher, matched, out, perception, latest, scene,
                   lifecycle>>

\* The end of the loop: sub.stop() raises _stop, then waits for each thread for
\* 2 s at most.
LeaveLoop == perception' = "closing" /\ stopped' = TRUE

\* Back to the test of `while not stop`.
NextRound == IF stop THEN LeaveLoop ELSE perception' = "drain" /\ UNCHANGED stopped

\* A tick that is due publishes the scene of a fresh frame, with --once the only
\* one; it does nothing when it is not due, has no fresh frame, or the detector
\* raises.
Tick ==
    /\ perception = "tick"
    /\ \/ latest # NoFrameset /\ ~aged /\ scene' = latest
          /\ IF once THEN LeaveLoop ELSE NextRound
       \/ UNCHANGED scene /\ NextRound
    /\ UNCHANGED <<publisher, channels, buffers, matcher, matched, out, latest, aged,
                   once, stop, streams>>

\* --once gives up when no frame came within 10 s.
GiveUp ==
    /\ perception = "tick" /\ once /\ latest = NoFrameset
    /\ LeaveLoop
    /\ UNCHANGED <<publisher, channels, buffers, matcher, matched, out, reader,
                   once, stop, streams>>

\* A signal later than that changes nothing.
Signal ==
    /\ ~stop /\ perception \in {"drain", "tick"} /\ stop' = TRUE
    /\ UNCHANGED <<publisher, channels, buffers, matcher, matched, out, perception, reader,
                   once, stopped, streams>>

\* ctx.term() returns when the stream threads have closed their sockets; the
\* matcher is a daemon and ends with the process, and so do the buffers.
Exit ==
    /\ perception = "closing" /\ streams = {}
    /\ perception' = "gone" /\ matcher' = "over"
    /\ rgbBuf' = <<>> /\ depthBuf' = <<>> /\ matched' = <<>> /\ out' = <<>>
    /\ UNCHANGED <<publisher, channels, reader, lifecycle>>

Gone == perception = "gone" /\ UNCHANGED vars

-----------------------------------------------------------------------------
Next ==
    \/ Capture \/ RestartPublisher
    \/ ReceiveRgb \/ ReceiveDepth
    \/ \E malformed \in SUBSET Common : Match(malformed)
    \/ Put \/ PutTimesOut \/ DropOldest
    \/ Drain \/ Drained \/ Age \/ Tick
    \/ Signal \/ GiveUp \/ Exit \/ Gone
    \/ MatcherEnds \/ \E stream \in {"rgb", "depth"} : StreamEnds(stream)

Spec == Init /\ [][Next]_vars

\* The subscriber's threads run.  Perception may take any time in its detector,
\* but a call of it that is under way at a signal returns.
FairSpec ==
    /\ Spec
    /\ WF_vars(ReceiveRgb) /\ WF_vars(ReceiveDepth)
    /\ WF_vars(\E malformed \in SUBSET Common : Match(malformed))
    /\ WF_vars(Put) /\ WF_vars(PutTimesOut) /\ WF_vars(DropOldest)
    /\ WF_vars(StreamEnds("rgb")) /\ WF_vars(StreamEnds("depth"))
    /\ WF_vars(stop /\ (Drain \/ Drained \/ Tick)) /\ WF_vars(Exit)

-----------------------------------------------------------------------------
(* Properties. *)

Newer(a, b) ==
    a.rgb.run = b.rgb.run /\ a.depth.run = b.depth.run => a.rgb.seq > b.rgb.seq

\* Scenes never go back in time: whatever was lost, trimmed or dropped, a scene
\* published after another is of a later frame, as long as the publisher of
\* each stream is the same (subscriber.py:195 sorts, 183-191 drops the oldest).
ScenesAdvance == [][scene' # scene => Newer(scene', scene)]_vars

\* "yields synchronized framesets" (subscriber.py:4-5): the color and the depth
\* image of a frameset were captured together.
Synchronized ==
    \A i \in DOMAIN out : out[i].rgb = out[i].depth

\* A reader that stops reading does not stop the matcher: pairs that meet in the
\* buffers are taken out of them (subscriber.py:179-191, put with a timeout),
\* until the subscriber is stopped.
MatcherServes == Common # {} ~> Common = {} \/ stopped

\* A signal ends the service also when the publisher is silent or the queue is
\* full: nothing its end waits for waits without a time-out (subscriber.py:77-81,
\* 111-114, 181; perception/main.py:128-131).
PerceptionEnds == stop ~> (perception = "gone")
=============================================================================
