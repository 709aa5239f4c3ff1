---------------------- MODULE SensorSubscriberProofs ----------------------
(***************************************************************************)
(* Theorems about the sensor path: the bounds of the subscriber's buffers  *)
(* and queue, and that scenes never go back in time.                       *)
(***************************************************************************)
EXTENDS SensorSubscriber, EnumerationProofs

-----------------------------------------------------------------------------
(* A stream: what its thread has buffered and what waits in its socket. *)

\* a was captured before b.
Before(a, b) == a.run < b.run \/ (a.run = b.run /\ a.seq < b.seq)

\* The publisher has captured f by its number s in run r.
Captured(f, r, s) == f.run < r \/ (f.run = r /\ f.seq <= s)

\* The socket holds frames in the order of their capture, all of them later
\* than what the buffer holds.
StreamInv(buf, channel, r, s) ==
    /\ buf \in Seq(Frames) /\ Len(buf) <= BufferSize /\ Keyed(buf)
    /\ channel \in Seq(Frames) /\ Len(channel) <= MaxInFlight
    /\ \A i \in 1 .. Len(buf) : Captured(buf[i], r, s)
    /\ \A i \in 1 .. Len(channel) : Captured(channel[i], r, s)
    /\ \A i, j \in 1 .. Len(channel) : i < j => Before(channel[i], channel[j])
    /\ \A i \in 1 .. Len(buf), j \in 1 .. Len(channel) : Before(buf[i], channel[j])

\* The frames a stream still holds.
Held(buf, channel) == {buf[i] : i \in 1 .. Len(buf)} \cup {channel[i] : i \in 1 .. Len(channel)}

StreamsInv ==
    /\ run \in 1 .. MaxRuns /\ seq \in 0 .. MaxSeq
    /\ StreamInv(rgbBuf, rgbChannel, run, seq)
    /\ StreamInv(depthBuf, depthChannel, run, seq)


\* The bounds of the model and of the code are numbers.
LEMMA Bounds ==
    /\ BufferSize \in Nat \ {0} /\ QueueSize \in Nat \ {0}
    /\ MaxSeq \in Nat /\ MaxRuns \in Nat \ {0} /\ MaxInFlight \in Nat
    /\ \A f \in Frames : f.run \in Nat \ {0} /\ f.seq \in Nat \ {0}
  BY SubscriberAssumption DEF Frames

\* What was captured stays captured, through the next capture and a restart.
LEMMA StaysCaptured ==
    ASSUME NEW f, f.run \in Nat, f.seq \in Nat, NEW r \in Nat, NEW s \in Nat, Captured(f, r, s)
    PROVE  Captured(f, r, s + 1) /\ Captured(f, r + 1, 0)
  BY DEF Captured

\* Neither touches the order of a stream.
LEMMA StreamStays ==
    ASSUME NEW buf, NEW channel, NEW r \in Nat, NEW s \in Nat, StreamInv(buf, channel, r, s)
    PROVE  StreamInv(buf, channel, r, s + 1) /\ StreamInv(buf, channel, r + 1, 0)
<1>1. /\ buf \in Seq(Frames) /\ channel \in Seq(Frames)
      /\ \A i \in 1 .. Len(buf) : Captured(buf[i], r, s)
      /\ \A i \in 1 .. Len(channel) : Captured(channel[i], r, s)
  BY DEF StreamInv
<1>2. \A i \in 1 .. Len(buf) : buf[i] \in Frames
  BY <1>1, ElementOfSeq
<1>3. \A i \in 1 .. Len(channel) : channel[i] \in Frames
  BY <1>1, ElementOfSeq
<1>4. \A i \in 1 .. Len(buf) : Captured(buf[i], r, s + 1) /\ Captured(buf[i], r + 1, 0)
  BY <1>1, <1>2, Bounds, StaysCaptured
<1>5. \A i \in 1 .. Len(channel) : Captured(channel[i], r, s + 1) /\ Captured(channel[i], r + 1, 0)
  BY <1>1, <1>3, Bounds, StaysCaptured
<1> QED
  BY <1>4, <1>5 DEF StreamInv

\* A capture that is not lost joins its stream behind everything else.
LEMMA SentKeeps ==
    ASSUME NEW buf, NEW channel, NEW r \in Nat, NEW s \in Nat, StreamInv(buf, channel, r, s),
           NEW f \in Frames, f.run = r, f.seq = s + 1,
           NEW stream, NEW sent \in Sent(stream, channel, f)
    PROVE  /\ StreamInv(buf, sent, r, s + 1)
           /\ Held(buf, sent) \subseteq Held(buf, channel) \cup {f}
<1>1. StreamInv(buf, channel, r, s + 1)
  BY StreamStays
<1>2. CASE sent = channel
  BY <1>1, <1>2 DEF Held
<1>3. CASE Len(channel) < MaxInFlight /\ sent = Append(channel, f)
  <2>1. /\ buf \in Seq(Frames) /\ channel \in Seq(Frames)
        /\ Len(buf) \in Nat /\ Len(channel) \in Nat
    BY LenProperties DEF StreamInv
  <2>2. /\ sent \in Seq(Frames) /\ Len(sent) = Len(channel) + 1
        /\ \A i \in 1 .. Len(channel) : sent[i] = channel[i]
        /\ sent[Len(channel) + 1] = f
    BY <1>3, <2>1, AppendProperties
  <2>3. \A i \in 1 .. Len(sent) : i \in 1 .. Len(channel) \/ i = Len(channel) + 1
    BY <2>1, <2>2
  <2>4. \A i \in 1 .. Len(buf) : Before(buf[i], f)
    <3>1. \A i \in 1 .. Len(buf) : buf[i] \in Frames /\ Captured(buf[i], r, s)
      BY <2>1, ElementOfSeq DEF StreamInv
    <3> QED
      BY <3>1, Bounds DEF Captured, Before
  <2>5. \A i \in 1 .. Len(channel) : Before(channel[i], f)
    <3>1. \A i \in 1 .. Len(channel) : channel[i] \in Frames /\ Captured(channel[i], r, s)
      BY <2>1, ElementOfSeq DEF StreamInv
    <3> QED
      BY <3>1, Bounds DEF Captured, Before
  <2>6. Captured(f, r, s + 1)
    BY DEF Captured
  <2>7. \A i \in 1 .. Len(sent) : Captured(sent[i], r, s + 1)
    BY <1>1, <2>2, <2>3, <2>6 DEF StreamInv
  <2>8. ASSUME NEW i \in 1 .. Len(sent), NEW j \in 1 .. Len(sent), i < j
        PROVE  Before(sent[i], sent[j])
    <3>1. i \in 1 .. Len(channel)
      BY <2>1, <2>2, <2>8
    <3>2. CASE j \in 1 .. Len(channel)
      BY <2>2, <2>8, <3>1, <3>2 DEF StreamInv
    <3>3. CASE j = Len(channel) + 1
      BY <2>2, <2>5, <3>1, <3>3
    <3> QED
      BY <2>3, <3>2, <3>3
  <2>9. \A i \in 1 .. Len(buf), j \in 1 .. Len(sent) : Before(buf[i], sent[j])
    BY <2>2, <2>3, <2>4 DEF StreamInv
  <2>10. Len(sent) <= MaxInFlight
    BY <1>3, <2>1, <2>2, Bounds
  <2>11. Held(buf, sent) \subseteq Held(buf, channel) \cup {f}
    BY <2>2, <2>3 DEF Held
  <2> QED
    BY <1>1, <2>2, <2>7, <2>8, <2>9, <2>10, <2>11 DEF StreamInv
<1> QED
  BY <1>2, <1>3 DEF Sent

\* A buffer that takes the head of its channel and is otherwise made of what it
\* held stays behind the rest of the channel.
LEMMA TakingKeeps ==
    ASSUME NEW buf, NEW channel, NEW r, NEW s, StreamInv(buf, channel, r, s), channel # <<>>,
           NEW new \in Seq(Frames), Len(new) <= BufferSize, Keyed(new),
           \A i \in 1 .. Len(new) : new[i] = Head(channel) \/ \E k \in 1 .. Len(buf) : new[i] = buf[k]
    PROVE  /\ StreamInv(new, Tail(channel), r, s)
           /\ Held(new, Tail(channel)) \subseteq Held(buf, channel)
<1> DEFINE rest == Tail(channel)
<1>1. channel \in Seq(Frames) /\ Len(channel) \in Nat /\ Len(channel) > 0
  BY LenProperties, EmptySeq DEF StreamInv
<1>2. /\ rest \in Seq(Frames) /\ Len(rest) = Len(channel) - 1
      /\ \A i \in 1 .. Len(rest) : rest[i] = channel[i + 1]
      /\ Head(channel) = channel[1]
  BY <1>1, HeadTailProperties
<1> HIDE DEF rest
<1>3. 1 \in 1 .. Len(channel) /\ \A i \in 1 .. Len(rest) : i + 1 \in 1 .. Len(channel) /\ 1 < i + 1
  BY <1>1, <1>2
<1>4. \A i \in 1 .. Len(rest) : Captured(rest[i], r, s)
  BY <1>2, <1>3 DEF StreamInv
<1>5. \A i \in 1 .. Len(new) : Captured(new[i], r, s)
  BY <1>2, <1>3 DEF StreamInv
<1>6. ASSUME NEW i \in 1 .. Len(rest), NEW j \in 1 .. Len(rest), i < j
      PROVE  Before(rest[i], rest[j])
  <2>1. i + 1 \in 1 .. Len(channel) /\ j + 1 \in 1 .. Len(channel) /\ i + 1 < j + 1
    BY <1>3, <1>6
  <2>2. Before(channel[i + 1], channel[j + 1])
    BY <2>1 DEF StreamInv
  <2> QED
    BY <1>2, <2>2
<1>7. ASSUME NEW i \in 1 .. Len(new), NEW j \in 1 .. Len(rest) PROVE Before(new[i], rest[j])
  <2>1. rest[j] = channel[j + 1] /\ j + 1 \in 1 .. Len(channel) /\ 1 < j + 1
    BY <1>2, <1>3
  <2>2. CASE new[i] = Head(channel)
    BY <1>2, <1>3, <2>1, <2>2 DEF StreamInv
  <2>3. CASE \E k \in 1 .. Len(buf) : new[i] = buf[k]
    BY <2>1, <2>3 DEF StreamInv
  <2> QED
    BY <2>2, <2>3
<1>8. Len(rest) <= MaxInFlight
  BY <1>1, <1>2, Bounds DEF StreamInv
<1>9. Held(new, rest) \subseteq Held(buf, channel)
  <2>1. \A i \in 1 .. Len(new) : new[i] \in Held(buf, channel)
    BY <1>2, <1>3 DEF Held
  <2>2. \A i \in 1 .. Len(rest) : rest[i] \in Held(buf, channel)
    BY <1>2, <1>3 DEF Held
  <2> QED
    BY <2>1, <2>2 DEF Held
<1> QED
  BY <1>2, <1>4, <1>5, <1>6, <1>7, <1>8, <1>9 DEF StreamInv, rest

\* One that is left with some of what it held, whatever it keeps.
LEMMA LeavingKeeps ==
    ASSUME NEW buf, NEW channel, NEW r, NEW s, StreamInv(buf, channel, r, s),
           NEW new \in Seq(Frames), Len(new) <= BufferSize, Keyed(new),
           \A i \in 1 .. Len(new) : \E k \in 1 .. Len(buf) : new[i] = buf[k]
    PROVE  /\ StreamInv(new, channel, r, s)
           /\ Held(new, channel) \subseteq Held(buf, channel)
<1>1. \A i \in 1 .. Len(new) : Captured(new[i], r, s)
  BY DEF StreamInv
<1>2. \A i \in 1 .. Len(new), j \in 1 .. Len(channel) : Before(new[i], channel[j])
  BY DEF StreamInv
<1>3. Held(new, channel) \subseteq Held(buf, channel)
  BY DEF Held
<1> QED
  BY <1>1, <1>2, <1>3 DEF StreamInv

\* A socket that is closed with what it holds.
LEMMA ClosingKeeps ==
    ASSUME NEW buf, NEW channel, NEW r, NEW s, StreamInv(buf, channel, r, s)
    PROVE  /\ StreamInv(buf, <<>>, r, s)
           /\ Held(buf, <<>>) \subseteq Held(buf, channel)
<1>1. <<>> \in Seq(Frames) /\ Len(<<>>) = 0 /\ 1 .. 0 = {}
  BY EmptySeq
<1> QED
  BY <1>1, Bounds DEF StreamInv, Held

\* A stored frame replaces the one of its number, or joins at the end and pushes
\* out the oldest (subscriber.py:123-125, 152-154, 161-163).
LEMMA StoreKeeps ==
    ASSUME NEW buf, NEW channel, NEW r, NEW s, StreamInv(buf, channel, r, s), channel # <<>>
    PROVE  /\ StreamInv(Store(buf, Head(channel)), Tail(channel), r, s)
           /\ Held(Store(buf, Head(channel)), Tail(channel)) \subseteq Held(buf, channel)
<1> DEFINE f == Head(channel)
           new == Store(buf, f)
<1>1. /\ buf \in Seq(Frames) /\ Len(buf) \in Nat /\ DOMAIN buf = 1 .. Len(buf)
      /\ Len(buf) <= BufferSize /\ Keyed(buf)
      /\ buf \in [1 .. Len(buf) -> Frames]
  BY LenProperties DEF StreamInv
<1>2. f \in Frames
  BY HeadTailProperties DEF StreamInv
<1> HIDE DEF f
<1>3. CASE \E i \in DOMAIN buf : buf[i].seq = f.seq
  <2> DEFINE put == [i \in 1 .. Len(buf) |-> IF buf[i].seq = f.seq THEN f ELSE buf[i]]
  <2>1. new = put
    BY <1>1, <1>3 DEF Store
  <2>2. put \in [1 .. Len(buf) -> Frames]
    BY <1>1, <1>2
  <2>3. put \in Seq(Frames) /\ Len(put) = Len(buf)
    BY <1>1, <2>2
  <2>4. \A i \in 1 .. Len(buf) : put[i] = f \/ put[i] = buf[i]
    OBVIOUS
  <2>5. \A i \in 1 .. Len(buf) : put[i].seq = buf[i].seq
    OBVIOUS
  <2>6. DOMAIN put = 1 .. Len(buf)
    OBVIOUS
  <2> HIDE DEF put
  <2>7. Keyed(put)
    BY <1>1, <2>5, <2>6 DEF Keyed
  <2>8. \A i \in 1 .. Len(put) : put[i] = Head(channel) \/ \E k \in 1 .. Len(buf) : put[i] = buf[k]
    BY <2>3, <2>4 DEF f
  <2>9. Len(put) <= BufferSize
    BY <1>1, <2>3
  <2> QED
    BY <2>1, <2>3, <2>7, <2>8, <2>9, TakingKeeps DEF f
<1>4. CASE ~ \E i \in DOMAIN buf : buf[i].seq = f.seq
  <2> DEFINE all == Append(buf, f)
  <2>1. /\ all \in Seq(Frames) /\ Len(all) = Len(buf) + 1
        /\ \A i \in 1 .. Len(buf) : all[i] = buf[i]
        /\ all[Len(buf) + 1] = f
        /\ DOMAIN all = 1 .. Len(all)
    BY <1>1, <1>2, AppendProperties, LenProperties
  <2>2. new = Trim(all)
    BY <1>4 DEF Store
  <2> HIDE DEF all
  <2>3. \A i \in 1 .. Len(all) : i \in 1 .. Len(buf) \/ i = Len(buf) + 1
    BY <1>1, <2>1
  <2>4. Keyed(all)
    <3> SUFFICES ASSUME NEW i \in 1 .. Len(all), NEW j \in 1 .. Len(all), all[i].seq = all[j].seq
                 PROVE  i = j
      BY <2>1 DEF Keyed
    <3>1. CASE i \in 1 .. Len(buf) /\ j \in 1 .. Len(buf)
      BY <1>1, <2>1, <3>1 DEF Keyed
    <3>2. CASE i = Len(buf) + 1 /\ j \in 1 .. Len(buf)
      BY <1>1, <1>4, <2>1, <3>2
    <3>3. CASE i \in 1 .. Len(buf) /\ j = Len(buf) + 1
      BY <1>1, <1>4, <2>1, <3>3
    <3> QED
      BY <2>3, <3>1, <3>2, <3>3
  <2>5. \A i \in 1 .. Len(all) : all[i] = Head(channel) \/ \E k \in 1 .. Len(buf) : all[i] = buf[k]
    BY <2>1, <2>3 DEF f
  <2>6. CASE Len(all) > BufferSize
    <3> DEFINE rest == Tail(all)
    <3>1. /\ rest \in Seq(Frames) /\ Len(rest) = Len(all) - 1
          /\ \A i \in 1 .. Len(rest) : rest[i] = all[i + 1]
          /\ DOMAIN rest = 1 .. Len(rest)
      <4>1. all # <<>>
        BY <1>1, <2>1, EmptySeq
      <4> QED
        BY <2>1, <4>1, HeadTailProperties, LenProperties
    <3>2. new = rest
      BY <2>2, <2>6 DEF Trim
    <3> HIDE DEF rest
    <3>3. \A i \in 1 .. Len(rest) : i + 1 \in 1 .. Len(all)
      BY <1>1, <2>1, <3>1
    <3>4. Keyed(rest)
      <4> SUFFICES ASSUME NEW i \in 1 .. Len(rest), NEW j \in 1 .. Len(rest),
                          rest[i].seq = rest[j].seq
                   PROVE  i = j
        BY <3>1 DEF Keyed
      <4>1. i + 1 \in DOMAIN all /\ j + 1 \in DOMAIN all /\ all[i + 1].seq = all[j + 1].seq
        BY <2>1, <3>1, <3>3
      <4>2. i + 1 = j + 1
        BY <2>4, <4>1 DEF Keyed
      <4> QED
        BY <4>2
    <3>5. \A i \in 1 .. Len(rest) : rest[i] = Head(channel) \/ \E k \in 1 .. Len(buf) : rest[i] = buf[k]
      BY <2>5, <3>1, <3>3
    <3>6. Len(rest) <= BufferSize
      BY <1>1, <2>1, <3>1, Bounds
    <3> QED
      BY <3>1, <3>2, <3>4, <3>5, <3>6, TakingKeeps DEF f
  <2>7. CASE ~(Len(all) > BufferSize)
    <3>1. new = all
      BY <2>2, <2>7 DEF Trim
    <3>2. Len(all) <= BufferSize
      BY <1>1, <2>1, <2>7, Bounds
    <3> QED
      BY <2>1, <2>4, <2>5, <3>1, <3>2, TakingKeeps DEF f
  <2> QED
    BY <2>6, <2>7
<1> QED
  BY <1>3, <1>4

\* A match takes every frame of a common number out of a buffer and leaves the
\* others.
LEMMA WithoutKeeps ==
    ASSUME NEW buf, NEW channel, NEW r, NEW s, StreamInv(buf, channel, r, s), NEW keys
    PROVE  /\ StreamInv(Without(buf, keys), channel, r, s)
           /\ Held(Without(buf, keys), channel) \subseteq Held(buf, channel)
           /\ \A i \in 1 .. Len(Without(buf, keys)) : Without(buf, keys)[i].seq \notin keys
<1> DEFINE P == {i \in DOMAIN buf : buf[i].seq \notin keys}
           new == Without(buf, keys)
           order == Ascending(P)
<1>1. /\ buf \in Seq(Frames) /\ Len(buf) \in Nat /\ DOMAIN buf = 1 .. Len(buf)
      /\ Len(buf) <= BufferSize /\ Keyed(buf)
  BY LenProperties DEF StreamInv
<1>2. new = Only(buf, P)
  BY DEF Without
<1>3. P \subseteq DOMAIN buf /\ \A i \in P : buf[i].seq \notin keys
  OBVIOUS
<1> HIDE DEF P, new
<1>4. /\ new \in Seq(Frames) /\ Len(new) \in Nat /\ Len(new) <= Len(buf)
      /\ \A k \in 1 .. Len(new) : order[k] \in P /\ new[k] = buf[order[k]]
      /\ \A j, k \in 1 .. Len(new) : j < k => order[j] < order[k]
  BY <1>1, <1>2, <1>3, OnlyProperties, LenProperties
<1>5. DOMAIN new = 1 .. Len(new)
  BY <1>4, LenProperties
<1>6. Keyed(new)
  <2> SUFFICES ASSUME NEW i \in 1 .. Len(new), NEW j \in 1 .. Len(new), new[i].seq = new[j].seq
               PROVE  i = j
    BY <1>5 DEF Keyed
  <2>1. order[i] \in DOMAIN buf /\ order[j] \in DOMAIN buf /\ buf[order[i]].seq = buf[order[j]].seq
    BY <1>3, <1>4
  <2>2. order[i] = order[j] /\ order[i] \in Int
    BY <1>1, <2>1 DEF Keyed
  <2>3. (i < j => order[i] < order[j]) /\ (j < i => order[j] < order[i])
    BY <1>4
  <2> HIDE DEF order
  <2> QED
    BY <1>4, <2>2, <2>3
<1>7. \A i \in 1 .. Len(new) : \E k \in 1 .. Len(buf) : new[i] = buf[k]
  BY <1>1, <1>3, <1>4
<1>8. Len(new) <= BufferSize
  BY <1>1, <1>4, Bounds
<1>9. \A i \in 1 .. Len(new) : new[i].seq \notin keys
  BY <1>3, <1>4
<1>10. StreamInv(new, channel, r, s) /\ Held(new, channel) \subseteq Held(buf, channel)
  BY <1>4, <1>6, <1>7, <1>8, LeavingKeeps
<1> QED
  BY <1>9, <1>10 DEF new

-----------------------------------------------------------------------------
(* What was matched and not read yet, in the order it will be read. *)

pending == out \o matched

\* Every pair two streams can still make is newer than fs.
Behind(fs, rgbHeld, depthHeld) ==
    \A r \in rgbHeld, d \in depthHeld :
        r.seq = d.seq => Newer([rgb |-> r, depth |-> d], fs)

\* fs is of frames that were captured, and the streams are past it.
Passed(fs, r, s, rgbHeld, depthHeld) ==
    /\ fs \in Framesets \cup {NoFrameset}
    /\ Captured(fs.rgb, r, s) /\ Captured(fs.depth, r, s)
    /\ Behind(fs, rgbHeld, depthHeld)

AllPassed(waiting, last, shown, r, s, rgbHeld, depthHeld) ==
    /\ waiting \in Seq(Framesets)
    /\ Passed(shown, r, s, rgbHeld, depthHeld) /\ Passed(last, r, s, rgbHeld, depthHeld)
    /\ \A i \in 1 .. Len(waiting) : Passed(waiting[i], r, s, rgbHeld, depthHeld)

\* The scene shown, the frameset read last and those that wait get newer from one
\* to any later one.
Line(waiting, last, shown) ==
    /\ last = shown \/ Newer(last, shown)
    /\ \A i \in 1 .. Len(waiting) : Newer(waiting[i], last) /\ Newer(waiting[i], shown)
    /\ \A i, j \in 1 .. Len(waiting) : i < j => Newer(waiting[j], waiting[i])

PassedInv ==
    AllPassed(pending, latest, scene, run, seq,
              Held(rgbBuf, rgbChannel), Held(depthBuf, depthChannel))

LineInv == Line(pending, latest, scene)

\* The threads, and what the matcher has in its hands.
ControlInv ==
    /\ matcher \in {"match", "put", "drop", "over"}
    /\ matched \in Seq(Framesets) /\ (matcher \in {"put", "drop"} <=> matched # <<>>)
    /\ out \in Seq(Framesets) /\ Len(out) <= QueueSize
    /\ perception \in {"drain", "tick", "closing", "gone"}
    /\ aged \in BOOLEAN /\ once \in BOOLEAN /\ stop \in BOOLEAN /\ stopped \in BOOLEAN
    /\ streams \subseteq {"rgb", "depth"}

SensorInv == ControlInv /\ StreamsInv /\ PassedInv /\ LineInv

\* The fields of a frameset.
LEMMA FramesetFields ==
    ASSUME NEW fs \in Framesets \cup {NoFrameset}
    PROVE  /\ fs.rgb.run \in Nat /\ fs.rgb.seq \in Nat /\ fs.depth.run \in Nat /\ fs.depth.seq \in Nat
           /\ fs.rgb.seq = fs.depth.seq
           /\ fs \in Framesets => fs.rgb \in Frames /\ fs.depth \in Frames
<1>1. CASE fs \in Framesets
  <2>1. fs.rgb \in Frames /\ fs.depth \in Frames /\ fs.rgb.seq = fs.depth.seq
    BY <1>1 DEF Framesets
  <2> QED
    BY <2>1, Bounds
<1>2. CASE fs = NoFrameset /\ fs \notin Framesets
  BY <1>2 DEF NoFrameset
<1> QED
  BY <1>1, <1>2

\* The streams are past a frameset also when they hold less, and after a restart.
LEMMA PassedOn ==
    ASSUME NEW fs, NEW r \in Nat, NEW s \in Nat, NEW rgbHeld, NEW depthHeld,
           Passed(fs, r, s, rgbHeld, depthHeld),
           NEW rgbLeft, rgbLeft \subseteq rgbHeld, NEW depthLeft, depthLeft \subseteq depthHeld
    PROVE  /\ Passed(fs, r, s, rgbLeft, depthLeft)
           /\ Passed(fs, r + 1, 0, rgbLeft, depthLeft)
<1>1. Behind(fs, rgbLeft, depthLeft)
  BY DEF Passed, Behind
<1>2. Captured(fs.rgb, r + 1, 0) /\ Captured(fs.depth, r + 1, 0)
  BY FramesetFields, StaysCaptured DEF Passed
<1> QED
  BY <1>1, <1>2 DEF Passed

\* And after a capture: the new frame has a number of its own in its run.
LEMMA PassedCapture ==
    ASSUME NEW fs, NEW r \in Nat, NEW s \in Nat, NEW rgbHeld, NEW depthHeld,
           Passed(fs, r, s, rgbHeld, depthHeld),
           NEW f, f.run = r, f.seq = s + 1,
           NEW rgbMore, rgbMore \subseteq rgbHeld \cup {f},
           NEW depthMore, depthMore \subseteq depthHeld \cup {f}
    PROVE  Passed(fs, r, s + 1, rgbMore, depthMore)
<1>1. /\ fs.rgb.run \in Nat /\ fs.rgb.seq \in Nat /\ fs.depth.run \in Nat /\ fs.depth.seq \in Nat
      /\ fs.rgb.seq = fs.depth.seq
  BY FramesetFields DEF Passed
<1>2. Captured(fs.rgb, r, s) /\ Captured(fs.depth, r, s)
  BY DEF Passed
<1>3. ASSUME NEW a \in rgbMore, NEW b \in depthMore, a.seq = b.seq
      PROVE  Newer([rgb |-> a, depth |-> b], fs)
  <2>1. CASE a \in rgbHeld /\ b \in depthHeld
    BY <1>3, <2>1 DEF Passed, Behind
  <2>2. CASE a = f
    <3>1. a.run = fs.rgb.run => a.seq > fs.rgb.seq
      BY <1>1, <1>2, <2>2 DEF Captured
    <3> QED
      BY <3>1 DEF Newer
  <2>3. CASE b = f
    <3>1. b.run = fs.depth.run => b.seq > fs.depth.seq
      BY <1>1, <1>2, <2>3 DEF Captured
    <3>2. b.run = fs.depth.run => a.seq > fs.rgb.seq
      BY <1>1, <1>3, <3>1
    <3> QED
      BY <3>2 DEF Newer
  <2> QED
    BY <2>1, <2>2, <2>3
<1>4. Captured(fs.rgb, r, s + 1) /\ Captured(fs.depth, r, s + 1)
  BY <1>1, <1>2, StaysCaptured
<1> QED
  BY <1>3, <1>4 DEF Passed, Behind

\* All of them together.
LEMMA AllPassedOn ==
    ASSUME NEW p, NEW last, NEW shown, NEW r \in Nat, NEW s \in Nat, NEW rgbHeld, NEW depthHeld,
           AllPassed(p, last, shown, r, s, rgbHeld, depthHeld),
           NEW rgbLeft, rgbLeft \subseteq rgbHeld, NEW depthLeft, depthLeft \subseteq depthHeld
    PROVE  /\ AllPassed(p, last, shown, r, s, rgbLeft, depthLeft)
           /\ AllPassed(p, last, shown, r + 1, 0, rgbLeft, depthLeft)
  BY PassedOn DEF AllPassed

\* All of them together, after a capture.
LEMMA AllPassedCapture ==
    ASSUME NEW p, NEW last, NEW shown, NEW r \in Nat, NEW s \in Nat, NEW rgbHeld, NEW depthHeld,
           AllPassed(p, last, shown, r, s, rgbHeld, depthHeld),
           NEW f, f.run = r, f.seq = s + 1,
           NEW rgbMore, rgbMore \subseteq rgbHeld \cup {f},
           NEW depthMore, depthMore \subseteq depthHeld \cup {f}
    PROVE  AllPassed(p, last, shown, r, s + 1, rgbMore, depthMore)
  BY PassedCapture DEF AllPassed

\* A frameset handed over, dropped or read: those behind it stay as they are.
LEMMA LineMoves ==
    ASSUME NEW p \in Seq(Framesets), p # <<>>, NEW last, NEW shown, Line(p, last, shown),
           NEW r, NEW s, NEW R, NEW D, AllPassed(p, last, shown, r, s, R, D)
    PROVE  /\ Line(Tail(p), last, shown) /\ Line(Tail(p), Head(p), shown)
           /\ AllPassed(Tail(p), last, shown, r, s, R, D)
           /\ AllPassed(Tail(p), Head(p), shown, r, s, R, D)
<1> DEFINE t == Tail(p)
           h == Head(p)
<1>1. /\ Len(p) \in Nat /\ Len(p) > 0 /\ t \in Seq(Framesets) /\ Len(t) = Len(p) - 1
      /\ \A i \in 1 .. Len(t) : t[i] = p[i + 1]
      /\ h = p[1]
  BY LenProperties, EmptySeq, HeadTailProperties
<1> HIDE DEF t, h
<1>2. 1 \in 1 .. Len(p) /\ \A i \in 1 .. Len(t) : i + 1 \in 1 .. Len(p) /\ 1 < i + 1
  BY <1>1
<1>3. \A i, j \in 1 .. Len(t) : i < j => Newer(t[j], t[i])
  <2> SUFFICES ASSUME NEW i \in 1 .. Len(t), NEW j \in 1 .. Len(t), i < j PROVE Newer(t[j], t[i])
    OBVIOUS
  <2>1. i + 1 \in 1 .. Len(p) /\ j + 1 \in 1 .. Len(p) /\ i + 1 < j + 1
    BY <1>2
  <2>2. Newer(p[j + 1], p[i + 1])
    BY <2>1 DEF Line
  <2> QED
    BY <1>1, <2>2
<1>4. \A i \in 1 .. Len(t) : Newer(t[i], last) /\ Newer(t[i], shown) /\ Newer(t[i], h)
  <2> SUFFICES ASSUME NEW i \in 1 .. Len(t)
               PROVE  Newer(t[i], last) /\ Newer(t[i], shown) /\ Newer(t[i], h)
    OBVIOUS
  <2>1. t[i] = p[i + 1] /\ i + 1 \in 1 .. Len(p) /\ 1 < i + 1
    BY <1>1, <1>2
  <2> QED
    BY <1>1, <1>2, <2>1 DEF Line
<1>5. Newer(h, shown)
  BY <1>1, <1>2 DEF Line
<1>6. AllPassed(t, last, shown, r, s, R, D) /\ AllPassed(t, h, shown, r, s, R, D)
  <2>1. \A i \in 1 .. Len(t) : Passed(t[i], r, s, R, D)
    BY <1>1, <1>2 DEF AllPassed
  <2>2. Passed(h, r, s, R, D)
    BY <1>1, <1>2 DEF AllPassed
  <2> QED
    BY <1>1, <2>1, <2>2 DEF AllPassed
<1> QED
  BY <1>3, <1>4, <1>5, <1>6 DEF Line, t, h

\* The scene published is of the frameset read last.
LEMMA LineShown ==
    ASSUME NEW p, NEW last, NEW shown, Line(p, last, shown),
           NEW r, NEW s, NEW R, NEW D, AllPassed(p, last, shown, r, s, R, D)
    PROVE  Line(p, last, last) /\ AllPassed(p, last, last, r, s, R, D)
  BY DEF Line, AllPassed

\* A batch whose framesets get newer joins the line: the streams were past the
\* line when it was matched.
LEMMA LineGrows ==
    ASSUME NEW p \in Seq(Framesets), NEW last, NEW shown, Line(p, last, shown),
           NEW batch \in Seq(Framesets),
           \A i \in 1 .. Len(batch) : Newer(batch[i], last) /\ Newer(batch[i], shown),
           \A i \in 1 .. Len(batch), j \in 1 .. Len(p) : Newer(batch[i], p[j]),
           \A i, j \in 1 .. Len(batch) : i < j => Newer(batch[j], batch[i])
    PROVE  Line(p \o batch, last, shown)
<1> DEFINE all == p \o batch
<1>1. /\ Len(p) \in Nat /\ Len(batch) \in Nat /\ Len(all) = Len(p) + Len(batch)
      /\ \A i \in 1 .. Len(p) + Len(batch) : all[i] = IF i <= Len(p) THEN p[i] ELSE batch[i - Len(p)]
  BY LenProperties, ConcatProperties
<1> HIDE DEF all
<1>2. ASSUME NEW i \in 1 .. Len(all)
      PROVE  \/ i \in 1 .. Len(p) /\ all[i] = p[i]
             \/ i > Len(p) /\ i - Len(p) \in 1 .. Len(batch) /\ all[i] = batch[i - Len(p)]
  <2>1. i \in Int /\ i \in 1 .. Len(p) + Len(batch)
    BY <1>1
  <2>2. all[i] = IF i <= Len(p) THEN p[i] ELSE batch[i - Len(p)]
    BY <1>1, <2>1
  <2>3. i <= Len(p) => i \in 1 .. Len(p)
    BY <1>1, <2>1
  <2>4. ~(i <= Len(p)) => i > Len(p) /\ i - Len(p) \in 1 .. Len(batch)
    BY <1>1, <2>1
  <2> QED
    BY <2>2, <2>3, <2>4
<1>3. \A i \in 1 .. Len(all) : Newer(all[i], last) /\ Newer(all[i], shown)
  BY <1>2 DEF Line
<1>4. ASSUME NEW i \in 1 .. Len(all), NEW j \in 1 .. Len(all), i < j
      PROVE  Newer(all[j], all[i])
  <2>1. CASE i \in 1 .. Len(p) /\ all[i] = p[i]
    BY <1>2, <1>4, <2>1 DEF Line
  <2>2. CASE i > Len(p) /\ i - Len(p) \in 1 .. Len(batch) /\ all[i] = batch[i - Len(p)]
    <3>1. j > Len(p) /\ j - Len(p) \in 1 .. Len(batch) /\ all[j] = batch[j - Len(p)]
          /\ i - Len(p) < j - Len(p)
      BY <1>1, <1>2, <1>4, <2>2
    <3> QED
      BY <2>2, <3>1
  <2> QED
    BY <1>2, <2>1, <2>2
<1> QED
  BY <1>3, <1>4 DEF Line, all

-----------------------------------------------------------------------------
(* A match. *)

\* What a buffer has at one of its keys.
LEMMA AtKey ==
    ASSUME NEW buf \in Seq(Frames), NEW key \in Keys(buf)
    PROVE  /\ At(buf, key) \in Frames /\ At(buf, key).seq = key
           /\ \E k \in 1 .. Len(buf) : At(buf, key) = buf[k]
<1>1. DOMAIN buf = 1 .. Len(buf)
  BY LenProperties
<1>2. \E i \in DOMAIN buf : buf[i].seq = key
  BY DEF Keys
<1> DEFINE c == CHOOSE i \in DOMAIN buf : buf[i].seq = key
<1>3. c \in DOMAIN buf /\ buf[c].seq = key
  BY <1>2
<1>4. At(buf, key) = buf[c]
  BY DEF At
<1> HIDE DEF c
<1>5. buf[c] \in Frames
  BY <1>1, <1>3, ElementOfSeq
<1> QED
  BY <1>1, <1>3, <1>4, <1>5

\* The common numbers are finitely many.
LEMMA CommonFinite ==
    ASSUME rgbBuf \in Seq(Frames), depthBuf \in Seq(Frames)
    PROVE  Common \subseteq Int /\ IsFiniteSet(Common)
<1>1. DOMAIN rgbBuf = 1 .. Len(rgbBuf) /\ \A i \in 1 .. Len(rgbBuf) : rgbBuf[i] \in Frames
  BY LenProperties, ElementOfSeq
<1>2. Common \subseteq 1 .. MaxSeq
  BY <1>1 DEF Common, Keys, Frames
<1>3. IsFiniteSet(1 .. MaxSeq)
  BY Bounds, FS_Interval
<1>4. IsFiniteSet(Common)
  BY <1>2, <1>3, FS_Subset
<1>5. 1 .. MaxSeq \subseteq Int
  OBVIOUS
<1> QED
  BY <1>2, <1>4, <1>5

\* The framesets of one match.
Pairs(keys) == [i \in DOMAIN keys |-> [rgb |-> At(rgbBuf, keys[i]), depth |-> At(depthBuf, keys[i])]]

\* fs is made of what the buffers hold under one number.
Made(fs) ==
    /\ fs \in Framesets
    /\ \E k \in 1 .. Len(rgbBuf) : fs.rgb = rgbBuf[k]
    /\ \E k \in 1 .. Len(depthBuf) : fs.depth = depthBuf[k]

\* They are made of the buffers, in the order of their numbers (subscriber.py:195).
LEMMA PairsAreMade ==
    ASSUME rgbBuf \in Seq(Frames), depthBuf \in Seq(Frames), NEW malformed
    PROVE  LET keys == OldestFirst(Common \ malformed)
           IN  /\ Pairs(keys) \in Seq(Framesets)
               /\ (Pairs(keys) = <<>>) <=> (keys = <<>>)
               /\ \A i \in 1 .. Len(Pairs(keys)) : Made(Pairs(keys)[i])
               /\ \A i, j \in 1 .. Len(Pairs(keys)) :
                     i < j => Newer(Pairs(keys)[j], Pairs(keys)[i])
<1> DEFINE S == Common \ malformed
           keys == OldestFirst(S)
           n == Cardinality(S)
           pairs == Pairs(keys)
<1>1. S \subseteq Int /\ IsFiniteSet(S) /\ S \subseteq Common
  BY CommonFinite, FS_Subset
<1> HIDE DEF S
<1>2. /\ n \in Nat /\ keys \in [1 .. n -> S]
      /\ \A j, k \in 1 .. n : j < k => keys[j] < keys[k]
  BY <1>1, AscendingOrder DEF OldestFirst
<1> HIDE DEF n, keys
<1>3. DOMAIN keys = 1 .. n
  BY <1>2
<1>4. \A i \in 1 .. n : keys[i] \in S /\ keys[i] \in Keys(rgbBuf) /\ keys[i] \in Keys(depthBuf)
  BY <1>1, <1>2 DEF Common
<1>5. pairs = [i \in 1 .. n |-> [rgb |-> At(rgbBuf, keys[i]), depth |-> At(depthBuf, keys[i])]]
  BY <1>3 DEF Pairs
<1> HIDE DEF pairs
<1>6. ASSUME NEW i \in 1 .. n
      PROVE  Made(pairs[i]) /\ pairs[i] \in Framesets /\ pairs[i].rgb.seq = keys[i]
  <2>1. /\ At(rgbBuf, keys[i]) \in Frames /\ At(rgbBuf, keys[i]).seq = keys[i]
        /\ \E k \in 1 .. Len(rgbBuf) : At(rgbBuf, keys[i]) = rgbBuf[k]
    BY <1>4, AtKey
  <2>2. /\ At(depthBuf, keys[i]) \in Frames /\ At(depthBuf, keys[i]).seq = keys[i]
        /\ \E k \in 1 .. Len(depthBuf) : At(depthBuf, keys[i]) = depthBuf[k]
    BY <1>4, AtKey
  <2>3. /\ pairs[i] = [rgb |-> At(rgbBuf, keys[i]), depth |-> At(depthBuf, keys[i])]
        /\ pairs[i].rgb = At(rgbBuf, keys[i]) /\ pairs[i].depth = At(depthBuf, keys[i])
    BY <1>5
  <2>4. pairs[i] \in Framesets
    BY <2>1, <2>2, <2>3 DEF Framesets
  <2> QED
    BY <2>1, <2>2, <2>3, <2>4 DEF Made
<1>7. pairs \in [1 .. n -> Framesets]
  BY <1>5, <1>6
<1>8. pairs \in Seq(Framesets) /\ Len(pairs) = n
  BY <1>2, <1>7
<1>9. \A i, j \in 1 .. n : i < j => Newer(pairs[j], pairs[i])
  <2> SUFFICES ASSUME NEW i \in 1 .. n, NEW j \in 1 .. n, i < j PROVE Newer(pairs[j], pairs[i])
    OBVIOUS
  <2>1. keys[i] < keys[j] /\ keys[i] \in Int /\ keys[j] \in Int
    BY <1>1, <1>2
  <2>2. pairs[j].rgb.seq = keys[j] /\ pairs[i].rgb.seq = keys[i]
    BY <1>6
  <2> QED
    BY <2>1, <2>2 DEF Newer
<1>10. (pairs = <<>>) <=> (keys = <<>>)
  <2>1. keys \in Seq(S) /\ Len(keys) = n
    BY <1>2
  <2>2. (keys = <<>>) <=> (n = 0)
    BY <2>1, EmptySeq
  <2>3. (pairs = <<>>) <=> (n = 0)
    BY <1>8, EmptySeq
  <2> QED
    BY <2>2, <2>3
<1> QED
  BY <1>6, <1>8, <1>9, <1>10 DEF pairs, keys, S

\* What is left of a buffer has keys the buffer had.
LEMMA LeftInKeys ==
    ASSUME NEW buf \in Seq(Frames), NEW keys
    PROVE  \A i \in 1 .. Len(Without(buf, keys)) : Without(buf, keys)[i].seq \in Keys(buf)
<1> DEFINE P == {i \in DOMAIN buf : buf[i].seq \notin keys}
<1>1. Without(buf, keys) = Only(buf, P) /\ P \subseteq DOMAIN buf
  BY DEF Without
<1> HIDE DEF P
<1>2. \A k \in 1 .. Len(Only(buf, P)) :
          Ascending(P)[k] \in P /\ Only(buf, P)[k] = buf[Ascending(P)[k]]
  BY <1>1, OnlyProperties
<1> QED
  BY <1>1, <1>2 DEF Keys

\* The streams are past a frameset that was just made: what they still hold of
\* its two runs was in the socket, and so is later, or it would have been matched.
LEMMA MadeIsPassed ==
    ASSUME StreamsInv, NEW fs, Made(fs)
    PROVE  Passed(fs, run, seq, Held(Without(rgbBuf, Common), rgbChannel),
                                Held(Without(depthBuf, Common), depthChannel))
<1> DEFINE rgbLeft == Without(rgbBuf, Common)
           depthLeft == Without(depthBuf, Common)
<1>1. StreamInv(rgbBuf, rgbChannel, run, seq) /\ StreamInv(depthBuf, depthChannel, run, seq)
  BY DEF StreamsInv
<1>2. fs \in Framesets /\ Captured(fs.rgb, run, seq) /\ Captured(fs.depth, run, seq)
  BY <1>1 DEF Made, StreamInv
<1>3. /\ fs.rgb.run \in Nat /\ fs.rgb.seq \in Nat /\ fs.depth.run \in Nat /\ fs.depth.seq \in Nat
      /\ fs.rgb.seq = fs.depth.seq
  BY <1>2, FramesetFields
<1>4. ASSUME NEW i \in 1 .. Len(rgbChannel)
      PROVE  rgbChannel[i].run = fs.rgb.run => rgbChannel[i].seq > fs.rgb.seq
  <2>1. Before(fs.rgb, rgbChannel[i])
    BY <1>1 DEF Made, StreamInv
  <2>2. rgbChannel[i] \in Frames
    BY <1>1, ElementOfSeq DEF StreamInv
  <2> QED
    BY <1>3, <2>1, <2>2, Bounds DEF Before
<1>5. ASSUME NEW i \in 1 .. Len(depthChannel)
      PROVE  depthChannel[i].run = fs.depth.run => depthChannel[i].seq > fs.depth.seq
  <2>1. Before(fs.depth, depthChannel[i])
    BY <1>1 DEF Made, StreamInv
  <2>2. depthChannel[i] \in Frames
    BY <1>1, ElementOfSeq DEF StreamInv
  <2> QED
    BY <1>3, <2>1, <2>2, Bounds DEF Before
<1>6. /\ \A i \in 1 .. Len(rgbLeft) : rgbLeft[i].seq \notin Common
      /\ StreamInv(rgbLeft, rgbChannel, run, seq)
      /\ StreamInv(depthLeft, depthChannel, run, seq)
  BY <1>1, WithoutKeeps
<1>7. ASSUME NEW i \in 1 .. Len(rgbLeft) PROVE rgbLeft[i].seq \in Keys(rgbBuf)
  BY <1>1, LeftInKeys DEF StreamInv
<1>8. ASSUME NEW i \in 1 .. Len(depthLeft) PROVE depthLeft[i].seq \in Keys(depthBuf)
  BY <1>1, LeftInKeys DEF StreamInv
<1> HIDE DEF rgbLeft, depthLeft
<1>9. ASSUME NEW a \in Held(rgbLeft, rgbChannel), NEW b \in Held(depthLeft, depthChannel),
             a.seq = b.seq
      PROVE  Newer([rgb |-> a, depth |-> b], fs)
  <2>1. (\E i \in 1 .. Len(rgbLeft) : a = rgbLeft[i]) \/ (\E i \in 1 .. Len(rgbChannel) : a = rgbChannel[i])
    BY DEF Held
  <2>2. (\E i \in 1 .. Len(depthLeft) : b = depthLeft[i]) \/ (\E i \in 1 .. Len(depthChannel) : b = depthChannel[i])
    BY DEF Held
  <2>3. CASE \E i \in 1 .. Len(rgbChannel) : a = rgbChannel[i]
    <3>1. a.run = fs.rgb.run => a.seq > fs.rgb.seq
      BY <1>4, <2>3
    <3> QED
      BY <3>1 DEF Newer
  <2>4. CASE \E i \in 1 .. Len(depthChannel) : b = depthChannel[i]
    <3>1. b.run = fs.depth.run => a.seq > fs.rgb.seq
      BY <1>3, <1>5, <1>9, <2>4
    <3> QED
      BY <3>1 DEF Newer
  <2>5. ~ ((\E i \in 1 .. Len(rgbLeft) : a = rgbLeft[i]) /\ (\E i \in 1 .. Len(depthLeft) : b = depthLeft[i]))
    BY <1>6, <1>7, <1>8, <1>9 DEF Common
  <2> QED
    BY <2>1, <2>2, <2>3, <2>4, <2>5
<1>10. Behind(fs, Held(rgbLeft, rgbChannel), Held(depthLeft, depthChannel))
  BY <1>9 DEF Behind
<1> QED
  BY <1>2, <1>10 DEF Passed, rgbLeft, depthLeft

\* A frameset that was just made is newer than all the streams were past.
LEMMA MadeIsNewer ==
    ASSUME StreamsInv, NEW fs, Made(fs), NEW old,
           Passed(old, run, seq, Held(rgbBuf, rgbChannel), Held(depthBuf, depthChannel))
    PROVE  Newer(fs, old)
<1>1. fs.rgb \in Held(rgbBuf, rgbChannel) /\ fs.depth \in Held(depthBuf, depthChannel)
  BY DEF Made, Held
<1>2. fs.rgb.seq = fs.depth.seq
  BY FramesetFields DEF Made
<1>3. Newer([rgb |-> fs.rgb, depth |-> fs.depth], old)
  BY <1>1, <1>2 DEF Passed, Behind
<1> QED
  BY <1>3 DEF Newer

-----------------------------------------------------------------------------
(* The line of framesets under the steps of the matcher. *)

\* One that is handed over has changed its place only; to take the oldest out
\* of the queue is to take the first of the line.
LEMMA HandedOver ==
    ASSUME NEW o \in Seq(Framesets), NEW m \in Seq(Framesets)
    PROVE  /\ o \o m \in Seq(Framesets)
           /\ m # <<>> => Append(o, Head(m)) \o Tail(m) = o \o m
           /\ o # <<>> => /\ o \o m # <<>> /\ Head(o \o m) = Head(o)
                          /\ Tail(o \o m) = Tail(o) \o m
           /\ o = <<>> => o \o m = m
<1>1. o \o m \in Seq(Framesets)
  BY ConcatProperties
<1>2. ASSUME m # <<>> PROVE Append(o, Head(m)) \o Tail(m) = o \o m
  <2>1. /\ Head(m) \in Framesets /\ Tail(m) \in Seq(Framesets) /\ <<Head(m)>> \in Seq(Framesets)
        /\ Len(m) \in Nat /\ Len(m) > 0 /\ Len(Tail(m)) = Len(m) - 1
        /\ \A i \in 1 .. Len(Tail(m)) : Tail(m)[i] = m[i + 1]
        /\ Head(m) = m[1]
    BY <1>2, HeadTailProperties, LenProperties, EmptySeq
  <2>2. Append(o, Head(m)) = o \o <<Head(m)>>
    BY <2>1, AppendIsConcat
  <2>3. (o \o <<Head(m)>>) \o Tail(m) = o \o (<<Head(m)>> \o Tail(m))
    BY <2>1, ConcatAssociative
  <2>4. <<Head(m)>> \o Tail(m) = m
    <3> DEFINE h == <<Head(m)>>
               t == Tail(m)
    <3>1. h \in Seq(Framesets) /\ Len(h) = 1 /\ h[1] = m[1]
      BY <2>1
    <3>2. t \in Seq(Framesets) /\ Len(t) = Len(m) - 1 /\ \A i \in 1 .. Len(t) : t[i] = m[i + 1]
      BY <2>1
    <3> HIDE DEF h, t
    <3>3. /\ h \o t \in Seq(Framesets) /\ Len(h \o t) = 1 + Len(t)
          /\ \A i \in 1 .. 1 + Len(t) : (h \o t)[i] = IF i <= 1 THEN h[i] ELSE t[i - 1]
      <4>1. /\ h \o t \in Seq(Framesets) /\ Len(h \o t) = Len(h) + Len(t)
            /\ \A i \in 1 .. Len(h) + Len(t) :
                  (h \o t)[i] = IF i <= Len(h) THEN h[i] ELSE t[i - Len(h)]
        <5>1. h \in Seq(Framesets) /\ t \in Seq(Framesets)
          BY <3>1, <3>2
        <5> QED
          BY <5>1, ConcatProperties, Zenon
      <4> QED
        BY <3>1, <4>1
    <3>4. ASSUME NEW i \in 1 .. Len(h \o t) PROVE (h \o t)[i] = m[i]
      <4>1. i \in 1 .. 1 + Len(t) /\ Len(t) \in Nat
        BY <2>1, <3>2, <3>3
      <4>2. CASE i = 1
        BY <3>1, <3>3, <4>1, <4>2
      <4>3. CASE i # 1
        <5>1. i - 1 \in 1 .. Len(t) /\ ~(i <= 1) /\ i - 1 + 1 = i
          BY <4>1, <4>3
        <5>2. (h \o t)[i] = t[i - 1] /\ t[i - 1] = m[i - 1 + 1]
          BY <3>2, <3>3, <4>1, <5>1
        <5> QED
          BY <5>1, <5>2
      <4> QED
        BY <4>2, <4>3
    <3>5. Len(h \o t) = Len(m)
      BY <2>1, <3>2, <3>3
    <3>6. h \o t = m
      BY <3>3, <3>4, <3>5, SeqEqual
    <3> QED
      BY <3>6 DEF h, t
  <2> QED
    BY <2>2, <2>3, <2>4
<1>3. ASSUME o # <<>> PROVE /\ o \o m # <<>> /\ Head(o \o m) = Head(o)
                            /\ Tail(o \o m) = Tail(o) \o m
  <2> DEFINE p == o \o m
             t == Tail(o) \o m
  <2>1. /\ Len(o) \in Nat /\ Len(o) > 0 /\ Len(m) \in Nat
        /\ Tail(o) \in Seq(Framesets) /\ Len(Tail(o)) = Len(o) - 1
        /\ \A i \in 1 .. Len(Tail(o)) : Tail(o)[i] = o[i + 1]
    BY <1>3, HeadTailProperties, LenProperties, EmptySeq
  <2>2. /\ p \in Seq(Framesets) /\ Len(p) = Len(o) + Len(m)
        /\ \A i \in 1 .. Len(o) + Len(m) : p[i] = IF i <= Len(o) THEN o[i] ELSE m[i - Len(o)]
    BY ConcatProperties
  <2>3. /\ t \in Seq(Framesets) /\ Len(t) = Len(Tail(o)) + Len(m)
        /\ \A i \in 1 .. Len(Tail(o)) + Len(m) :
              t[i] = IF i <= Len(Tail(o)) THEN Tail(o)[i] ELSE m[i - Len(Tail(o))]
    BY <2>1, ConcatProperties
  <2> HIDE DEF p, t
  <2>4. p # <<>> /\ p[1] = o[1]
    <3>1. Len(p) > 0 /\ 1 \in 1 .. Len(o) + Len(m) /\ 1 <= Len(o)
      BY <2>1, <2>2
    <3> QED
      BY <2>2, <3>1, EmptySeq
  <2>5. /\ Tail(p) \in Seq(Framesets) /\ Len(Tail(p)) = Len(p) - 1
        /\ \A i \in 1 .. Len(Tail(p)) : Tail(p)[i] = p[i + 1]
    BY <2>2, <2>4, HeadTailProperties
  <2>6. ASSUME NEW i \in 1 .. Len(t) PROVE t[i] = Tail(p)[i]
    <3>1. i \in 1 .. Len(Tail(o)) + Len(m) /\ i + 1 \in 1 .. Len(o) + Len(m) /\ i \in 1 .. Len(Tail(p))
      BY <2>1, <2>2, <2>3, <2>5
    <3>2. Tail(p)[i] = IF i + 1 <= Len(o) THEN o[i + 1] ELSE m[i + 1 - Len(o)]
      BY <2>2, <2>5, <3>1
    <3>3. t[i] = IF i <= Len(Tail(o)) THEN Tail(o)[i] ELSE m[i - Len(Tail(o))]
      BY <2>3, <3>1
    <3>4. CASE i <= Len(Tail(o))
      <4>1. i \in 1 .. Len(Tail(o)) /\ i + 1 <= Len(o)
        BY <2>1, <3>1, <3>4
      <4> QED
        BY <2>1, <3>2, <3>3, <3>4, <4>1
    <3>5. CASE ~(i <= Len(Tail(o)))
      <4>1. ~(i + 1 <= Len(o)) /\ i + 1 - Len(o) = i - Len(Tail(o))
        BY <2>1, <3>1, <3>5
      <4> QED
        BY <3>2, <3>3, <3>5, <4>1
    <3> QED
      BY <3>4, <3>5
  <2>7. Len(t) = Len(Tail(p))
    BY <2>1, <2>2, <2>3, <2>5
  <2>8. t = Tail(p)
    BY <2>3, <2>5, <2>6, <2>7, SeqEqual
  <2>9. Head(p) = Head(o)
    BY <2>4
  <2> QED
    BY <2>4, <2>8, <2>9 DEF p, t
<1>4. o = <<>> => o \o m = m
  BY ConcatEmptySeq
<1> QED
  BY <1>1, <1>2, <1>3, <1>4

-----------------------------------------------------------------------------
(* The steps. *)

\* At the start nothing is held and nothing waits.
LEMMA SensorInitially == Init => SensorInv
<1> SUFFICES ASSUME Init PROVE SensorInv
  OBVIOUS
<1>1. /\ <<>> \in Seq(Frames) /\ <<>> \in Seq(Framesets) /\ Len(<<>>) = 0 /\ 1 .. 0 = {}
      /\ DOMAIN <<>> = {}
  BY EmptySeq
<1>2. StreamInv(<<>>, <<>>, 1, 0) /\ Held(<<>>, <<>>) = {}
  BY <1>1, Bounds DEF StreamInv, Keyed, Held
<1>3. StreamsInv
  BY <1>2, Bounds DEF Init, StreamsInv
<1>4. pending = <<>>
  BY <1>1, ConcatEmptySeq DEF Init, pending
<1>5. Passed(NoFrameset, 1, 0, {}, {})
  BY DEF Passed, NoFrameset, Captured, Behind
<1>6. PassedInv
  BY <1>1, <1>2, <1>4, <1>5 DEF PassedInv, AllPassed, Init
<1>7. LineInv
  BY <1>1, <1>4 DEF LineInv, Line, Init
<1>8. ControlInv
  <2>1. matched = <<>> /\ out = <<>> /\ Len(out) <= QueueSize
    BY <1>1, Bounds DEF Init
  <2> QED
    BY <1>1, <2>1 DEF Init, ControlInv
<1> QED
  BY <1>3, <1>6, <1>7, <1>8 DEF SensorInv

\* The publisher captures, or starts again.
LEMMA PublisherKeeps ==
    ASSUME SensorInv, Capture \/ RestartPublisher
    PROVE  SensorInv'
<1> USE DEF SensorInv
<1>1. /\ StreamInv(rgbBuf, rgbChannel, run, seq) /\ StreamInv(depthBuf, depthChannel, run, seq)
      /\ run \in 1 .. MaxRuns /\ seq \in 0 .. MaxSeq
      /\ run \in Nat /\ seq \in Nat
  BY Bounds DEF StreamsInv
<1>2. UNCHANGED <<buffers, matcher, matched, out, consumer>>
  BY DEF Capture, RestartPublisher
<1>3. ControlInv' /\ pending' = pending /\ LineInv'
  BY <1>2 DEF ControlInv, LineInv, pending, consumer, reader, lifecycle
<1>4. CASE Capture
  <2> DEFINE f == [run |-> run, seq |-> seq + 1]
  <2>1. seq' = seq + 1 /\ run' = run /\ seq + run <= MaxSeq
        /\ rgbChannel' \in Sent("rgb", rgbChannel, f)
        /\ depthChannel' \in Sent("depth", depthChannel, f)
        /\ rgbBuf' = rgbBuf /\ depthBuf' = depthBuf /\ latest' = latest /\ scene' = scene
    BY <1>2, <1>4 DEF Capture, buffers, consumer, reader
  <2>2. seq + 1 \in 1 .. MaxSeq /\ f \in Frames /\ f.run = run /\ f.seq = seq + 1
    BY <1>1, <2>1, Bounds DEF Frames
  <2> HIDE DEF f
  <2>3. /\ StreamInv(rgbBuf, rgbChannel', run, seq + 1)
        /\ Held(rgbBuf, rgbChannel') \subseteq Held(rgbBuf, rgbChannel) \cup {f}
    BY <1>1, <2>1, <2>2, SentKeeps
  <2>4. /\ StreamInv(depthBuf, depthChannel', run, seq + 1)
        /\ Held(depthBuf, depthChannel') \subseteq Held(depthBuf, depthChannel) \cup {f}
    BY <1>1, <2>1, <2>2, SentKeeps
  <2>5. StreamsInv'
    <3>1. seq + 1 \in 0 .. MaxSeq
      BY <1>1, <2>2
    <3> QED
      BY <1>1, <2>1, <2>3, <2>4, <3>1 DEF StreamsInv
  <2>6. AllPassed(pending, latest, scene, run, seq + 1,
                  Held(rgbBuf, rgbChannel'), Held(depthBuf, depthChannel'))
    BY <1>1, <2>2, <2>3, <2>4, AllPassedCapture DEF PassedInv
  <2>7. PassedInv'
    BY <1>3, <2>1, <2>6 DEF PassedInv
  <2> QED
    BY <1>3, <2>5, <2>7
<1>5. CASE RestartPublisher
  <2>1. /\ run' = run + 1 /\ seq' = 0 /\ run < MaxRuns
        /\ UNCHANGED <<rgbBuf, depthBuf, rgbChannel, depthChannel, latest, scene>>
    BY <1>5 DEF RestartPublisher, channels, buffers, consumer, reader
  <2>2. StreamInv(rgbBuf, rgbChannel, run + 1, 0) /\ StreamInv(depthBuf, depthChannel, run + 1, 0)
    BY <1>1, StreamStays
  <2>3. run + 1 \in 1 .. MaxRuns /\ 0 \in 0 .. MaxSeq
    BY <1>1, <2>1, Bounds
  <2>4. StreamsInv'
    BY <2>1, <2>2, <2>3 DEF StreamsInv
  <2>5. AllPassed(pending, latest, scene, run + 1, 0,
                  Held(rgbBuf, rgbChannel), Held(depthBuf, depthChannel))
    BY <1>1, AllPassedOn DEF PassedInv
  <2>6. PassedInv'
    BY <1>3, <2>1, <2>5 DEF PassedInv
  <2> QED
    BY <1>3, <2>4, <2>6
<1> QED
  BY <1>4, <1>5

\* Streams that hold less than before, in their order, keep all there is.
LEMMA StreamsShrink ==
    ASSUME SensorInv, ControlInv', UNCHANGED <<run, seq, out, matched, latest, scene>>,
           StreamInv(rgbBuf', rgbChannel', run, seq), StreamInv(depthBuf', depthChannel', run, seq),
           Held(rgbBuf', rgbChannel') \subseteq Held(rgbBuf, rgbChannel),
           Held(depthBuf', depthChannel') \subseteq Held(depthBuf, depthChannel)
    PROVE  SensorInv'
<1>1. run \in Nat /\ seq \in Nat
  BY Bounds DEF SensorInv, StreamsInv
<1>2. pending' = pending
  BY DEF pending
<1>3. AllPassed(pending, latest, scene, run, seq,
                Held(rgbBuf', rgbChannel'), Held(depthBuf', depthChannel'))
  BY <1>1, AllPassedOn DEF SensorInv, PassedInv
<1>4. PassedInv'
  BY <1>2, <1>3 DEF PassedInv
<1>5. StreamsInv' /\ LineInv'
  BY <1>2 DEF SensorInv, StreamsInv, LineInv
<1> QED
  BY <1>4, <1>5 DEF SensorInv

\* A stream thread stores a frame, or ends and closes its socket.
LEMMA StreamsKeep ==
    ASSUME SensorInv,
           ReceiveRgb \/ ReceiveDepth \/ \E stream \in {"rgb", "depth"} : StreamEnds(stream)
    PROVE  SensorInv'
<1>1. /\ StreamInv(rgbBuf, rgbChannel, run, seq) /\ StreamInv(depthBuf, depthChannel, run, seq)
      /\ ControlInv
  BY DEF SensorInv, StreamsInv
<1>2. CASE ReceiveRgb
  <2>1. /\ rgbBuf' = Store(rgbBuf, Head(rgbChannel)) /\ rgbChannel' = Tail(rgbChannel)
        /\ rgbChannel # <<>> /\ depthBuf' = depthBuf /\ depthChannel' = depthChannel
        /\ UNCHANGED <<run, seq, out, matched, latest, scene>>
    BY <1>2 DEF ReceiveRgb, publisher, consumer, reader
  <2>2. ControlInv'
    BY <1>1, <1>2 DEF ReceiveRgb, ControlInv, consumer, reader, lifecycle
  <2>3. /\ StreamInv(rgbBuf', rgbChannel', run, seq)
        /\ Held(rgbBuf', rgbChannel') \subseteq Held(rgbBuf, rgbChannel)
    BY <1>1, <2>1, StoreKeeps
  <2> QED
    BY <1>1, <2>1, <2>2, <2>3, StreamsShrink
<1>3. CASE ReceiveDepth
  <2>1. /\ depthBuf' = Store(depthBuf, Head(depthChannel)) /\ depthChannel' = Tail(depthChannel)
        /\ depthChannel # <<>> /\ rgbBuf' = rgbBuf /\ rgbChannel' = rgbChannel
        /\ UNCHANGED <<run, seq, out, matched, latest, scene>>
    BY <1>3 DEF ReceiveDepth, publisher, consumer, reader
  <2>2. ControlInv'
    BY <1>1, <1>3 DEF ReceiveDepth, ControlInv, consumer, reader, lifecycle
  <2>3. /\ StreamInv(depthBuf', depthChannel', run, seq)
        /\ Held(depthBuf', depthChannel') \subseteq Held(depthBuf, depthChannel)
    BY <1>1, <2>1, StoreKeeps
  <2> QED
    BY <1>1, <2>1, <2>2, <2>3, StreamsShrink
<1>4. ASSUME NEW stream \in {"rgb", "depth"}, StreamEnds(stream) PROVE SensorInv'
  <2>1. /\ rgbChannel' \in {<<>>, rgbChannel} /\ depthChannel' \in {<<>>, depthChannel}
        /\ rgbBuf' = rgbBuf /\ depthBuf' = depthBuf
        /\ UNCHANGED <<run, seq, out, matched, latest, scene>>
    BY <1>4 DEF StreamEnds, publisher, buffers, reader
  <2>2. ControlInv'
    BY <1>1, <1>4 DEF StreamEnds, ControlInv, reader
  <2>3. /\ StreamInv(rgbBuf', rgbChannel', run, seq)
        /\ Held(rgbBuf', rgbChannel') \subseteq Held(rgbBuf, rgbChannel)
        /\ StreamInv(depthBuf', depthChannel', run, seq)
        /\ Held(depthBuf', depthChannel') \subseteq Held(depthBuf, depthChannel)
    BY <1>1, <2>1, ClosingKeeps
  <2> QED
    BY <2>1, <2>2, <2>3, StreamsShrink
<1> QED
  BY <1>2, <1>3, <1>4

\* A match: the batch joins the line, the buffers lose what is common.
LEMMA MatchKeeps ==
    ASSUME SensorInv, NEW malformed, Match(malformed)
    PROVE  SensorInv'
<1>1. /\ StreamInv(rgbBuf, rgbChannel, run, seq) /\ StreamInv(depthBuf, depthChannel, run, seq)
      /\ ControlInv /\ StreamsInv /\ PassedInv /\ LineInv /\ run \in Nat /\ seq \in Nat
      /\ rgbBuf \in Seq(Frames) /\ depthBuf \in Seq(Frames)
  BY Bounds DEF SensorInv, StreamsInv, StreamInv
<1> DEFINE keys == OldestFirst(Common \ malformed)
           pairs == Pairs(keys)
           rgbLeft == Without(rgbBuf, Common)
           depthLeft == Without(depthBuf, Common)
           R == Held(rgbLeft, rgbChannel)
           D == Held(depthLeft, depthChannel)
<1>2. /\ matcher = "match" /\ matched' = pairs
      /\ matcher' = IF keys = <<>> THEN "match" ELSE "put"
      /\ rgbBuf' = rgbLeft /\ depthBuf' = depthLeft
      /\ UNCHANGED <<run, seq, rgbChannel, depthChannel, out, latest, scene, perception, aged,
                     once, stop, stopped, streams>>
  BY DEF Match, Pairs, publisher, channels, consumer, reader, lifecycle
<1>3. /\ pairs \in Seq(Framesets)
      /\ (pairs = <<>>) <=> (keys = <<>>)
      /\ \A i \in 1 .. Len(pairs) : Made(pairs[i])
      /\ \A i, j \in 1 .. Len(pairs) : i < j => Newer(pairs[j], pairs[i])
  BY <1>1, PairsAreMade
<1>4. /\ StreamInv(rgbLeft, rgbChannel, run, seq) /\ R \subseteq Held(rgbBuf, rgbChannel)
      /\ StreamInv(depthLeft, depthChannel, run, seq) /\ D \subseteq Held(depthBuf, depthChannel)
  BY <1>1, WithoutKeeps
<1>5. \A i \in 1 .. Len(pairs) : Passed(pairs[i], run, seq, R, D)
  BY <1>1, <1>3, MadeIsPassed
<1> HIDE DEF keys, pairs, rgbLeft, depthLeft
<1>6. pending = out /\ out \in Seq(Framesets) /\ pending' = out \o pairs
  <2>1. matched = <<>> /\ out \in Seq(Framesets)
    BY <1>1, <1>2 DEF ControlInv
  <2> QED
    BY <1>2, <2>1, ConcatEmptySeq DEF pending
<1>7. /\ Passed(scene, run, seq, Held(rgbBuf, rgbChannel), Held(depthBuf, depthChannel))
      /\ Passed(latest, run, seq, Held(rgbBuf, rgbChannel), Held(depthBuf, depthChannel))
      /\ \A i \in 1 .. Len(out) :
            Passed(out[i], run, seq, Held(rgbBuf, rgbChannel), Held(depthBuf, depthChannel))
  BY <1>1, <1>6 DEF PassedInv, AllPassed
<1>8. Line(out \o pairs, latest, scene)
  <2>1. \A i \in 1 .. Len(pairs) : Newer(pairs[i], latest) /\ Newer(pairs[i], scene)
    BY <1>1, <1>3, <1>7, MadeIsNewer
  <2>2. \A i \in 1 .. Len(pairs), j \in 1 .. Len(out) : Newer(pairs[i], out[j])
    BY <1>1, <1>3, <1>7, MadeIsNewer
  <2>3. Line(out, latest, scene)
    BY <1>1, <1>6 DEF LineInv
  <2> QED
    BY <1>3, <1>6, <2>1, <2>2, <2>3, LineGrows
<1>9. AllPassed(out, latest, scene, run, seq, R, D)
  BY <1>1, <1>4, <1>6, AllPassedOn DEF PassedInv
<1> HIDE DEF R, D
<1>10. AllPassed(out \o pairs, latest, scene, run, seq, R, D)
  <2>1. /\ out \o pairs \in Seq(Framesets) /\ Len(out) \in Nat /\ Len(pairs) \in Nat
        /\ Len(out \o pairs) = Len(out) + Len(pairs)
        /\ \A i \in 1 .. Len(out) + Len(pairs) :
              (out \o pairs)[i] = IF i <= Len(out) THEN out[i] ELSE pairs[i - Len(out)]
    BY <1>3, <1>6, ConcatProperties, LenProperties
  <2>2. ASSUME NEW i \in 1 .. Len(out \o pairs) PROVE Passed((out \o pairs)[i], run, seq, R, D)
    <3>1. i \in 1 .. Len(out) + Len(pairs) /\ i \in Int
      BY <2>1
    <3>2. CASE i <= Len(out)
      <4>1. i \in 1 .. Len(out) /\ (out \o pairs)[i] = out[i]
        BY <2>1, <3>1, <3>2
      <4> QED
        BY <1>9, <4>1 DEF AllPassed
    <3>3. CASE ~(i <= Len(out))
      <4>1. i - Len(out) \in 1 .. Len(pairs) /\ (out \o pairs)[i] = pairs[i - Len(out)]
        BY <2>1, <3>1, <3>3
      <4> QED
        BY <1>5, <4>1
    <3> QED
      BY <3>2, <3>3
  <2> QED
    BY <1>9, <2>1, <2>2 DEF AllPassed
<1>11. PassedInv'
  BY <1>2, <1>6, <1>10 DEF PassedInv, R, D
<1>12. LineInv'
  BY <1>2, <1>6, <1>8 DEF LineInv
<1>13. StreamsInv'
  BY <1>1, <1>2, <1>4 DEF StreamsInv
<1>14. ControlInv'
  BY <1>1, <1>2, <1>3 DEF ControlInv
<1> QED
  BY <1>11, <1>12, <1>13, <1>14 DEF SensorInv

\* The line gets shorter at its front, or moves on by one, while the streams
\* stay: p, last and shown are what becomes of it.
LEMMA LineKeeps ==
    ASSUME SensorInv, ControlInv',
           UNCHANGED <<run, seq, rgbBuf, rgbChannel, depthBuf, depthChannel>>,
           \/ pending' = pending /\ latest' = latest /\ scene' = scene
           \/ pending' = pending /\ latest' = latest /\ scene' = latest
           \/ pending # <<>> /\ pending' = Tail(pending) /\ latest' = latest /\ scene' = scene
           \/ pending # <<>> /\ pending' = Tail(pending) /\ latest' = Head(pending) /\ scene' = scene
    PROVE  SensorInv'
<1> DEFINE R == Held(rgbBuf, rgbChannel)
           D == Held(depthBuf, depthChannel)
<1>1. /\ AllPassed(pending, latest, scene, run, seq, R, D) /\ Line(pending, latest, scene)
      /\ pending \in Seq(Framesets) /\ StreamsInv
  BY DEF SensorInv, PassedInv, LineInv, AllPassed
<1>2. StreamsInv'
  BY <1>1 DEF StreamsInv
<1> HIDE DEF R, D
<1>3. AllPassed(pending', latest', scene', run, seq, R, D) /\ Line(pending', latest', scene')
  BY <1>1, LineMoves, LineShown
<1>4. PassedInv' /\ LineInv'
  BY <1>3 DEF PassedInv, LineInv, R, D
<1> QED
  BY <1>2, <1>4 DEF SensorInv

\* The matcher hands framesets over.
LEMMA MatcherKeeps ==
    ASSUME SensorInv, Put \/ PutTimesOut \/ DropOldest \/ MatcherEnds
    PROVE  SensorInv'
<1>1. /\ ControlInv /\ out \in Seq(Framesets) /\ matched \in Seq(Framesets)
      /\ Len(out) \in Nat /\ QueueSize \in Nat
  BY LenProperties, Bounds DEF SensorInv, ControlInv
<1>2. UNCHANGED <<run, seq, rgbBuf, rgbChannel, depthBuf, depthChannel, latest, scene, perception,
                  aged, once, stop, stopped, streams>>
  BY DEF Put, PutTimesOut, DropOldest, MatcherEnds, publisher, channels, buffers, consumer, reader,
         lifecycle
<1>3. ASSUME matched # <<>>, NextFrameset
      PROVE  /\ matched' = Tail(matched) /\ matched' \in Seq(Framesets)
             /\ matcher' \in {"match", "put"} /\ (matcher' = "put" <=> matched' # <<>>)
             /\ Head(matched) \in Framesets
  BY <1>1, <1>3, HeadTailProperties DEF NextFrameset
<1>4. CASE Put
  <2>1. matched # <<>> /\ NextFrameset /\ out' = Append(out, Head(matched)) /\ Len(out) < QueueSize
    BY <1>1, <1>4 DEF Put, ControlInv
  <2>2. out' \in Seq(Framesets) /\ Len(out') = Len(out) + 1
    BY <1>1, <1>3, <2>1, AppendProperties
  <2>3. Len(out') <= QueueSize
    BY <1>1, <2>1, <2>2
  <2>4. ControlInv'
    BY <1>1, <1>2, <1>3, <2>1, <2>2, <2>3 DEF ControlInv
  <2>5. pending' = pending
    <3>1. Append(out, Head(matched)) \o Tail(matched) = out \o matched
      BY <1>1, <2>1, HandedOver
    <3>2. matched' = Tail(matched)
      BY <1>3, <2>1
    <3> QED
      BY <2>1, <3>1, <3>2 DEF pending
  <2> QED
    BY <1>2, <2>4, <2>5, LineKeeps
<1>5. CASE DropOldest
  <2>1. matched # <<>> /\ NextFrameset
        /\ out' = IF out = <<>> THEN out ELSE Append(Tail(out), Head(matched))
    BY <1>1, <1>5 DEF DropOldest, ControlInv
  <2>2. out' \in Seq(Framesets) /\ Len(out') <= QueueSize
    <3>1. CASE out = <<>>
      BY <1>1, <2>1, <3>1 DEF ControlInv
    <3>2. CASE out # <<>>
      <4>1. Tail(out) \in Seq(Framesets) /\ Len(Tail(out)) = Len(out) - 1
        BY <1>1, <3>2, HeadTailProperties
      <4>2. out' \in Seq(Framesets) /\ Len(out') = Len(Tail(out)) + 1
        BY <1>3, <2>1, <3>2, <4>1, AppendProperties
      <4>3. Len(out) <= QueueSize
        BY <1>1 DEF ControlInv
      <4> QED
        BY <1>1, <4>1, <4>2, <4>3
    <3> QED
      BY <3>1, <3>2
  <2>3. ControlInv'
    BY <1>1, <1>2, <1>3, <2>1, <2>2 DEF ControlInv
  <2>4. pending # <<>> /\ pending' = Tail(pending)
    <3>1. CASE out = <<>>
      <4>1. pending = matched
        BY <1>1, <3>1, HandedOver DEF pending
      <4>2. pending' = <<>> \o Tail(matched) /\ Tail(matched) \in Seq(Framesets)
        BY <1>3, <2>1, <3>1 DEF pending
      <4> QED
        BY <2>1, <4>1, <4>2, ConcatEmptySeq
    <3>2. CASE out # <<>>
      <4>1. Tail(out) \in Seq(Framesets)
        BY <1>1, <3>2, HeadTailProperties
      <4>2. Append(Tail(out), Head(matched)) \o Tail(matched) = Tail(out) \o matched
        BY <1>1, <2>1, <4>1, HandedOver
      <4>3. pending # <<>> /\ Tail(pending) = Tail(out) \o matched
        BY <1>1, <3>2, HandedOver DEF pending
      <4>4. pending' = Append(Tail(out), Head(matched)) \o Tail(matched)
        BY <1>3, <2>1, <3>2 DEF pending
      <4> QED
        BY <4>2, <4>3, <4>4
    <3> QED
      BY <3>1, <3>2
  <2> QED
    BY <1>2, <2>3, <2>4, LineKeeps
<1>6. CASE PutTimesOut \/ MatcherEnds
  <2>1. ControlInv' /\ pending' = pending
    BY <1>1, <1>2, <1>6 DEF PutTimesOut, MatcherEnds, ControlInv, pending
  <2> QED
    BY <1>2, <2>1, LineKeeps
<1> QED
  BY <1>4, <1>5, <1>6

\* The perception loop reads the first of the line and shows what it read last.
LEMMA PerceptionKeeps ==
    ASSUME SensorInv, Drain \/ Drained \/ Age \/ Tick \/ GiveUp \/ Signal
    PROVE  SensorInv'
<1>1. ControlInv /\ out \in Seq(Framesets) /\ matched \in Seq(Framesets)
  BY DEF SensorInv, ControlInv
<1>2. UNCHANGED <<run, seq, rgbBuf, rgbChannel, depthBuf, depthChannel, matcher, matched, streams>>
  BY DEF Drain, Drained, Age, Tick, GiveUp, Signal, publisher, channels, buffers, lifecycle
<1>3. CASE Drain
  <2>1. out # <<>> /\ latest' = Head(out) /\ out' = Tail(out) /\ aged' = FALSE
        /\ UNCHANGED <<perception, scene, once, stop, stopped>>
    BY <1>3 DEF Drain, lifecycle
  <2>2. out' \in Seq(Framesets) /\ Len(out') <= QueueSize
    <3>1. /\ Tail(out) \in Seq(Framesets) /\ Len(Tail(out)) = Len(out) - 1
          /\ Len(out) \in Nat /\ Len(out) <= QueueSize
      BY <1>1, <2>1, HeadTailProperties, LenProperties DEF ControlInv
    <3> QED
      BY <2>1, <3>1, Bounds
  <2>3. ControlInv'
    BY <1>1, <1>2, <2>1, <2>2 DEF ControlInv
  <2>4. pending # <<>> /\ pending' = Tail(pending) /\ latest' = Head(pending)
    BY <1>1, <1>2, <2>1, HandedOver DEF pending
  <2> QED
    BY <1>2, <2>1, <2>3, <2>4, LineKeeps
<1>4. CASE Drained \/ Age \/ GiveUp \/ Signal
  <2>1. out' = out /\ latest' = latest /\ scene' = scene
    BY <1>4 DEF Drained, Age, GiveUp, Signal, reader
  <2>2. ControlInv'
    BY <1>1, <1>2, <1>4, <2>1 DEF Drained, Age, GiveUp, LeaveLoop, Signal, ControlInv, reader, lifecycle
  <2>3. pending' = pending
    BY <1>2, <2>1 DEF pending
  <2> QED
    BY <1>2, <2>1, <2>2, <2>3, LineKeeps
<1>5. CASE Tick
  <2>1. out' = out /\ latest' = latest /\ (scene' = scene \/ scene' = latest)
        /\ perception' \in {"closing", "drain"} /\ stopped' \in {TRUE, stopped}
        /\ UNCHANGED <<aged, once, stop>>
    BY <1>5 DEF Tick, LeaveLoop, NextRound
  <2>2. ControlInv'
    BY <1>1, <1>2, <2>1 DEF ControlInv
  <2>3. pending' = pending
    BY <1>2, <2>1 DEF pending
  <2> QED
    BY <1>2, <2>1, <2>2, <2>3, LineKeeps
<1> QED
  BY <1>3, <1>4, <1>5

\* The process ends with its buffers and its queue.
LEMMA ExitKeeps == ASSUME SensorInv, Exit PROVE SensorInv'
<1>1. /\ ControlInv /\ StreamInv(rgbBuf, rgbChannel, run, seq)
      /\ StreamInv(depthBuf, depthChannel, run, seq)
      /\ run \in 1 .. MaxRuns /\ seq \in 0 .. MaxSeq /\ run \in Nat /\ seq \in Nat
      /\ AllPassed(pending, latest, scene, run, seq,
                   Held(rgbBuf, rgbChannel), Held(depthBuf, depthChannel))
      /\ Line(pending, latest, scene)
  BY Bounds DEF SensorInv, StreamsInv, PassedInv, LineInv
<1>2. /\ matcher' = "over" /\ perception' = "gone"
      /\ rgbBuf' = <<>> /\ depthBuf' = <<>> /\ matched' = <<>> /\ out' = <<>>
      /\ UNCHANGED <<run, seq, rgbChannel, depthChannel, latest, scene, aged, once, stop, stopped,
                     streams>>
  BY DEF Exit, publisher, channels, reader, lifecycle
<1>3. /\ <<>> \in Seq(Frames) /\ <<>> \in Seq(Framesets) /\ Len(<<>>) = 0 /\ 1 .. 0 = {}
      /\ DOMAIN <<>> = {}
  BY EmptySeq
<1>4. Keyed(<<>>)
  BY <1>3 DEF Keyed
<1>5. Len(<<>>) <= BufferSize /\ Len(<<>>) <= QueueSize
  BY <1>3, Bounds
<1>6. \A i \in 1 .. Len(<<>>) : FALSE
  BY <1>3
<1>7. /\ StreamInv(<<>>, rgbChannel, run, seq)
      /\ Held(<<>>, rgbChannel) \subseteq Held(rgbBuf, rgbChannel)
  BY <1>1, <1>3, <1>4, <1>5, <1>6, LeavingKeeps
<1>8. /\ StreamInv(<<>>, depthChannel, run, seq)
      /\ Held(<<>>, depthChannel) \subseteq Held(depthBuf, depthChannel)
  BY <1>1, <1>3, <1>4, <1>5, <1>6, LeavingKeeps
<1>9. pending' = <<>>
  BY <1>2, <1>3, ConcatEmptySeq DEF pending
<1>10. AllPassed(pending, latest, scene, run, seq,
                 Held(<<>>, rgbChannel), Held(<<>>, depthChannel))
  BY <1>1, <1>7, <1>8, AllPassedOn
<1>11. AllPassed(<<>>, latest, scene, run, seq,
                 Held(<<>>, rgbChannel), Held(<<>>, depthChannel))
  BY <1>3, <1>10 DEF AllPassed
<1>12. PassedInv'
  BY <1>2, <1>9, <1>11 DEF PassedInv
<1>13. LineInv'
  BY <1>1, <1>2, <1>3, <1>9 DEF Line, LineInv
<1>14. StreamsInv'
  BY <1>1, <1>2, <1>7, <1>8 DEF StreamsInv
<1>15. ControlInv'
  BY <1>1, <1>2, <1>3, <1>5 DEF ControlInv
<1> QED
  BY <1>12, <1>13, <1>14, <1>15 DEF SensorInv

\* Nothing changes.
LEMMA StutterKeeps == ASSUME SensorInv, UNCHANGED vars PROVE SensorInv'
<1>1. /\ ControlInv' /\ UNCHANGED <<run, seq, rgbBuf, rgbChannel, depthBuf, depthChannel, latest, scene>>
      /\ pending' = pending
  BY DEF SensorInv, ControlInv, vars, publisher, channels, buffers, consumer, reader, lifecycle, pending
<1> QED
  BY <1>1, LineKeeps

\* The order of the streams and of the line holds in every reachable state.
LEMMA SensorInvHolds == Spec => []SensorInv
<1>1. SensorInv /\ [Next]_vars => SensorInv'
  <2> SUFFICES ASSUME SensorInv, [Next]_vars PROVE SensorInv'
    OBVIOUS
  <2>1. CASE Capture \/ RestartPublisher
    BY <2>1, PublisherKeeps
  <2>2. CASE ReceiveRgb \/ ReceiveDepth \/ \E stream \in {"rgb", "depth"} : StreamEnds(stream)
    BY <2>2, StreamsKeep
  <2>3. ASSUME NEW malformed \in SUBSET Common, Match(malformed) PROVE SensorInv'
    BY <2>3, MatchKeeps
  <2>4. CASE Put \/ PutTimesOut \/ DropOldest \/ MatcherEnds
    BY <2>4, MatcherKeeps
  <2>5. CASE Drain \/ Drained \/ Age \/ Tick \/ GiveUp \/ Signal
    BY <2>5, PerceptionKeeps
  <2>6. CASE Exit
    BY <2>6, ExitKeeps
  <2>7. CASE Gone \/ UNCHANGED vars
    BY <2>7, StutterKeeps DEF Gone
  <2> QED
    BY <2>1, <2>2, <2>3, <2>4, <2>5, <2>6, <2>7 DEF Next
<1> QED
  BY SensorInitially, <1>1, PTL DEF Spec

\* Every variable keeps its type and its bound: the buffers have one frame to a
\* number and, like the queue, never more than they have room for, also while
\* the consumer sleeps (subscriber.py:65, 161-163, 179-191).
THEOREM SensorTypes == Spec => []TypeOK
<1>1. SensorInv => TypeOK
  <2> SUFFICES ASSUME SensorInv PROVE TypeOK
    OBVIOUS
  <2>1. latest \in Framesets \cup {NoFrameset} /\ scene \in Framesets \cup {NoFrameset}
    BY DEF SensorInv, PassedInv, AllPassed, Passed
  <2> QED
    BY <2>1 DEF SensorInv, ControlInv, StreamsInv, StreamInv, TypeOK
<1> QED
  BY SensorInvHolds, <1>1, PTL

\* For any number of restarts of the publisher, of losses and of drops, and any
\* sizes of the buffers and the queue, a scene is of a later frame than the one
\* before it, or of another run of a publisher (subscriber.py:183-191, 195).
THEOREM ScenesDoAdvance == Spec => ScenesAdvance
<1>1. SensorInv /\ [Next]_vars => [scene' # scene => Newer(scene', scene)]_vars
  <2> SUFFICES ASSUME SensorInv, Next, scene' # scene PROVE Newer(scene', scene)
    OBVIOUS
  <2>1. scene' = latest
    BY DEF Next, Capture, RestartPublisher, ReceiveRgb, ReceiveDepth, Match, Put, PutTimesOut,
       DropOldest, Drain, Drained, Age, Tick, Signal, GiveUp, Exit, Gone, MatcherEnds, StreamEnds,
       vars, consumer, reader
  <2> QED
    BY <2>1 DEF SensorInv, LineInv, Line
<1> QED
  BY SensorInvHolds, <1>1, PTL DEF Spec, ScenesAdvance

\* What the service reads: a frameset is newer than the one read before it, and
\* those still to come are newer than both, in the order they are to be read, so
\* that neither the drop of the oldest nor a race for it disturbs the order
\* (subscriber.py:179-191, 195).
ReadsAdvance ==
    [][latest' # latest =>
          /\ Newer(latest', latest)
          /\ \A i \in DOMAIN (out \o matched)' :
                Newer((out \o matched)'[i], latest') /\ Newer((out \o matched)'[i], latest)]_vars

\* For any sizes, losses and restarts: the queue between two threads that both
\* take from it is a lossy line.
THEOREM ReadsDoAdvance == Spec => ReadsAdvance
<1>1. SensorInv /\ [Next]_vars =>
          [latest' # latest =>
              /\ Newer(latest', latest)
              /\ \A i \in DOMAIN pending' :
                    Newer(pending'[i], latest') /\ Newer(pending'[i], latest)]_vars
  <2> SUFFICES ASSUME SensorInv, Next, latest' # latest
               PROVE  /\ Newer(latest', latest)
                      /\ \A i \in DOMAIN pending' :
                            Newer(pending'[i], latest') /\ Newer(pending'[i], latest)
    OBVIOUS
  <2>1. Drain
    BY DEF Next, Capture, RestartPublisher, ReceiveRgb, ReceiveDepth, Match, Put, PutTimesOut,
       DropOldest, Drained, Age, Tick, Signal, GiveUp, Exit, Gone, MatcherEnds, StreamEnds,
       vars, consumer, reader
  <2>2. /\ out \in Seq(Framesets) /\ matched \in Seq(Framesets) /\ pending \in Seq(Framesets)
        /\ Line(pending, latest, scene)
    BY ConcatProperties DEF SensorInv, ControlInv, LineInv, pending
  <2>3. out # <<>> /\ latest' = Head(out) /\ out' = Tail(out) /\ matched' = matched
    BY <2>1 DEF Drain
  <2>4. pending # <<>> /\ pending' = Tail(pending) /\ latest' = Head(pending)
    BY <2>2, <2>3, HandedOver DEF pending
  <2>5. /\ Len(pending) \in Nat /\ Len(pending) > 0 /\ Len(pending') = Len(pending) - 1
        /\ DOMAIN pending' = 1 .. Len(pending')
        /\ \A i \in 1 .. Len(pending') : pending'[i] = pending[i + 1]
        /\ latest' = pending[1]
    BY <2>2, <2>4, LenProperties, EmptySeq, HeadTailProperties
  <2>6. ASSUME NEW i \in 1 .. Len(pending')
        PROVE  Newer(pending'[i], latest') /\ Newer(pending'[i], latest)
    <3>1. pending'[i] = pending[i + 1] /\ 1 \in 1 .. Len(pending) /\ i + 1 \in 1 .. Len(pending)
          /\ 1 < i + 1
      BY <2>5
    <3> QED
      BY <2>2, <2>5, <3>1 DEF Line
  <2>7. Newer(latest', latest)
    BY <2>2, <2>5 DEF Line
  <2> QED
    BY <2>5, <2>6, <2>7
<1> QED
  BY SensorInvHolds, <1>1, PTL DEF Spec, ReadsAdvance, pending

\* While the publisher is not restarted, the color and the depth image of every
\* frameset were captured together, whatever is lost of either stream
\* (subscriber.py:4-7); SensorRestart shows what one restart does to this.
THEOREM OneRunIsSynchronized ==
    ASSUME MaxRuns = 1
    PROVE  Spec => []Synchronized
<1>1. TypeOK => Synchronized
  <2> SUFFICES ASSUME TypeOK, NEW i \in DOMAIN out PROVE out[i].rgb = out[i].depth
    BY DEF Synchronized
  <2>1. out[i] \in Framesets
    BY LenProperties, ElementOfSeq DEF TypeOK
  <2>2. out[i].rgb \in Frames /\ out[i].depth \in Frames /\ out[i].rgb.seq = out[i].depth.seq
    BY <2>1 DEF Framesets
  <2>3. out[i].rgb.run = 1 /\ out[i].depth.run = 1
    BY <2>2 DEF Frames
  <2>4. /\ out[i].rgb = [run |-> out[i].rgb.run, seq |-> out[i].rgb.seq]
        /\ out[i].depth = [run |-> out[i].depth.run, seq |-> out[i].depth.seq]
    BY <2>2 DEF Frames
  <2> QED
    BY <2>2, <2>3, <2>4
<1> QED
  BY SensorTypes, <1>1, PTL
=============================================================================
