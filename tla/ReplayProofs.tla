---------------------------- MODULE ReplayProofs ----------------------------
(***************************************************************************)
(* What a recording keeps and what a playback publishes, for every stream, *)
(* set of channels, moment of a crash, speed and number of passes.         *)
(***************************************************************************)
EXTENDS Replay, EnumerationProofs, TLAPS

-----------------------------------------------------------------------------
(* The timing of a playback. *)

Due(entry) == entry.at >= began + Offset(entry.record)

\* Nothing is out before a pass, each pass is timed from its own beginning, and
\* what it has published was due.
TimingInv ==
    /\ \E S : sent \in Seq(S)
    /\ pc \in {"record", "reading", "flushing", "recorded", "joining"} => sent = <<>>
    /\ pc = "pacing" => tZero = began
    /\ \A i \in DOMAIN sent : Due(sent[i])

\* Nothing has been published at first.
LEMMA TimingInitially == Init => TimingInv
<1> SUFFICES ASSUME Init PROVE TimingInv
  OBVIOUS
<1>1. sent = <<>> /\ <<>> \in Seq({}) /\ DOMAIN <<>> = {}
  BY EmptySeq DEF Init
<1>2. pc # "pacing"
  BY DEF Init
<1> QED
  BY <1>1, <1>2 DEF TimingInv

\* A record is added to the end once it is due.
LEMMA SendKeepsTiming == ASSUME TimingInv, Send PROVE TimingInv'
<1> DEFINE entry == [record |-> records[next], at |-> now]
<1>1. PICK S : sent \in Seq(S)
  BY DEF TimingInv
<1>2. /\ pc = "pacing" /\ tZero = began /\ now >= tZero + Offset(records[next])
      /\ sent' \in {sent, Append(sent, entry)}
      /\ UNCHANGED <<pc, speed, records, tZero, began>>
  BY DEF Send, TimingInv
<1>3. \A e : Due(e)' <=> Due(e)
  BY <1>2 DEF Due, Offset
<1>4. Due(entry)
  BY <1>2 DEF Due
<1> HIDE DEF entry
<1>5. CASE sent' = sent
  BY <1>2, <1>3, <1>5 DEF TimingInv
<1>6. CASE sent' = Append(sent, entry)
  <2>1. sent \in Seq(S \cup {entry})
    BY <1>1, SeqMonotonic
  <2>2. /\ sent' \in Seq(S \cup {entry}) /\ Len(sent') = Len(sent) + 1 /\ Len(sent) \in Nat
        /\ DOMAIN sent = 1 .. Len(sent) /\ DOMAIN sent' = 1 .. Len(sent) + 1
        /\ \A i \in 1 .. Len(sent) : sent'[i] = sent[i]
        /\ sent'[Len(sent) + 1] = entry
    <3>1. /\ sent' \in Seq(S \cup {entry}) /\ Len(sent') = Len(sent) + 1
          /\ \A i \in 1 .. Len(sent) : sent'[i] = sent[i]
          /\ sent'[Len(sent) + 1] = entry
      BY <1>6, <2>1, AppendProperties
    <3> QED
      BY <2>1, <3>1, LenProperties
  <2>3. \A i \in DOMAIN sent : Due(sent[i])
    BY DEF TimingInv
  <2>4. \A i \in DOMAIN sent' : Due(sent'[i])
    <3> SUFFICES ASSUME NEW i \in DOMAIN sent' PROVE Due(sent'[i])
      OBVIOUS
    <3>1. i \in DOMAIN sent \/ i = Len(sent) + 1
      BY <2>2
    <3>2. CASE i \in DOMAIN sent
      BY <2>2, <2>3, <3>2
    <3>3. CASE i = Len(sent) + 1
      BY <1>4, <2>2, <3>3
    <3> QED
      BY <3>1, <3>2, <3>3
  <2>5. (\A i \in DOMAIN sent : Due(sent[i]))'
    BY <1>3, <2>4
  <2>6. \E T : sent' \in Seq(T)
    BY <2>2
  <2> QED
    BY <1>2, <2>5, <2>6 DEF TimingInv
<1> QED
  BY <1>2, <1>5, <1>6

\* Every other step leaves a pass as it was or begins one.
LEMMA OthersKeepTiming ==
    ASSUME TimingInv, [Next]_vars, ~Send
    PROVE  TimingInv'
<1>1. ASSUME UNCHANGED <<speed, records, sent, began, tZero>>,
             pc' \in {"record", "reading", "flushing", "recorded", "joining"} =>
                 pc \in {"record", "reading", "flushing", "recorded", "joining"},
             pc' = "pacing" => pc = "pacing"
      PROVE  TimingInv'
  BY <1>1 DEF TimingInv, Due, Offset
<1>2. ASSUME sent' = <<>>, pc' = "pacing" => tZero' = began' PROVE TimingInv'
  <2>1. sent' \in Seq({}) /\ DOMAIN sent' = {}
    BY <1>2, EmptySeq
  <2> QED
    BY <1>2, <2>1 DEF TimingInv
<1>3. CASE Poll \/ ReadOne \/ Flush
  BY <1>1, <1>3 DEF Poll, ReadOne, Flush, ReadOn, playVars
<1>4. CASE EndRecord \/ Crash
  <2>1. sent = <<>>
    BY <1>4 DEF EndRecord, Crash, Recording, TimingInv
  <2> QED
    BY <1>2, <1>4, <2>1 DEF EndRecord, Crash, SocketsClosed, playVars
<1>5. CASE StartPlay \/ Load
  <2>1. sent' = <<>> /\ pc' # "pacing"
    BY <1>5 DEF StartPlay, Load, TimingInv
  <2> QED
    BY <1>2, <2>1
<1>6. CASE BeginPass
  BY <1>2, <1>6 DEF BeginPass
<1>7. CASE PassOver \/ LoopOver
  BY <1>1, <1>7 DEF PassOver, LoopOver, playVars
<1>8. CASE Tick \/ Publish \/ Signal \/ Edit \/ Ended \/ UNCHANGED vars
  BY <1>1, <1>8 DEF Tick, Publish, Signal, Edit, Ended, vars, playVars
<1> QED
  BY <1>3, <1>4, <1>5, <1>6, <1>7, <1>8 DEF Next, Recorder, Player, World

\* Nothing is published before its time, in no pass of no recording, at no speed
\* (replay/main.py:159-168).
THEOREM NothingIsEarly == Spec => []NeverEarly
<1>1. TimingInv /\ [Next]_vars => TimingInv'
  BY SendKeepsTiming, OthersKeepTiming
<1>2. TimingInv => NeverEarly
  BY DEF TimingInv, NeverEarly, Due
<1> QED
  BY TimingInitially, <1>1, <1>2, PTL DEF Spec

-----------------------------------------------------------------------------
(* The lines that can be read. *)

IsRecord(line) == line.kind = "record"

\* A line that is appended is read last, or passed over.
LEMMA ReadableAppended ==
    ASSUME NEW T, NEW s \in Seq(T), NEW line \in T
    PROVE  Readable(Append(s, line)) = IF IsRecord(line) THEN Append(Readable(s), line)
                                                         ELSE Readable(s)
<1> DEFINE longer == Append(s, line)
           P == {i \in DOMAIN s : s[i].kind = "record"}
           Q == {i \in DOMAIN longer : longer[i].kind = "record"}
<1>1. /\ Len(s) \in Nat /\ DOMAIN s = 1 .. Len(s) /\ DOMAIN longer = 1 .. (Len(s) + 1)
      /\ \A i \in DOMAIN s : longer[i] = s[i]
      /\ longer[Len(s) + 1] = line
  BY AppendProperties, LenProperties
<1>2. P \subseteq DOMAIN s
  OBVIOUS
<1> HIDE DEF longer
<1>3. Q = IF IsRecord(line) THEN P \cup {Len(s) + 1} ELSE P
  BY <1>1 DEF IsRecord
<1>4. Readable(longer) = Only(longer, Q) /\ Readable(s) = Only(s, P)
  BY DEF Readable
<1> HIDE DEF P, Q
<1>5. Only(longer, P) = Only(s, P)
  BY <1>2, OnlyAppended DEF longer
<1>6. Only(longer, P \cup {Len(s) + 1}) = Append(Only(s, P), line)
  BY <1>2, OnlyAppended DEF longer
<1> QED
  BY <1>3, <1>4, <1>5, <1>6 DEF longer

\* An insertion moves what is behind it one place on.
LEMMA InsertedProperties ==
    ASSUME NEW T, NEW s \in Seq(T), NEW x \in T, NEW at \in 1 .. (Len(s) + 1)
    PROVE  InsertAt(s, at, x) = [i \in 1 .. (Len(s) + 1) |-> IF i < at THEN s[i] ELSE
                                                          IF i = at THEN x ELSE s[i - 1]]
<1> DEFINE front == SubSeq(s, 1, at - 1)
           back == SubSeq(s, at, Len(s))
           middle == front \o <<x>>
<1>1. Len(s) \in Nat /\ \A i \in 1 .. Len(s) : s[i] \in T
  BY LenProperties, ElementOfSeq
<1>2. /\ front \in Seq(T) /\ Len(front) = at - 1
      /\ \A i \in 1 .. (at - 1) : front[i] = s[i]
  <2>1. 1 \in Int /\ at - 1 \in Int /\ \A i \in 1 .. (at - 1) : s[i] \in T
    BY <1>1
  <2>2. /\ front \in Seq(T) /\ Len(front) = IF 1 <= at - 1 THEN at - 1 - 1 + 1 ELSE 0
        /\ \A i \in 1 .. (at - 1 - 1 + 1) : front[i] = s[1 + i - 1]
    BY <2>1, SubSeqProperties
  <2> HIDE DEF front
  <2> QED
    BY <1>1, <2>1, <2>2
<1>3. /\ back \in Seq(T) /\ Len(back) = Len(s) - at + 1
      /\ \A i \in 1 .. (Len(s) - at + 1) : back[i] = s[at + i - 1]
  <2>1. at \in Int /\ Len(s) \in Int /\ \A i \in at .. Len(s) : s[i] \in T
    BY <1>1
  <2>2. /\ back \in Seq(T) /\ Len(back) = IF at <= Len(s) THEN Len(s) - at + 1 ELSE 0
        /\ \A i \in 1 .. (Len(s) - at + 1) : back[i] = s[at + i - 1]
    BY <2>1, SubSeqProperties
  <2> HIDE DEF back
  <2> QED
    BY <1>1, <2>1, <2>2
<1>4. InsertAt(s, at, x) = middle \o back
  BY DEF InsertAt
<1> HIDE DEF front, back
<1>5. <<x>> \in Seq(T) /\ Len(<<x>>) = 1 /\ <<x>>[1] = x
  OBVIOUS
<1>6. /\ middle \in Seq(T) /\ Len(middle) = at
      /\ \A i \in 1 .. at : middle[i] = IF i <= at - 1 THEN front[i] ELSE <<x>>[i - (at - 1)]
  <2>1. /\ middle \in Seq(T) /\ Len(middle) = Len(front) + Len(<<x>>)
        /\ \A i \in 1 .. Len(front) + Len(<<x>>) :
              middle[i] = IF i <= Len(front) THEN front[i] ELSE <<x>>[i - Len(front)]
    BY <1>2, <1>5, ConcatProperties
  <2> HIDE DEF middle
  <2> QED
    BY <1>1, <1>2, <1>5, <2>1
<1> HIDE DEF middle
<1>7. /\ middle \o back \in Seq(T) /\ Len(middle \o back) = Len(s) + 1
      /\ \A i \in 1 .. (Len(s) + 1) :
            (middle \o back)[i] = IF i <= at THEN middle[i] ELSE back[i - at]
  <2>1. /\ middle \o back \in Seq(T) /\ Len(middle \o back) = Len(middle) + Len(back)
        /\ \A i \in 1 .. Len(middle) + Len(back) :
              (middle \o back)[i] = IF i <= Len(middle) THEN middle[i] ELSE back[i - Len(middle)]
    BY <1>3, <1>6, ConcatProperties
  <2>2. Len(middle) + Len(back) = Len(s) + 1 /\ Len(middle) = at
    BY <1>1, <1>3, <1>6
  <2> QED
    BY <2>1, <2>2
<1>8. ASSUME NEW i \in 1 .. (Len(s) + 1)
      PROVE  (middle \o back)[i] = IF i < at THEN s[i] ELSE IF i = at THEN x ELSE s[i - 1]
  <2>1. CASE i < at
    BY <1>1, <1>2, <1>6, <1>7, <2>1
  <2>2. CASE i = at
    <3>1. at \in 1 .. at /\ ~ (at <= at - 1) /\ at - (at - 1) = 1
      BY <1>1
    <3> QED
      BY <1>5, <1>6, <1>7, <2>2, <3>1
  <2>3. CASE i > at
    <3>1. ~ (i <= at) /\ i - at \in 1 .. (Len(s) - at + 1) /\ at + (i - at) - 1 = i - 1
      BY <1>1, <2>3
    <3> QED
      BY <1>3, <1>7, <2>3, <3>1
  <2>4. i < at \/ i = at \/ i > at
    BY <1>1
  <2> QED
    BY <2>1, <2>2, <2>3, <2>4
<1>9. (middle \o back) = [i \in 1 .. (Len(s) + 1) |-> (middle \o back)[i]]
  <2>1. (middle \o back) \in [1 .. (Len(s) + 1) -> T]
    BY <1>7, LenProperties
  <2> QED
    BY <2>1
<1> QED
  BY <1>4, <1>8, <1>9

\* A line that cannot be read costs itself alone, wherever it is put.
LEMMA ReadableInserted ==
    ASSUME NEW T, NEW s \in Seq(T), NEW line \in T, ~ IsRecord(line), NEW at \in 1 .. (Len(s) + 1)
    PROVE  Readable(InsertAt(s, at, line)) = Readable(s)
<1> DEFINE longer == InsertAt(s, at, line)
           P == {i \in DOMAIN s : s[i].kind = "record"}
           Q == {i \in DOMAIN longer : longer[i].kind = "record"}
           f == [i \in P |-> IF i < at THEN i ELSE i + 1]
<1>1. Len(s) \in Nat /\ DOMAIN s = 1 .. Len(s)
  BY LenProperties
<1>2. longer = [i \in 1 .. (Len(s) + 1) |-> IF i < at THEN s[i] ELSE
                                            IF i = at THEN line ELSE s[i - 1]]
  BY InsertedProperties
<1>3. DOMAIN longer = 1 .. (Len(s) + 1)
  BY <1>2, LenProperties
<1> HIDE DEF longer
<1>4. P \subseteq DOMAIN s /\ P \subseteq Int /\ Q \subseteq Int
  BY <1>1, <1>3
<1>5. \A i \in P : f[i] \in Q
  BY <1>1, <1>2, <1>3
<1>6. ASSUME NEW j \in Q PROVE \E i \in P : f[i] = j
  <2>1. j \in 1 .. (Len(s) + 1) /\ j # at
    BY <1>2, <1>3 DEF IsRecord
  <2>2. CASE j < at
    <3>1. j \in P
      BY <1>1, <1>2, <2>1, <2>2
    <3> QED
      BY <3>1, <2>2
  <2>3. CASE ~ (j < at)
    <3>1. j - 1 \in at .. Len(s) /\ j - 1 + 1 = j
      BY <1>1, <2>1, <2>3
    <3>2. j - 1 \in P
      BY <1>1, <1>2, <3>1
    <3> QED
      BY <3>1, <3>2
  <2> QED
    BY <2>2, <2>3
<1>7. f \in Surjection(P, Q)
  BY <1>5, <1>6 DEF Surjection
<1>8. Rises(f, P)
  BY <1>4 DEF Rises
<1>9. IsFiniteSet(P)
  BY <1>4, OnlyProperties
<1>10. Moves(f, s, P, longer, Q)
  <2>1. Renames(f, P, Q)
    BY <1>4, <1>7, <1>8, <1>9 DEF Renames
  <2>2. \A i \in P : longer[f[i]] = s[i]
    BY <1>1, <1>2, <1>4
  <2> QED
    BY <2>1, <2>2 DEF Moves
<1>11. Readable(longer) = Only(longer, Q) /\ Readable(s) = Only(s, P)
  BY DEF Readable
<1> HIDE DEF P, Q, f
<1> QED
  BY <1>10, <1>11, OnlyMoved DEF longer

\* A file of records alone is read as it is.
LEMMA ReadableRecords ==
    ASSUME NEW T, NEW s \in Seq(T), \A i \in DOMAIN s : IsRecord(s[i])
    PROVE  Readable(s) = s
<1>1. {i \in DOMAIN s : s[i].kind = "record"} = DOMAIN s
  BY DEF IsRecord
<1> QED
  BY <1>1, OnlyAll DEF Readable

-----------------------------------------------------------------------------
(* Types. *)

\* What the poll found is there to be read, each channel once, and there is
\* something to read while the reading goes on.
ReadyInv ==
    /\ pc = "reading" => ready # <<>>
    /\ \A i, j \in DOMAIN ready : ready[i] = ready[j] => i = j
    /\ \A i \in DOMAIN ready : subQ[ready[i]] # <<>>

\* Nothing of a playback is there before it.
BeforePlay ==
    pc \in {"record", "reading", "flushing", "recorded", "joining"} =>
        records = <<>> /\ next = 1 /\ tZero = 0 /\ began = 0 /\ sent = <<>>

TypeInv == TypeOK /\ ReadyInv /\ BeforePlay

\* The conjuncts of TypeOK, by what they are about.
RecorderTypes ==
    /\ published \in 0..Len(stream) /\ deadline \in MaxSeconds \cup {0}
    /\ DOMAIN subQ = ChannelSet
    /\ \A c \in ChannelSet : subQ[c] \in Seq(1..Len(stream)) /\ Len(subQ[c]) <= SubQueue
    /\ ready \in Seq(ChannelSet)
FileTypes ==
    file \in Seq(Lines) /\ written \in Seq(Lines) /\ flushed \in 0..Len(file)
PlayerTypes ==
    /\ records \in Seq(Lines) /\ next \in 1..(Len(records) + 1)
    /\ speed \in Speeds \cup {Unit} /\ loop \in BOOLEAN
    /\ tZero \in 0..now /\ began \in 0..now
    /\ sent \in Seq([record : Lines, at : 0..now])
CommonTypes ==
    /\ now \in 0..MaxNow /\ stream \in Streams
    /\ enabled \in SUBSET ChannelSet /\ stop \in BOOLEAN
    /\ pc \in {"record", "reading", "flushing", "recorded", "joining", "pass", "pacing", "ended"}

\* Together they are TypeOK.
LEMMA TypeParts == TypeOK <=> RecorderTypes /\ FileTypes /\ PlayerTypes /\ CommonTypes
BY DEF TypeOK, RecorderTypes, FileTypes, PlayerTypes, CommonTypes

\* The stream is given, and so are the lines a recording of it may have.
LEMMA StreamStays ==
    ASSUME [Next]_vars PROVE stream' = stream /\ Lines' = Lines
<1>1. stream' = stream
  BY DEF Next, Recorder, Player, World, vars, recVars, playVars, Poll, ReadOne, Flush, EndRecord,
         SocketsClosed, Load, BeginPass, Send, PassOver, LoopOver, Tick, Publish, Signal, Edit,
         Crash, StartPlay, Ended
<1> QED
  BY <1>1 DEF Lines

\* A stream is a sequence of messages of the channels.
LEMMA StreamType ==
    ASSUME CommonTypes
    PROVE  /\ stream \in Seq(Messages) /\ Len(stream) \in Nat
           /\ \A i \in 1..Len(stream) : stream[i].channel \in ChannelSet
<1>1. stream \in Seq(Messages)
  BY ReplayAssumption DEF CommonTypes
<1>2. Len(stream) \in Nat /\ \A i \in 1..Len(stream) : stream[i] \in Messages
  BY <1>1, LenProperties, ElementOfSeq
<1> QED
  BY <1>1, <1>2 DEF Messages

\* The clock and the process.
LEMMA CommonStep ==
    ASSUME TypeInv, [Next]_vars PROVE CommonTypes'
<1>1. CommonTypes /\ stream' = stream /\ MaxNow \in Nat
  BY TypeParts, StreamStays, ReplayAssumption DEF TypeInv
<1> USE <1>1 DEF CommonTypes
<1>2. CASE Poll \/ ReadOne \/ Flush \/ EndRecord
  BY <1>2 DEF Poll, ReadOne, Flush, ReadOn, EndRecord, SocketsClosed
<1>3. CASE Load \/ BeginPass \/ Send \/ PassOver \/ LoopOver
  BY <1>3 DEF Load, BeginPass, Send, PassOver, LoopOver
<1>4. CASE Tick
  BY <1>4 DEF Tick
<1>5. CASE Publish \/ Signal
  BY <1>5 DEF Publish, Signal
<1>6. CASE Edit
  BY <1>6 DEF Edit
<1>7. CASE Crash
  BY <1>7 DEF Crash, SocketsClosed
<1>8. CASE StartPlay
  BY <1>8 DEF StartPlay
<1>9. CASE Ended \/ UNCHANGED vars
  BY <1>9 DEF Ended, vars
<1> QED
  BY <1>2, <1>3, <1>4, <1>5, <1>6, <1>7, <1>8, <1>9 DEF Next, Recorder, Player, World

\* The poll picks channels that are enabled and have something to read.
LEMMA PollPicks ==
    ASSUME Poll
    PROVE  /\ ready' \in Seq(ChannelSet) /\ ready' # <<>> /\ pc' = "reading"
           /\ \A i, j \in DOMAIN ready' : ready'[i] = ready'[j] => i = j
           /\ \A i \in DOMAIN ready' : subQ[ready'[i]] # <<>>
           /\ UNCHANGED <<stream, published, deadline, subQ>>
<1> DEFINE P == {i \in DOMAIN Channels : Channels[i] \in enabled /\ subQ[Channels[i]] # <<>>}
           order == Ascending(P)
<1>1. ready' = Only(Channels, P) /\ ready' # <<>> /\ pc' = "reading"
      /\ UNCHANGED <<stream, published, deadline, subQ>>
  BY DEF Poll
<1>2. Channels \in Seq(ChannelSet) /\ IsInjective(Channels) /\ P \subseteq DOMAIN Channels
  BY ReplayAssumption
<1>3. \A i \in P : subQ[Channels[i]] # <<>>
  OBVIOUS
<1> HIDE DEF P
<1>4. /\ IsFiniteSet(P) /\ P \subseteq Int
      /\ ready' \in Seq(ChannelSet)
      /\ \A k \in 1 .. Len(ready') : order[k] \in P /\ ready'[k] = Channels[order[k]]
      /\ \A j, k \in 1 .. Len(ready') : j < k => order[j] < order[k]
  BY <1>1, <1>2, OnlyProperties
<1> HIDE DEF order
<1>5. DOMAIN ready' = 1 .. Len(ready') /\ Len(ready') \in Nat
  BY <1>4, LenProperties
<1>6. ASSUME NEW i \in DOMAIN ready', NEW j \in DOMAIN ready', ready'[i] = ready'[j]
      PROVE  i = j
  <2>1. i \in 1 .. Len(ready') /\ j \in 1 .. Len(ready')
    BY <1>5
  <2>2. order[i] = order[j]
    BY <1>2, <1>4, <1>6, <2>1 DEF IsInjective
  <2>3. i \in Int /\ j \in Int /\ order[i] \in Int /\ order[j] \in Int
    <3>1. order[i] \in P /\ order[j] \in P
      BY <1>4, <2>1
    <3>2. P \subseteq Int
      BY <1>4
    <3>3. order[i] \in Int /\ order[j] \in Int
      BY <3>1, <3>2
    <3> QED
      BY <1>5, <2>1, <3>3
  <2>4. (i < j => order[i] < order[j]) /\ (j < i => order[j] < order[i])
    BY <1>4, <2>1
  <2> QED
    BY <2>2, <2>3, <2>4
<1>7. \A i \in DOMAIN ready' : subQ[ready'[i]] # <<>>
  BY <1>3, <1>4, <1>5
<1> QED
  BY <1>1, <1>4, <1>6, <1>7

\* Reading takes the first message of the first channel found.
LEMMA ReadTakes ==
    ASSUME TypeInv, ReadOne
    PROVE  /\ Head(ready) \in ChannelSet /\ subQ[Head(ready)] # <<>>
           /\ Head(subQ[Head(ready)]) \in 1..Len(stream)
           /\ RecorderTypes' /\ ReadyInv'
<1>1. /\ pc = "reading" /\ ready # <<>> /\ ready \in Seq(ChannelSet)
      /\ RecorderTypes /\ ReadyInv
  BY TypeParts DEF TypeInv, ReadOne, ReadyInv, RecorderTypes
<1> DEFINE c == Head(ready)
<1>2. /\ Len(ready) \in Nat \ {0} /\ DOMAIN ready = 1 .. Len(ready)
      /\ c = ready[1] /\ c \in ChannelSet
      /\ ready' = Tail(ready)
  BY <1>1, EmptySeq, LenProperties DEF ReadOne
<1>3. /\ ready' \in Seq(ChannelSet) /\ Len(ready') = Len(ready) - 1
      /\ \A i \in 1 .. Len(ready') : ready'[i] = ready[i + 1]
  BY <1>1, <1>2, HeadTailProperties
<1>4. DOMAIN ready' = 1 .. Len(ready') /\ Len(ready') \in Nat
  BY <1>3, LenProperties
<1>5. subQ[c] # <<>>
  <2>1. 1 \in DOMAIN ready
    BY <1>2
  <2> QED
    BY <1>1, <1>2, <2>1 DEF ReadyInv
<1>6. /\ subQ[c] \in Seq(1..Len(stream)) /\ Len(subQ[c]) <= SubQueue
      /\ DOMAIN subQ = ChannelSet
  BY <1>1, <1>2 DEF RecorderTypes
<1>7. /\ Head(subQ[c]) \in 1..Len(stream)
      /\ Tail(subQ[c]) \in Seq(1..Len(stream)) /\ Len(Tail(subQ[c])) = Len(subQ[c]) - 1
      /\ Len(subQ[c]) \in Nat
  BY <1>5, <1>6, HeadTailProperties, LenProperties
<1>8. /\ subQ' = [subQ EXCEPT ![c] = Tail(@)]
      /\ UNCHANGED <<stream, published, deadline>>
      /\ pc' \in {"flushing", ReadOn(Tail(ready))}
  BY DEF ReadOne
<1> HIDE DEF c
<1>9. SubQueue \in Nat
  BY ReplayAssumption
<1>10. RecorderTypes'
  <2>1. \A d \in ChannelSet : subQ'[d] = IF d = c THEN Tail(subQ[c]) ELSE subQ[d]
    BY <1>6, <1>8
  <2>2. DOMAIN subQ' = ChannelSet
    BY <1>6, <1>8
  <2>3. \A d \in ChannelSet : subQ'[d] \in Seq(1..Len(stream)) /\ Len(subQ'[d]) <= SubQueue
    <3> SUFFICES ASSUME NEW d \in ChannelSet
                 PROVE  subQ'[d] \in Seq(1..Len(stream)) /\ Len(subQ'[d]) <= SubQueue
      OBVIOUS
    <3>1. CASE d = c
      <4>1. subQ'[d] = Tail(subQ[c])
        BY <2>1, <3>1
      <4>2. Len(Tail(subQ[c])) <= SubQueue
        BY <1>6, <1>7, <1>9
      <4> QED
        BY <1>7, <4>1, <4>2
    <3>2. CASE d # c
      BY <1>1, <2>1, <3>2 DEF RecorderTypes
    <3> QED
      BY <3>1, <3>2
  <2> QED
    BY <1>1, <1>3, <1>8, <2>2, <2>3 DEF RecorderTypes
<1>11. ReadyInv'
  <2>1. \A i, j \in DOMAIN ready : ready[i] = ready[j] => i = j
    BY <1>1 DEF ReadyInv
  <2>2. \A i \in DOMAIN ready' : i + 1 \in DOMAIN ready /\ i + 1 # 1 /\ ready'[i] = ready[i + 1]
    BY <1>2, <1>3, <1>4
  <2>3. \A i, j \in DOMAIN ready' : ready'[i] = ready'[j] => i = j
    <3> SUFFICES ASSUME NEW i \in DOMAIN ready', NEW j \in DOMAIN ready', ready'[i] = ready'[j]
                 PROVE  i = j
      OBVIOUS
    <3>1. i + 1 = j + 1
      BY <2>1, <2>2
    <3> QED
      BY <1>4, <3>1
  <2>4. ASSUME NEW i \in DOMAIN ready' PROVE subQ'[ready'[i]] # <<>>
    <3>1. 1 \in DOMAIN ready /\ ready[i + 1] # ready[1]
      BY <1>2, <2>1, <2>2
    <3>2. ready'[i] # c /\ ready'[i] \in ChannelSet
      BY <1>2, <1>3, <1>4, <2>2, <3>1, ElementOfSeq
    <3>3. subQ'[ready'[i]] = subQ[ready'[i]]
      BY <1>6, <1>8, <3>2
    <3>4. subQ[ready[i + 1]] # <<>>
      BY <1>1, <2>2 DEF ReadyInv
    <3> QED
      BY <2>2, <3>3, <3>4
  <2>5. pc' = "reading" => ready' # <<>>
    BY <1>2, <1>8 DEF ReadOn
  <2> QED
    BY <2>3, <2>4, <2>5 DEF ReadyInv
<1> QED
  BY <1>2, <1>5, <1>7, <1>10, <1>11 DEF c

\* A full socket drops what arrives; any other takes it last.
LEMMA PublishAdds ==
    ASSUME TypeInv, Publish PROVE RecorderTypes' /\ ReadyInv'
<1> DEFINE c == stream[published + 1].channel
<1>1. RecorderTypes /\ ReadyInv /\ CommonTypes
  BY TypeParts DEF TypeInv
<1>2. /\ published < Len(stream) /\ published' = published + 1
      /\ subQ' = IF Room(c) THEN [subQ EXCEPT ![c] = Append(@, published + 1)] ELSE subQ
      /\ UNCHANGED <<stream, deadline, ready, pc>>
  BY DEF Publish
<1>3. published + 1 \in 1..Len(stream) /\ c \in ChannelSet /\ Len(stream) \in Nat
  <2>1. Len(stream) \in Nat /\ published \in 0..Len(stream)
    BY <1>1, StreamType DEF RecorderTypes
  <2>2. published + 1 \in 1..Len(stream)
    BY <1>2, <2>1
  <2> QED
    BY <1>1, <2>1, <2>2, StreamType
<1> HIDE DEF c
<1>4. CASE ~Room(c)
  BY <1>1, <1>2, <1>3, <1>4 DEF RecorderTypes, ReadyInv
<1>5. CASE Room(c)
  <2>1. /\ subQ[c] \in Seq(1..Len(stream)) /\ Len(subQ[c]) < SubQueue
        /\ DOMAIN subQ = ChannelSet /\ SubQueue \in Nat
    BY <1>1, <1>3, <1>5, ReplayAssumption DEF RecorderTypes, Room
  <2>2. /\ Append(subQ[c], published + 1) \in Seq(1..Len(stream))
        /\ Append(subQ[c], published + 1) # <<>>
        /\ Len(Append(subQ[c], published + 1)) = Len(subQ[c]) + 1 /\ Len(subQ[c]) \in Nat
    BY <1>3, <2>1, AppendProperties, LenProperties
  <2>3. /\ DOMAIN subQ' = ChannelSet /\ subQ'[c] = Append(subQ[c], published + 1)
        /\ \A d \in ChannelSet : d # c => subQ'[d] = subQ[d]
    BY <1>2, <1>3, <1>5, <2>1
  <2>4. \A d \in ChannelSet : subQ'[d] \in Seq(1..Len(stream)) /\ Len(subQ'[d]) <= SubQueue
    <3> SUFFICES ASSUME NEW d \in ChannelSet
                 PROVE  subQ'[d] \in Seq(1..Len(stream)) /\ Len(subQ'[d]) <= SubQueue
      OBVIOUS
    <3>1. CASE d = c
      <4>1. Len(subQ[c]) + 1 <= SubQueue
        BY <2>1, <2>2
      <4> QED
        BY <2>2, <2>3, <3>1, <4>1
    <3>2. CASE d # c
      BY <1>1, <2>3, <3>2 DEF RecorderTypes
    <3> QED
      BY <3>1, <3>2
  <2>5. RecorderTypes'
    BY <1>1, <1>2, <1>3, <2>3, <2>4 DEF RecorderTypes
  <2>6. \A i \in DOMAIN ready : ready[i] \in ChannelSet /\ subQ[ready[i]] # <<>>
    BY <1>1, LenProperties, ElementOfSeq DEF RecorderTypes, ReadyInv
  <2>7. \A i \in DOMAIN ready : subQ'[ready[i]] # <<>>
    BY <2>2, <2>3, <2>6
  <2>8. ReadyInv'
    BY <1>1, <1>2, <2>7 DEF ReadyInv
  <2> QED
    BY <2>5, <2>8
<1> QED
  BY <1>4, <1>5

\* The sockets are closed with what they hold.
LEMMA CloseEmpties ==
    ASSUME TypeInv, EndRecord \/ Crash PROVE RecorderTypes' /\ ReadyInv'
<1>1. RecorderTypes
  BY TypeParts DEF TypeInv
<1>2. /\ pc' = "recorded" /\ subQ' = [c \in ChannelSet |-> <<>>] /\ ready' = <<>>
      /\ deadline' = 0 /\ UNCHANGED <<stream, published>>
  BY DEF EndRecord, Crash, SocketsClosed
<1>3. /\ <<>> \in Seq(1..Len(stream)) /\ Len(<<>>) = 0 /\ <<>> \in Seq(ChannelSet)
      /\ DOMAIN <<>> = {} /\ 0 <= SubQueue
  BY EmptySeq, ReplayAssumption
<1> QED
  BY <1>1, <1>2, <1>3 DEF RecorderTypes, ReadyInv

\* The sockets, after any step.
LEMMA RecorderStep ==
    ASSUME TypeInv, [Next]_vars PROVE RecorderTypes' /\ ReadyInv'
<1>1. RecorderTypes /\ ReadyInv
  BY TypeParts DEF TypeInv
<1>2. ASSUME UNCHANGED <<stream, published, deadline, subQ, ready>>,
             pc' = "reading" => pc = "reading"
      PROVE  RecorderTypes' /\ ReadyInv'
  BY <1>1, <1>2 DEF RecorderTypes, ReadyInv
<1>3. CASE Poll \/ Flush
  BY <1>1, <1>3, PollPicks DEF RecorderTypes, ReadyInv, Flush, ReadOn
<1>4. CASE Load \/ BeginPass \/ Send \/ PassOver \/ LoopOver
  BY <1>2, <1>4 DEF Load, BeginPass, Send, PassOver, LoopOver, recVars
<1>5. CASE Tick \/ Signal \/ Edit \/ StartPlay
  BY <1>2, <1>5 DEF Tick, Signal, Edit, StartPlay, recVars
<1>6. CASE Ended \/ UNCHANGED vars
  BY <1>2, <1>6 DEF Ended, vars, recVars
<1> QED
  BY <1>3, <1>4, <1>5, <1>6, ReadTakes, PublishAdds, CloseEmpties
     DEF Next, Recorder, Player, World

-----------------------------------------------------------------------------
(* The file. *)

\* A multiple of F leaves no remainder.
LEMMA MultipleHasNoRemainder ==
    ASSUME NEW F \in Nat \ {0}, NEW q \in Nat
    PROVE  (q * F) % F = 0
<1> DEFINE m == q * F
           d == q - (m \div F)
<1>1. m \in Nat
  BY SMT
<1>2. m = (m \div F) * F + (m % F) /\ m \div F \in Nat /\ m % F \in 0..(F - 1)
  BY <1>1, SMT
<1>3. m % F = d * F /\ d \in Int
  BY <1>1, <1>2, SMT
<1>4. d * F >= 0 /\ d * F < F
  BY <1>2, <1>3
<1> HIDE DEF d, m
<1>5. d = 0
  <2>1. d >= 1 => d * F >= F
    BY <1>3, SMT
  <2>2. d <= -1 => d * F <= -F
    BY <1>3, SMT
  <2> QED
    BY <1>3, <1>4, <2>1, <2>2
<1> QED
  BY <1>3, <1>5 DEF m

\* m lines have been flushed, as many as a multiple of FlushEvery, and fewer than
\* FlushEvery lines wait.
FlushedUpTo(m, n) ==
    /\ m <= n /\ n - m < FlushEvery
    /\ \E q \in Nat : m = q * FlushEvery

\* With one more line FlushEvery of them may wait, if they are to be flushed now.
LEMMA FlushInTime ==
    ASSUME NEW m \in Nat, NEW n \in Nat, FlushedUpTo(m, n)
    PROVE  /\ FlushDue(n + 1) => FlushedUpTo(n + 1, n + 1)
           /\ ~FlushDue(n + 1) => FlushedUpTo(m, n + 1)
           /\ m <= n + 1 /\ (n + 1) - m <= FlushEvery
<1>1. FlushEvery \in Nat \ {0}
  BY ReplayAssumption
<1>2. PICK q \in Nat : m = q * FlushEvery
  BY DEF FlushedUpTo
<1>3. /\ m <= n /\ n - m < FlushEvery
      /\ m <= n + 1 /\ (n + 1) - m <= FlushEvery
  BY <1>1 DEF FlushedUpTo
<1>4. CASE FlushDue(n + 1)
  <2>1. n + 1 \in Nat /\ (n + 1) % FlushEvery = 0
    BY <1>4 DEF FlushDue
  <2>2. n + 1 = ((n + 1) \div FlushEvery) * FlushEvery + ((n + 1) % FlushEvery)
        /\ (n + 1) \div FlushEvery \in Nat
    BY <1>1, <2>1, SMT
  <2>3. \E r \in Nat : n + 1 = r * FlushEvery
    <3> DEFINE r == (n + 1) \div FlushEvery
    <3>1. r \in Nat /\ n + 1 = r * FlushEvery + 0
      BY <2>1, <2>2
    <3> HIDE DEF r
    <3>2. r * FlushEvery \in Int
      BY <1>1, <3>1
    <3> QED
      BY <3>1, <3>2
  <2>4. n + 1 <= n + 1 /\ (n + 1) - (n + 1) < FlushEvery
    BY <1>1
  <2> QED
    BY <1>3, <1>4, <2>3, <2>4 DEF FlushedUpTo
<1>5. CASE ~FlushDue(n + 1)
  <2>1. n + 1 # (q + 1) * FlushEvery
    <3>1. q + 1 \in Nat
      OBVIOUS
    <3>2. ((q + 1) * FlushEvery) % FlushEvery = 0
      BY <1>1, <3>1, MultipleHasNoRemainder
    <3> QED
      BY <1>5, <3>2 DEF FlushDue
  <2>2. (q + 1) * FlushEvery = m + FlushEvery
    BY <1>1, <1>2, SMT
  <2>3. m <= n + 1 /\ (n + 1) - m < FlushEvery
    BY <1>1, <1>3, <2>1, <2>2
  <2> QED
    BY <1>2, <1>3, <1>5, <2>3 DEF FlushedUpTo
<1> QED
  BY <1>4, <1>5

\* What can be read of the file is the beginning of what was written, and at most
\* FlushEvery records are missing.
ReadsBack(lines) ==
    /\ Len(Readable(lines)) <= Len(written)
    /\ Readable(lines) = SubSeq(written, 1, Len(Readable(lines)))
    /\ Len(written) - Len(Readable(lines)) <= FlushEvery

\* A flush that is to come flushes a whole number of intervals.
FlushAhead ==
    /\ pc = "flushing" => FlushedUpTo(Len(file), Len(file))
    /\ pc # "flushing" => FlushedUpTo(flushed, Len(file))
    /\ flushed <= Len(file) /\ Len(file) - flushed <= FlushEvery

\* The file of a recorder that runs is what was written, flushed in time; after
\* that it can be read back.
FileInv ==
    /\ \A i \in DOMAIN written : IsRecord(written[i])
    /\ Recording => file = written /\ FlushAhead
    /\ ~Recording => ReadsBack(file)

\* A line becomes part of the file and of what was written alike.
LEMMA ReadOneWrites ==
    ASSUME TypeInv, FileInv, ReadOne PROVE FileTypes' /\ FileInv'
<1> DEFINE id == Head(subQ[Head(ready)])
           line == [kind |-> "record", id |-> id, ts |-> now]
<1>1. FileTypes /\ CommonTypes /\ pc = "reading" /\ Recording /\ Recording'
  BY TypeParts DEF TypeInv, ReadOne, ReadOn, Recording
<1>2. line \in Lines /\ IsRecord(line)
  <2>1. id \in 1..Len(stream) /\ Len(stream) \in Nat
    BY <1>1, ReadTakes, StreamType
  <2> QED
    BY <1>1, <2>1 DEF Lines, LineKinds, IsRecord, CommonTypes
<1>3. Lines' = Lines
  BY DEF ReadOne, Lines
<1>4. /\ file = written /\ FlushedUpTo(flushed, Len(file)) /\ flushed' = flushed
      /\ \A i \in DOMAIN written : IsRecord(written[i])
  BY <1>1 DEF FileInv, FlushAhead, ReadOne
<1>5. CASE stream[id].form = "good"
  <2>1. /\ file' = Append(file, line) /\ written' = Append(written, line)
        /\ pc' = IF file' # file /\ FlushDue(Len(file')) THEN "flushing" ELSE ReadOn(Tail(ready))
    BY <1>5 DEF ReadOne
  <2> HIDE DEF line
  <2>2. /\ file' \in Seq(Lines) /\ Len(file') = Len(file) + 1 /\ Len(file) \in Nat
        /\ \A i \in 1 .. Len(file) : file'[i] = file[i]
        /\ file'[Len(file) + 1] = line
    BY <1>1, <1>2, <2>1, AppendProperties, LenProperties DEF FileTypes
  <2>3. flushed \in Nat
    BY <1>1, <2>2 DEF FileTypes
  <2>4. FlushAhead'
    <3>1. /\ FlushDue(Len(file')) => FlushedUpTo(Len(file'), Len(file'))
          /\ ~FlushDue(Len(file')) => FlushedUpTo(flushed, Len(file'))
          /\ flushed <= Len(file') /\ Len(file') - flushed <= FlushEvery
      BY <1>4, <2>2, <2>3, FlushInTime
    <3>2. file' # file
      BY <2>2
    <3>3. pc' = "flushing" <=> FlushDue(Len(file'))
      BY <2>1, <3>2 DEF ReadOn
    <3> QED
      BY <1>4, <3>1, <3>3 DEF FlushAhead, FlushedUpTo
  <2>5. flushed' \in 0 .. Len(file')
    BY <1>1, <1>4, <2>2 DEF FileTypes
  <2>6. \A i \in DOMAIN file' : IsRecord(file'[i])
    <3>1. DOMAIN file' = 1 .. (Len(file) + 1) /\ DOMAIN file = 1 .. Len(file)
      BY <1>1, <2>2, LenProperties DEF FileTypes
    <3> SUFFICES ASSUME NEW i \in DOMAIN file' PROVE IsRecord(file'[i])
      OBVIOUS
    <3>2. i \in 1 .. Len(file) \/ i = Len(file) + 1
      BY <2>2, <3>1
    <3> QED
      BY <1>2, <1>4, <2>2, <3>1, <3>2
  <2>7. file' = written'
    BY <1>4, <2>1
  <2> QED
    BY <1>1, <1>3, <2>2, <2>4, <2>5, <2>6, <2>7 DEF FileTypes, FileInv
<1>6. CASE stream[id].form # "good"
  <2>1. UNCHANGED <<file, flushed, written>> /\ pc' # "flushing"
    BY <1>6 DEF ReadOne, ReadOn
  <2>2. FlushAhead'
    BY <1>1, <1>4, <2>1 DEF FlushAhead, FlushedUpTo, FileInv
  <2> QED
    BY <1>1, <1>3, <1>4, <2>1, <2>2 DEF FileTypes, FileInv
<1> QED
  BY <1>5, <1>6

\* A flush leaves nothing to wait.
LEMMA FlushWrites ==
    ASSUME TypeInv, FileInv, Flush PROVE FileTypes' /\ FileInv'
<1>1. /\ FileTypes /\ Recording /\ Recording' /\ pc = "flushing" /\ pc' # "flushing"
      /\ UNCHANGED <<file, written, stream>> /\ flushed' = Len(file)
  BY TypeParts DEF TypeInv, Flush, ReadOn, Recording
<1>2. FlushedUpTo(Len(file), Len(file)) /\ Len(file) \in Nat /\ Lines' = Lines
  BY <1>1, LenProperties DEF FileInv, FlushAhead, FileTypes, Lines
<1>3. FlushAhead'
  <2>1. Len(file) <= Len(file) /\ Len(file) - Len(file) <= FlushEvery
    BY <1>2, ReplayAssumption
  <2> QED
    BY <1>1, <1>2, <2>1 DEF FlushAhead, FlushedUpTo
<1> QED
  BY <1>1, <1>2, <1>3 DEF FileTypes, FileInv

\* The first n records of what was written, alone in a file, are read back.
LEMMA BeginningReadsBack ==
    ASSUME NEW n \in 0 .. Len(written), written \in Seq(Lines),
           \A i \in DOMAIN written : IsRecord(written[i])
    PROVE  /\ SubSeq(written, 1, n) \in Seq(Lines) /\ Len(SubSeq(written, 1, n)) = n
           /\ Readable(SubSeq(written, 1, n)) = SubSeq(written, 1, n)
<1> DEFINE s == SubSeq(written, 1, n)
<1>1. /\ Len(written) \in Nat /\ DOMAIN written = 1 .. Len(written)
      /\ \A i \in 1 .. Len(written) : written[i] \in Lines
  BY LenProperties, ElementOfSeq
<1>2. s \in Seq(Lines) /\ Len(s) = n /\ \A i \in 1 .. n : s[i] = written[i]
  <2>1. 1 \in Int /\ n \in Int /\ \A i \in 1 .. n : written[i] \in Lines
    BY <1>1
  <2>2. /\ s \in Seq(Lines) /\ Len(s) = IF 1 <= n THEN n - 1 + 1 ELSE 0
        /\ \A i \in 1 .. (n - 1 + 1) : s[i] = written[1 + i - 1]
    BY <2>1, SubSeqProperties
  <2> HIDE DEF s
  <2> QED
    BY <1>1, <2>1, <2>2
<1> HIDE DEF s
<1>3. \A i \in DOMAIN s : IsRecord(s[i])
  <2>1. DOMAIN s = 1 .. n
    BY <1>2, LenProperties
  <2> QED
    BY <1>1, <1>2, <2>1
<1>4. Readable(s) = s
  BY <1>2, <1>3, ReadableRecords
<1> QED
  BY <1>2, <1>4 DEF s

\* A file that is closed holds all that was written.
LEMMA EndRecordKeeps ==
    ASSUME TypeInv, FileInv, EndRecord PROVE FileTypes' /\ FileInv'
<1>1. /\ FileTypes /\ file = written /\ \A i \in DOMAIN written : IsRecord(written[i])
      /\ ~Recording' /\ UNCHANGED <<file, written>> /\ flushed' = 0 /\ Lines' = Lines
  BY TypeParts DEF TypeInv, FileInv, EndRecord, SocketsClosed, Recording, Lines
<1>2. /\ written \in Seq(Lines) /\ Len(written) \in Nat
      /\ SubSeq(written, 1, Len(written)) = written
  BY <1>1, LenProperties, SubSeqFull DEF FileTypes
<1>3. Readable(file) = written
  BY <1>1, <1>2, ReadableRecords
<1>4. ReadsBack(file)
  <2>1. 0 <= FlushEvery
    BY ReplayAssumption
  <2> QED
    BY <1>2, <1>3, <2>1 DEF ReadsBack
<1>5. ReadsBack(file)'
  BY <1>1, <1>4 DEF ReadsBack, Readable
<1>6. FileTypes' /\ (\A i \in DOMAIN written : IsRecord(written[i]))'
  BY <1>1, <1>2 DEF FileTypes
<1> QED
  BY <1>1, <1>5, <1>6 DEF FileInv

\* A crash keeps what was flushed, and what it tears is passed over.
LEMMA CrashKeepsFlushed ==
    ASSUME TypeInv, FileInv, Crash PROVE FileTypes' /\ FileInv'
<1>1. PICK kept \in flushed..Len(file), torn \in BOOLEAN :
         /\ torn => kept < Len(file)
         /\ file' = IF torn THEN Append(SubSeq(file, 1, kept), [file[kept + 1] EXCEPT !.kind = "torn"])
                            ELSE SubSeq(file, 1, kept)
  BY DEF Crash
<1>2. /\ FileTypes /\ file = written
      /\ flushed <= Len(file) /\ Len(file) - flushed <= FlushEvery
      /\ \A i \in DOMAIN written : IsRecord(written[i])
      /\ ~Recording' /\ UNCHANGED written /\ flushed' = 0 /\ Lines' = Lines
  BY TypeParts DEF TypeInv, FileInv, FlushAhead, Crash, SocketsClosed, Recording, Lines
<1>3. /\ written \in Seq(Lines) /\ Len(written) \in Nat /\ flushed \in Nat
      /\ kept \in 0 .. Len(written) /\ Len(written) - kept <= FlushEvery
      /\ FlushEvery \in Nat
  <2>1. Len(written) \in Nat /\ written \in Seq(Lines)
    BY <1>2, LenProperties DEF FileTypes
  <2> QED
    BY <1>2, <2>1, ReplayAssumption DEF FileTypes
<1> DEFINE s == SubSeq(written, 1, kept)
<1>4. s \in Seq(Lines) /\ Len(s) = kept /\ Readable(s) = s
  BY <1>2, <1>3, BeginningReadsBack
<1> HIDE DEF s
<1>5. file' \in Seq(Lines) /\ Readable(file') = s
  <2>1. CASE ~torn
    BY <1>1, <1>2, <1>4, <2>1 DEF s
  <2>2. CASE torn
    <3> DEFINE rest == [file[kept + 1] EXCEPT !.kind = "torn"]
    <3>1. kept + 1 \in 1 .. Len(written)
      BY <1>1, <1>2, <1>3, <2>2
    <3>2. written[kept + 1] \in Lines
      BY <1>3, <3>1, ElementOfSeq
    <3>3. rest \in Lines /\ ~IsRecord(rest)
      BY <1>2, <3>2 DEF Lines, LineKinds, IsRecord
    <3>4. file' = Append(s, rest)
      BY <1>1, <1>2, <2>2 DEF s
    <3> HIDE DEF rest
    <3> QED
      BY <1>4, <3>3, <3>4, AppendProperties, ReadableAppended
  <2> QED
    BY <2>1, <2>2
<1>6. ReadsBack(file')
  BY <1>3, <1>4, <1>5 DEF ReadsBack, s
<1>7. ReadsBack(file)'
  BY <1>2, <1>6 DEF ReadsBack, Readable
<1>8. FileTypes'
  <2>1. Len(file') \in Nat
    BY <1>5, LenProperties
  <2>2. flushed' \in 0 .. Len(file')
    BY <1>2, <2>1
  <2> QED
    BY <1>2, <1>3, <1>5, <2>2 DEF FileTypes
<1>9. (\A i \in DOMAIN written : IsRecord(written[i]))'
  BY <1>2
<1> QED
  BY <1>2, <1>7, <1>8, <1>9 DEF FileInv

\* A line a person puts in changes nothing of what can be read.
LEMMA EditKeeps ==
    ASSUME TypeInv, FileInv, Edit PROVE FileTypes' /\ FileInv'
<1>1. PICK kind \in HandLines, at \in 1..(Len(file) + 1) :
         file' = InsertAt(file, at, [kind |-> kind, id |-> 0, ts |-> 0])
  BY DEF Edit
<1>2. /\ FileTypes /\ CommonTypes /\ ~Recording /\ ~Recording' /\ ReadsBack(file)
      /\ \A i \in DOMAIN written : IsRecord(written[i])
      /\ UNCHANGED <<written, flushed>> /\ Lines' = Lines
  BY TypeParts DEF TypeInv, FileInv, Edit, Recording, Lines
<1> DEFINE line == [kind |-> kind, id |-> 0, ts |-> 0]
<1>3. line \in Lines /\ ~IsRecord(line)
  <2>1. kind \in LineKinds /\ kind # "record"
    BY ReplayAssumption
  <2>2. Len(stream) \in Nat /\ MaxNow \in Nat
    BY <1>2, StreamType, ReplayAssumption
  <2> QED
    BY <2>1, <2>2 DEF Lines, IsRecord
<1> HIDE DEF line
<1>4. file' = InsertAt(file, at, line)
  BY <1>1 DEF line
<1>5. file \in Seq(Lines) /\ Len(file) \in Nat
  BY <1>2, LenProperties DEF FileTypes
<1>6. Readable(file') = Readable(file)
  BY <1>3, <1>4, <1>5, ReadableInserted
<1>7. file' \in Seq(Lines) /\ Len(file') = Len(file) + 1
  <2>1. file' = [i \in 1 .. (Len(file) + 1) |-> IF i < at THEN file[i] ELSE
                                               IF i = at THEN line ELSE file[i - 1]]
    BY <1>3, <1>4, <1>5, InsertedProperties
  <2>2. \A i \in 1 .. Len(file) : file[i] \in Lines
    BY <1>5, ElementOfSeq
  <2>3. \A i \in 1 .. (Len(file) + 1) : file'[i] \in Lines
    <3> SUFFICES ASSUME NEW i \in 1 .. (Len(file) + 1) PROVE file'[i] \in Lines
      OBVIOUS
    <3>1. i < at => i \in 1 .. Len(file)
      BY <1>5
    <3>2. i > at => i - 1 \in 1 .. Len(file)
      BY <1>5
    <3>3. i < at \/ i = at \/ i > at
      BY <1>5
    <3> QED
      BY <1>3, <2>1, <2>2, <3>1, <3>2, <3>3
  <2> QED
    BY <1>5, <2>1, <2>3
<1>8. FileTypes'
  BY <1>2, <1>5, <1>7 DEF FileTypes
<1>9. ReadsBack(file)'
  BY <1>2, <1>6 DEF ReadsBack, Readable
<1>10. (\A i \in DOMAIN written : IsRecord(written[i]))'
  BY <1>2
<1> QED
  BY <1>2, <1>8, <1>9, <1>10 DEF FileInv

\* The file, after any step.
LEMMA FileStep ==
    ASSUME TypeInv, FileInv, [Next]_vars PROVE FileTypes' /\ FileInv'
<1>1. FileTypes /\ Lines' = Lines
  BY TypeParts, StreamStays DEF TypeInv
<1>2. ASSUME UNCHANGED <<file, flushed, written>>, Recording' <=> Recording,
             pc' = "flushing" <=> pc = "flushing"
      PROVE  FileTypes' /\ FileInv'
  BY <1>1, <1>2 DEF FileTypes, FileInv, ReadsBack, Readable, FlushAhead, FlushedUpTo
<1>3. CASE Poll \/ Load \/ BeginPass \/ Send \/ PassOver \/ LoopOver
  BY <1>2, <1>3 DEF Poll, Load, BeginPass, Send, PassOver, LoopOver, recVars, Recording
<1>4. CASE Tick \/ Publish \/ Signal
  BY <1>2, <1>4 DEF Tick, Publish, Signal, recVars, Recording
<1>5. CASE StartPlay
  BY <1>2, <1>5 DEF StartPlay, recVars, Recording
<1>6. CASE Ended \/ UNCHANGED vars
  BY <1>2, <1>6 DEF Ended, vars, recVars, Recording
<1> QED
  BY <1>3, <1>4, <1>5, <1>6, ReadOneWrites, FlushWrites, EndRecordKeeps, CrashKeepsFlushed, EditKeeps
     DEF Next, Recorder, Player, World

-----------------------------------------------------------------------------
(* The player. *)

\* What the pass has published.
Played == [i \in DOMAIN sent |-> sent[i].record]

\* No line of the file raises in read_all; a pass is behind us.
NoAlien == \A i \in DOMAIN file : file[i].kind # "alien"
Passed == pc = "ended" \/ (pc = "pass" /\ next > 1)

\* In a pass the records are those of the file, and the pass has published those
\* it has passed that are of an enabled channel; a pass that was not stopped has
\* published all of the file.
PlayInv ==
    /\ pc \in {"pass", "pacing"} => records = Readable(file)
    /\ pc = "pacing" => Played = OnEnabled(SubSeq(written, 1, next - 1))
    /\ Passed /\ ~stop /\ NoAlien => Played = OnEnabled(Readable(file))

\* A line that is appended is published last, or passed over.
LEMMA OnEnabledAppended ==
    ASSUME NEW T, NEW s \in Seq(T), NEW line \in T
    PROVE  OnEnabled(Append(s, line)) =
               IF stream[line.id].channel \in enabled THEN Append(OnEnabled(s), line)
                                                      ELSE OnEnabled(s)
<1> DEFINE longer == Append(s, line)
           P == {i \in DOMAIN s : stream[s[i].id].channel \in enabled}
           Q == {i \in DOMAIN longer : stream[longer[i].id].channel \in enabled}
           here == stream[line.id].channel \in enabled
<1>1. /\ Len(s) \in Nat /\ DOMAIN s = 1 .. Len(s) /\ DOMAIN longer = 1 .. (Len(s) + 1)
      /\ \A i \in DOMAIN s : longer[i] = s[i]
      /\ longer[Len(s) + 1] = line
  BY AppendProperties, LenProperties
<1>2. P \subseteq DOMAIN s
  OBVIOUS
<1> HIDE DEF longer
<1>3. Q = IF here THEN P \cup {Len(s) + 1} ELSE P
  BY <1>1
<1>4. OnEnabled(longer) = Only(longer, Q) /\ OnEnabled(s) = Only(s, P)
  BY DEF OnEnabled
<1> HIDE DEF P, Q, here
<1>5. Only(longer, P) = Only(s, P)
  BY <1>2, OnlyAppended DEF longer
<1>6. Only(longer, P \cup {Len(s) + 1}) = Append(Only(s, P), line)
  BY <1>2, OnlyAppended DEF longer
<1> QED
  BY <1>3, <1>4, <1>5, <1>6 DEF longer, here

\* Of no lines nothing is published.
LEMMA OnEnabledOfNone == OnEnabled(<<>>) = <<>>
<1>1. <<>> \in Seq({}) /\ Len(<<>>) = 0 /\ DOMAIN <<>> = {}
  BY EmptySeq
<1>2. {i \in DOMAIN <<>> : stream[<<>>[i].id].channel \in enabled} = DOMAIN <<>>
  BY <1>1
<1> QED
  BY <1>1, <1>2, OnlyAll DEF OnEnabled

\* Of no positions nothing is kept.
LEMMA OnlyNone == ASSUME NEW T, NEW s \in Seq(T) PROVE Only(s, {}) = <<>>
<1>1. {} \subseteq DOMAIN s
  OBVIOUS
<1>2. Only(s, {}) \in Seq(T) /\ Len(Only(s, {})) = Cardinality({})
  BY <1>1, OnlyProperties
<1>3. Len(Only(s, {})) = 0
  BY <1>2, FS_EmptySet
<1> HIDE DEF Only
<1> QED
  BY <1>2, <1>3, EmptySeq

\* The records of a pass are the first of those written.
LEMMA RecordsWereWritten ==
    ASSUME TypeInv, FileInv, PlayInv, pc \in {"pass", "pacing"}
    PROVE  /\ records = SubSeq(written, 1, Len(records)) /\ written \in Seq(Lines)
           /\ Len(records) \in Nat /\ Len(written) \in Nat /\ Len(records) <= Len(written)
           /\ \A n \in 1 .. Len(records) :
                 /\ records[n] = written[n] /\ records[n] \in Lines
                 /\ SubSeq(written, 1, n) = Append(SubSeq(written, 1, n - 1), written[n])
                 /\ SubSeq(written, 1, n - 1) \in Seq(Lines)
<1>1. FileTypes /\ PlayerTypes
  BY TypeParts DEF TypeInv
<1>2. /\ written \in Seq(Lines) /\ Len(written) \in Nat
      /\ records \in Seq(Lines) /\ Len(records) \in Nat
  BY <1>1, LenProperties DEF FileTypes, PlayerTypes
<1>3. Len(records) <= Len(written) /\ records = SubSeq(written, 1, Len(records))
  BY DEF PlayInv, FileInv, ReadsBack, Recording
<1>4. ASSUME NEW n \in 1 .. Len(records)
      PROVE  /\ records[n] = written[n] /\ records[n] \in Lines
             /\ SubSeq(written, 1, n) = Append(SubSeq(written, 1, n - 1), written[n])
             /\ SubSeq(written, 1, n - 1) \in Seq(Lines)
  <2>1. n \in 1 .. Len(written) /\ 1 \in 1 .. Len(written) /\ n - 1 \in 0 .. Len(written)
    BY <1>2, <1>3
  <2>2. records[n] \in Lines /\ written[n] \in Lines
    BY <1>2, <2>1, ElementOfSeq
  <2>3. SubSeq(written, 1, n - 1) \in Seq(Lines)
    <3>1. 1 \in Int /\ n - 1 \in Int /\ \A i \in 1 .. (n - 1) : written[i] \in Lines
      BY <1>2, <2>1, ElementOfSeq
    <3> QED
      BY <3>1, SubSeqProperties
  <2>4. SubSeq(written, 1, n) = SubSeq(written, 1, n - 1) \o <<written[n]>>
    BY <1>2, <2>1, SubSeqRecursiveSecond
  <2>5. Append(SubSeq(written, 1, n - 1), written[n]) = SubSeq(written, 1, n - 1) \o <<written[n]>>
    BY <2>2, <2>3, AppendIsConcat
  <2>6. records[n] = written[n]
    <3>1. 1 \in Int /\ Len(records) \in Int /\ \A i \in 1 .. Len(records) : written[i] \in Lines
      BY <1>2, <1>3, ElementOfSeq
    <3>2. \A i \in 1 .. (Len(records) - 1 + 1) :
             SubSeq(written, 1, Len(records))[i] = written[1 + i - 1]
      BY <3>1, SubSeqProperties
    <3>3. n \in 1 .. (Len(records) - 1 + 1) /\ 1 + n - 1 = n
      BY <1>2
    <3> QED
      BY <1>3, <3>2, <3>3
  <2> QED
    BY <2>2, <2>3, <2>4, <2>5, <2>6
<1> QED
  BY <1>2, <1>3, <1>4

\* A record that is sent is one of the file, and what was out before it stays.
LEMMA SendPublishes ==
    ASSUME TypeInv, FileInv, PlayInv, Send
    PROVE  /\ PlayerTypes' /\ BeforePlay' /\ PlayInv'
<1> DEFINE record == records[next]
           entry == [record |-> record, at |-> now]
           known == stream[record.id].channel \in enabled
           before == SubSeq(written, 1, next - 1)
<1>1. /\ pc = "pacing" /\ next <= Len(records) /\ next' = next + 1
      /\ sent' = IF known THEN Append(sent, entry) ELSE sent
      /\ UNCHANGED <<now, enabled, pc, stop, stream, file, written, speed, loop, records, tZero, began>>
  BY DEF Send, recVars
<1>2. PlayerTypes /\ CommonTypes /\ Lines' = Lines
  BY <1>1, TypeParts DEF TypeInv, Lines
<1>3. next \in 1 .. Len(records) /\ Len(records) \in Nat
  BY <1>1, <1>2, LenProperties DEF PlayerTypes
<1>4. /\ record = written[next] /\ record \in Lines
      /\ SubSeq(written, 1, next) = Append(before, record) /\ before \in Seq(Lines)
  BY <1>1, <1>3, RecordsWereWritten
<1>5. sent \in Seq([record : Lines, at : 0..now]) /\ entry \in [record : Lines, at : 0..now]
  BY <1>2, <1>4 DEF PlayerTypes, CommonTypes
<1> HIDE DEF record, entry, known
<1>6. sent' \in Seq([record : Lines, at : 0..now])
  BY <1>1, <1>5, AppendProperties
<1>7. PlayerTypes'
  BY <1>1, <1>2, <1>3, <1>6 DEF PlayerTypes
<1> HIDE DEF before
<1>8. OnEnabled(SubSeq(written, 1, next)) =
         IF known THEN Append(OnEnabled(before), record) ELSE OnEnabled(before)
  <2>1. OnEnabled(Append(before, record)) =
           IF known THEN Append(OnEnabled(before), record) ELSE OnEnabled(before)
    BY <1>4, OnEnabledAppended DEF known
  <2> QED
    BY <1>4, <2>1
<1>9. Played = OnEnabled(before)
  BY <1>1 DEF PlayInv, before
<1>10. Played' = OnEnabled(SubSeq(written, 1, next))
  <2>1. CASE known
    <3>1. /\ Len(sent) \in Nat /\ DOMAIN sent = 1 .. Len(sent)
          /\ \A i \in 1 .. Len(sent) : sent[i] \in [record : Lines, at : 0..now]
      BY <1>5, LenProperties, ElementOfSeq
    <3>2. /\ DOMAIN sent' = 1 .. (Len(sent) + 1)
          /\ \A i \in 1 .. Len(sent) : sent'[i] = sent[i]
          /\ sent'[Len(sent) + 1] = entry
      <4>1. /\ sent' \in Seq([record : Lines, at : 0..now]) /\ Len(sent') = Len(sent) + 1
            /\ \A i \in 1 .. Len(sent) : sent'[i] = sent[i]
            /\ sent'[Len(sent) + 1] = entry
        BY <1>1, <1>5, <2>1, AppendProperties
      <4> QED
        BY <4>1, LenProperties
    <3>3. Played \in Seq(Lines) /\ Len(Played) = Len(sent)
      BY <3>1 DEF Played
    <3>4. /\ DOMAIN Append(Played, record) = 1 .. (Len(sent) + 1)
          /\ Append(Played, record) \in [1 .. (Len(sent) + 1) -> Lines]
          /\ \A i \in 1 .. Len(sent) : Append(Played, record)[i] = Played[i]
          /\ Append(Played, record)[Len(sent) + 1] = record
      <4>1. /\ Append(Played, record) \in Seq(Lines) /\ Len(Append(Played, record)) = Len(sent) + 1
            /\ \A i \in 1 .. Len(sent) : Append(Played, record)[i] = Played[i]
            /\ Append(Played, record)[Len(sent) + 1] = record
        BY <1>4, <3>3, AppendProperties
      <4> QED
        BY <4>1, LenProperties
    <3>5. ASSUME NEW i \in 1 .. (Len(sent) + 1)
          PROVE  sent'[i].record = Append(Played, record)[i]
      <4>1. CASE i = Len(sent) + 1
        BY <3>2, <3>4, <4>1 DEF entry
      <4>2. CASE i # Len(sent) + 1
        <5>1. i \in 1 .. Len(sent)
          BY <3>1, <4>2
        <5> QED
          BY <3>1, <3>2, <3>4, <5>1 DEF Played
      <4> QED
        BY <4>1, <4>2
    <3>6. Played' = [i \in 1 .. (Len(sent) + 1) |-> sent'[i].record]
      BY <3>2 DEF Played
    <3>7. Played' = Append(Played, record)
      BY <3>4, <3>5, <3>6
    <3> QED
      BY <1>8, <1>9, <2>1, <3>7
  <2>2. CASE ~known
    BY <1>1, <1>8, <1>9, <2>2 DEF Played
  <2> QED
    BY <2>1, <2>2
<1>11. PlayInv'
  <2>1. next' - 1 = next
    BY <1>1, <1>3
  <2>2. (records = Readable(file))'
    BY <1>1 DEF PlayInv, Readable
  <2> QED
    BY <1>1, <1>10, <2>1, <2>2 DEF PlayInv, Passed, OnEnabled
<1>12. BeforePlay'
  BY <1>1 DEF BeforePlay
<1> QED
  BY <1>7, <1>11, <1>12

\* The file is read into records, and without any play ends.
LEMMA LoadReads ==
    ASSUME TypeInv, FileInv, PlayInv, Load
    PROVE  PlayerTypes' /\ BeforePlay' /\ PlayInv'
<1>1. /\ pc = "joining" /\ next = 1 /\ sent = <<>> /\ PlayerTypes /\ FileTypes
      /\ records' = IF Raises(file) THEN <<>> ELSE Readable(file)
      /\ pc' = IF records' = <<>> THEN "ended" ELSE "pass"
      /\ UNCHANGED <<now, enabled, stop, stream, file, written, speed, loop, next, tZero, began, sent>>
  BY TypeParts DEF Load, TypeInv, BeforePlay, recVars
<1>2. records' \in Seq(Lines)
  <2>1. {i \in DOMAIN file : file[i].kind = "record"} \subseteq DOMAIN file /\ file \in Seq(Lines)
    BY <1>1 DEF FileTypes
  <2>2. Readable(file) \in Seq(Lines)
    BY <2>1, OnlyProperties DEF Readable
  <2>3. <<>> \in Seq(Lines)
    OBVIOUS
  <2> QED
    BY <1>1, <2>2, <2>3
<1>3. PlayerTypes'
  <2>1. Len(records') \in Nat /\ Lines' = Lines
    BY <1>1, <1>2, LenProperties DEF Lines
  <2> QED
    BY <1>1, <1>2, <2>1 DEF PlayerTypes
<1>4. Played' = <<>>
  <2>1. Played' = [i \in {} |-> <<>>[i].record]
    BY <1>1, EmptySeq DEF Played
  <2> QED
    BY <2>1
<1>5. pc' = "pass" => (records = Readable(file))'
  BY <1>1 DEF Readable
<1>6. (Passed /\ ~stop /\ NoAlien => Played = OnEnabled(Readable(file)))'
  <2>1. SUFFICES ASSUME (Passed /\ NoAlien)' PROVE Played' = OnEnabled(Readable(file))'
    OBVIOUS
  <2>2. next' = 1 /\ pc' = "ended"
    BY <1>1, <2>1 DEF Passed
  <2>3. ~Raises(file) /\ records' = <<>>
    <3>1. DOMAIN file = 1 .. Len(file)
      BY <1>1, LenProperties DEF FileTypes
    <3> QED
      BY <1>1, <2>1, <2>2, <3>1 DEF Raises, NoAlien
  <2>4. Readable(file)' = <<>>
    BY <1>1, <2>3 DEF Readable
  <2>5. OnEnabled(<<>>)' = <<>>
    BY <1>1, OnEnabledOfNone DEF OnEnabled
  <2>6. OnEnabled(Readable(file))' = <<>>
    BY <2>4, <2>5 DEF OnEnabled
  <2> QED
    BY <1>4, <2>6
<1> QED
  BY <1>1, <1>3, <1>4, <1>5, <1>6 DEF PlayInv, BeforePlay

\* A pass begins with nothing published.
LEMMA PassBegins ==
    ASSUME TypeInv, FileInv, PlayInv, BeginPass
    PROVE  PlayerTypes' /\ BeforePlay' /\ PlayInv'
<1>1. /\ pc = "pass" /\ pc' = "pacing" /\ next' = 1 /\ sent' = <<>> /\ began' = now /\ tZero' = now
      /\ PlayerTypes /\ CommonTypes /\ FileTypes /\ records = Readable(file)
      /\ UNCHANGED <<now, enabled, stop, stream, file, written, speed, loop, records>>
  BY TypeParts DEF BeginPass, TypeInv, PlayInv, recVars
<1>2. /\ Len(records) \in Nat /\ Lines' = Lines /\ now \in Nat
      /\ <<>> \in Seq([record : Lines, at : 0..now])
  BY <1>1, LenProperties, ReplayAssumption DEF PlayerTypes, CommonTypes, Lines
<1>3. PlayerTypes'
  BY <1>1, <1>2 DEF PlayerTypes
<1>4. Played' = <<>>
  <2>1. Played' = [i \in {} |-> <<>>[i].record]
    BY <1>1, EmptySeq DEF Played
  <2> QED
    BY <2>1
<1>5. SubSeq(written, 1, next' - 1) = <<>>
  <2>1. SubSeq(written, 1, 0) = <<>>
    BY <1>1, SubSeqEmpty DEF FileTypes
  <2> QED
    BY <1>1, <2>1
<1>6. (pc = "pacing" => Played = OnEnabled(SubSeq(written, 1, next - 1)))'
  <2>1. SubSeq(written, 1, next - 1)' = <<>>
    BY <1>1, <1>5
  <2>2. OnEnabled(<<>>)' = <<>>
    <3>1. <<>> \in Seq({}) /\ DOMAIN <<>> = {}
      BY EmptySeq
    <3>2. OnEnabled(<<>>)' = OnEnabled(<<>>)
      BY <1>1 DEF OnEnabled
    <3> QED
      BY <3>2, OnEnabledOfNone
  <2>3. OnEnabled(SubSeq(written, 1, next - 1))' = <<>>
    BY <2>1, <2>2 DEF OnEnabled
  <2> QED
    BY <1>4, <2>3
<1>7. (records = Readable(file))'
  BY <1>1 DEF Readable
<1> QED
  BY <1>1, <1>3, <1>6, <1>7 DEF PlayInv, Passed, BeforePlay

\* A pass that ends without stop has published every record of the file that is
\* of an enabled channel.
LEMMA PassEnds ==
    ASSUME TypeInv, FileInv, PlayInv, PassOver
    PROVE  PlayerTypes' /\ BeforePlay' /\ PlayInv'
<1>1. /\ pc = "pacing" /\ (stop \/ next > Len(records)) /\ pc' \in {"pass", "ended"}
      /\ PlayerTypes /\ records = Readable(file)
      /\ UNCHANGED <<now, enabled, stop, stream, file, written, playVars>>
  BY TypeParts DEF PassOver, TypeInv, PlayInv, recVars
<1>2. PlayerTypes' /\ (records = Readable(file))' /\ BeforePlay'
  BY <1>1 DEF PlayerTypes, Lines, Readable, BeforePlay, playVars
<1>3. ~stop => Played = OnEnabled(Readable(file))
  <2>1. SUFFICES ASSUME ~stop PROVE Played = OnEnabled(Readable(file))
    OBVIOUS
  <2>2. Len(records) \in Nat /\ records = SubSeq(written, 1, Len(records))
    BY <1>1, RecordsWereWritten
  <2>3. next - 1 = Len(records)
    BY <1>1, <2>1, <2>2 DEF PlayerTypes
  <2>4. Played = OnEnabled(SubSeq(written, 1, next - 1))
    BY <1>1 DEF PlayInv
  <2> QED
    BY <1>1, <2>2, <2>3, <2>4
<1>4. Played' = Played /\ OnEnabled(Readable(file))' = OnEnabled(Readable(file))
  BY <1>1 DEF Played, OnEnabled, Readable, playVars
<1>5. (Passed /\ ~stop /\ NoAlien => Played = OnEnabled(Readable(file)))'
  BY <1>1, <1>3, <1>4
<1> QED
  BY <1>1, <1>2, <1>5 DEF PlayInv

\* The steps before play, and those of the world, leave the pass as it is.
LEMMA OthersKeepPass ==
    ASSUME TypeInv, FileInv, PlayInv, [Next]_vars, ~(Load \/ BeginPass \/ Send \/ PassOver)
    PROVE  PlayerTypes' /\ BeforePlay' /\ PlayInv'
<1>1. PlayerTypes /\ CommonTypes /\ FileTypes /\ BeforePlay /\ Lines' = Lines /\ stream' = stream
  BY TypeParts, StreamStays DEF TypeInv
<1>2. ASSUME UNCHANGED <<records, next, tZero, began, sent>>, now' \in {now, now + 1} \/ pc = "recorded",
             speed' \in Speeds \cup {Unit}, loop' \in BOOLEAN, now' \in Nat
      PROVE  PlayerTypes'
  <2>1. now \in Nat
    BY <1>1, ReplayAssumption DEF CommonTypes
  <2>2. CASE now' \in {now, now + 1}
    <3>1. 0..now \subseteq 0..now'
      BY <2>1, <2>2
    <3>2. [record : Lines, at : 0..now] \subseteq [record : Lines, at : 0..now']
      BY <3>1
    <3>3. sent \in Seq([record : Lines, at : 0..now'])
      BY <1>1, <3>2, SeqMonotonic DEF PlayerTypes
    <3> QED
      BY <1>1, <1>2, <3>1, <3>3 DEF PlayerTypes
  <2>3. CASE pc = "recorded"
    <3>1. records = <<>> /\ next = 1 /\ tZero = 0 /\ began = 0 /\ sent = <<>>
      BY <1>1, <2>3 DEF BeforePlay
    <3>2. /\ Len(<<>>) = 0 /\ <<>> \in Seq(Lines) /\ 0 \in 0..now'
          /\ <<>> \in Seq([record : Lines, at : 0..now'])
      BY <1>2
    <3> QED
      BY <1>1, <1>2, <3>1, <3>2 DEF PlayerTypes
  <2> QED
    BY <1>2, <2>2, <2>3
<1>3. CASE Poll \/ ReadOne \/ Flush \/ EndRecord \/ Crash
  <2>1. /\ Recording /\ pc' \in {"record", "reading", "flushing", "recorded"}
        /\ UNCHANGED <<now, speed, loop, records, next, tZero, began, sent>>
    BY <1>3 DEF Poll, ReadOne, Flush, ReadOn, EndRecord, Crash, SocketsClosed, Recording, playVars
  <2>2. PlayerTypes'
    BY <1>1, <2>1 DEF PlayerTypes
  <2> QED
    BY <1>1, <2>1, <2>2 DEF BeforePlay, Recording, PlayInv, Passed
<1>4. CASE Publish \/ Edit
  <2>1. /\ pc \in {"record", "reading", "flushing", "recorded"} /\ pc' = pc
        /\ UNCHANGED <<now, speed, loop, records, next, tZero, began, sent>>
    BY <1>4 DEF Publish, Edit, Recording, playVars
  <2>2. PlayerTypes'
    BY <1>1, <2>1 DEF PlayerTypes
  <2> QED
    BY <1>1, <2>1, <2>2 DEF BeforePlay, PlayInv, Passed
<1>5. CASE StartPlay
  <2>1. /\ pc = "recorded" /\ pc' \in {"joining", "ended"} /\ now' = 0
        /\ speed' \in Speeds /\ loop' \in BOOLEAN
        /\ UNCHANGED <<records, next, tZero, began, sent, file, stream>>
        /\ pc' = "ended" => enabled' = {}
    BY <1>5 DEF StartPlay, recVars
  <2>2. PlayerTypes'
    BY <1>2, <2>1
  <2>3. sent' = <<>>
    BY <1>1, <2>1 DEF BeforePlay
  <2>4. Played' = <<>>
    <3>1. Played' = [i \in {} |-> <<>>[i].record]
      BY <2>3, EmptySeq DEF Played
    <3> QED
      BY <3>1
  <2>5. pc' = "ended" => OnEnabled(Readable(file))' = <<>>
    <3>1. Readable(file) \in Seq(Lines)
      <4>1. {i \in DOMAIN file : file[i].kind = "record"} \subseteq DOMAIN file /\ file \in Seq(Lines)
        BY <1>1 DEF FileTypes
      <4> QED
        BY <4>1, OnlyProperties DEF Readable
    <3>2. Readable(file)' = Readable(file)
      BY <2>1 DEF Readable
    <3>3. SUFFICES ASSUME enabled' = {} PROVE OnEnabled(Readable(file))' = <<>>
      BY <2>1
    <3>4. OnEnabled(Readable(file))' = Only(Readable(file), {})
      BY <3>2, <3>3 DEF OnEnabled
    <3> QED
      BY <3>1, <3>4, OnlyNone
  <2> QED
    BY <1>1, <2>1, <2>2, <2>4, <2>5 DEF BeforePlay, PlayInv, Passed
<1>6. CASE Tick \/ Signal \/ LoopOver \/ Ended \/ UNCHANGED vars
  <2>1. /\ UNCHANGED <<enabled, file, written, speed, loop, records, next, tZero, began, sent>>
        /\ now' \in {now, now + 1} /\ now \in Nat
        /\ stop' = FALSE => stop = FALSE
        /\ pc' = pc \/ (pc = "pass" /\ pc' = "ended" /\ stop)
        /\ (pc' = "pass" => pc = "pass") /\ (pc' = pc \/ pc' = "ended")
    BY <1>1, <1>6, ReplayAssumption
       DEF Tick, Signal, LoopOver, Ended, vars, recVars, playVars, CommonTypes
  <2>2. now' \in Nat /\ speed' \in Speeds \cup {Unit} /\ loop' \in BOOLEAN
    BY <1>1, <2>1 DEF PlayerTypes
  <2>3. PlayerTypes'
    BY <1>2, <2>1, <2>2
  <2>4. BeforePlay'
    BY <1>1, <2>1 DEF BeforePlay
  <2>5. /\ Played' = Played /\ Readable(file)' = Readable(file)
        /\ OnEnabled(SubSeq(written, 1, next - 1))' = OnEnabled(SubSeq(written, 1, next - 1))
        /\ OnEnabled(Readable(file))' = OnEnabled(Readable(file))
    BY <1>1, <2>1 DEF Played, OnEnabled, Readable
  <2>6. stop' = stop \/ stop' = TRUE \/ pc' = pc
    BY <2>1
  <2>7. ASSUME ~stop' PROVE ~stop /\ pc' = pc
    BY <1>6, <2>7 DEF Tick, Signal, LoopOver, Ended, vars
  <2>8. pc' \in {"pass", "pacing"} => pc' = pc
    BY <2>1
  <2>9. PlayInv'
    <3>1. (pc \in {"pass", "pacing"} => records = Readable(file))'
      BY <2>1, <2>5, <2>8 DEF PlayInv
    <3>2. (pc = "pacing" => Played = OnEnabled(SubSeq(written, 1, next - 1)))'
      BY <2>5, <2>8 DEF PlayInv
    <3>3. (Passed /\ ~stop /\ NoAlien => Played = OnEnabled(Readable(file)))'
      <4>1. SUFFICES ASSUME (Passed /\ ~stop /\ NoAlien)'
                     PROVE  Played' = OnEnabled(Readable(file))'
        OBVIOUS
      <4>2. Passed /\ ~stop /\ NoAlien
        BY <2>1, <2>7, <4>1 DEF Passed, NoAlien
      <4> QED
        BY <2>5, <4>2 DEF PlayInv
    <3> QED
      BY <3>1, <3>2, <3>3 DEF PlayInv
  <2> QED
    BY <2>3, <2>4, <2>9
<1> QED
  BY <1>3, <1>4, <1>5, <1>6 DEF Next, Recorder, Player, World

-----------------------------------------------------------------------------
(* The three invariants together. *)

ReplayInv == TypeInv /\ FileInv /\ PlayInv

\* Nothing is recorded or published at first.
LEMMA ReplayInitially == Init => ReplayInv
<1> SUFFICES ASSUME Init PROVE ReplayInv
  OBVIOUS
<1>1. /\ <<>> \in Seq(Lines) /\ Len(<<>>) = 0 /\ DOMAIN <<>> = {}
      /\ <<>> \in Seq(1..Len(stream)) /\ <<>> \in Seq(ChannelSet)
      /\ <<>> \in Seq([record : Lines, at : 0..now])
      /\ 0 <= SubQueue /\ 0 < FlushEvery /\ 0 <= FlushEvery /\ 0 \in 0..MaxNow /\ 0 \in Nat
  BY EmptySeq, ReplayAssumption
<1>2. CommonTypes
  BY <1>1 DEF Init, CommonTypes
<1>3. Len(stream) \in Nat
  BY <1>2, StreamType
<1>4. RecorderTypes /\ FileTypes /\ PlayerTypes
  <2>1. RecorderTypes
    <3>1. \A c \in ChannelSet : subQ[c] = <<>>
      BY DEF Init
    <3> QED
      BY <1>1, <1>3, <3>1 DEF Init, RecorderTypes
  <2>2. FileTypes
    BY <1>1 DEF Init, FileTypes
  <2>3. PlayerTypes
    <3>1. /\ sent = <<>> /\ records = <<>> /\ next = 1 /\ tZero = 0 /\ began = 0 /\ now = 0
          /\ speed = Unit /\ loop = FALSE
      BY DEF Init
    <3>2. sent \in Seq([record : Lines, at : 0..now])
      BY <1>1, <3>1
    <3>3. records \in Seq(Lines) /\ Len(records) = 0
      BY <1>1, <3>1
    <3>4. next \in 1..(Len(records) + 1) /\ tZero \in 0..now /\ began \in 0..now
      BY <3>1, <3>3
    <3> QED
      BY <3>1, <3>2, <3>3, <3>4 DEF PlayerTypes
  <2> QED
    BY <2>1, <2>2, <2>3
<1>5. TypeInv
  BY <1>1, <1>2, <1>4, TypeParts DEF Init, TypeInv, ReadyInv, BeforePlay
<1>6. Readable(<<>>) = <<>>
  BY <1>1, ReadableRecords
<1>7. FileInv
  <2>1. FlushedUpTo(0, 0)
    <3>1. 0 = 0 * FlushEvery
      BY ReplayAssumption
    <3> QED
      BY <1>1, <3>1 DEF FlushedUpTo
  <2>2. SubSeq(<<>>, 1, 0) = <<>>
    BY <1>1, SubSeqEmpty
  <2>3. file = <<>> /\ written = <<>> /\ flushed = 0
    BY DEF Init
  <2>4. ReadsBack(file)
    <3>1. Readable(file) = <<>> /\ written = <<>>
      BY <1>6, <2>3
    <3>2. Len(<<>>) - Len(<<>>) <= FlushEvery
      BY <1>1
    <3> QED
      BY <1>1, <2>2, <3>1, <3>2 DEF ReadsBack
  <2>5. Recording => FlushAhead
    <3>1. FlushedUpTo(flushed, Len(file)) /\ FlushedUpTo(Len(file), Len(file))
      BY <1>1, <2>1, <2>3
    <3>2. flushed <= Len(file) /\ Len(file) - flushed <= FlushEvery
      BY <1>1, <2>3
    <3> QED
      BY <3>1, <3>2 DEF FlushAhead
  <2>6. \A i \in DOMAIN written : IsRecord(written[i])
    BY <1>1, <2>3
  <2> QED
    BY <2>3, <2>4, <2>5, <2>6 DEF FileInv
<1>8. PlayInv
  <2>1. sent = <<>> /\ pc \in {"record", "ended"}
    BY DEF Init
  <2>2. Played = [i \in {} |-> <<>>[i].record]
    BY <1>1, <2>1 DEF Played
  <2>3. Played = <<>>
    BY <2>2
  <2>4. OnEnabled(Readable(file)) = <<>>
    BY <1>6, OnEnabledOfNone DEF Init
  <2> QED
    BY <2>1, <2>3, <2>4 DEF PlayInv
<1> QED
  BY <1>5, <1>7, <1>8 DEF ReplayInv

\* Every step keeps them.
LEMMA ReplayKept == ReplayInv /\ [Next]_vars => ReplayInv'
<1> SUFFICES ASSUME ReplayInv, [Next]_vars PROVE ReplayInv'
  OBVIOUS
<1>1. TypeInv /\ FileInv /\ PlayInv
  BY DEF ReplayInv
<1>2. RecorderTypes' /\ ReadyInv' /\ CommonTypes'
  BY <1>1, RecorderStep, CommonStep
<1>3. FileTypes' /\ FileInv'
  BY <1>1, FileStep
<1>4. PlayerTypes' /\ BeforePlay' /\ PlayInv'
  BY <1>1, LoadReads, PassBegins, SendPublishes, PassEnds, OthersKeepPass
<1>5. TypeOK'
  BY <1>2, <1>3, <1>4, TypeParts DEF TypeOK, RecorderTypes, FileTypes, PlayerTypes, CommonTypes
<1> QED
  BY <1>2, <1>3, <1>4, <1>5 DEF ReplayInv, TypeInv

\* The types of the harness (replay/main.py, store.py).
THEOREM ReplayTypes == Spec => []TypeOK
<1>1. ReplayInv => TypeOK
  BY DEF ReplayInv, TypeInv
<1> QED
  BY ReplayInitially, ReplayKept, <1>1, PTL DEF Spec

\* Whenever the recorder is killed and whatever is then put into the file, what
\* can be read is the beginning of what arrived, at most FlushEvery records short:
\* so many when the kill falls between a line and its flush
\* (replay/main.py:113-116, store.py:61-74).
THEOREM CrashLosesFewRecords == Spec => []CrashLosesLittle
<1>1. ReplayInv => CrashLosesLittle
  BY DEF ReplayInv, FileInv, ReadsBack, CrashLosesLittle, IsPrefix
<1> QED
  BY ReplayInitially, ReplayKept, <1>1, PTL DEF Spec

\* A pass publishes what was recorded, of the channels that are enabled, record by
\* record, and a pass that is not stopped all that can be read of the file, unless
\* a line of it raises in read_all (replay/main.py:145-175, store.py:61-72).
THEOREM PlaybackIsTheRecording == Spec => []PlaysTheRecording
<1>1. ReplayInv => PlaysTheRecording
  BY DEF ReplayInv, PlayInv, PlaysTheRecording, Played, Passed, NoAlien
<1> QED
  BY ReplayInitially, ReplayKept, <1>1, PTL DEF Spec
=============================================================================
