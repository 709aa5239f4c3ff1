------------------------------- MODULE Replay -------------------------------
(***************************************************************************)
(* The replay harness: python/services/replay/main.py and store.py.        *)
(*                                                                         *)
(* `record` polls the sensor sockets and writes one line per message;      *)
(* `play` reads the lines back and publishes them with the recorded        *)
(* timing.  The module runs one after the other on one file, with a        *)
(* recorder that may be killed (its last lines are lost or torn) and a     *)
(* person who may put a line into the file in between.                     *)
(*                                                                         *)
(* A message is its number in the stream the sensor publishes; headers,    *)
(* payloads, JSON and base64 are reduced to whether a line can be read.    *)
(* Time is counted in ticks.  The file can be opened: a recorder or player *)
(* that cannot open it ends at once, having done nothing; an OSError while *)
(* a line is written is one of the crashes.                                *)
(***************************************************************************)
EXTENDS Enumeration, SequencesExt

CONSTANTS
    Channels,     \* the sensor channels, in the order of the config: the keys of a dict
    Streams,      \* what the sensor may publish: sequences of messages
    HandLines,    \* kinds of line a person may put into a recording
    Speeds,       \* values of --speed, in units of 1/Unit
    Unit,         \* --speed is not taken below 1/Unit
    MaxSeconds,   \* values of --max-seconds, 0 for no limit
    SubQueue,     \* RCVHWM of a SUB socket
    FlushEvery,   \* lines between two flushes
    MaxNow        \* bound on the clock

ChannelSet == ToSet(Channels)
\* A message has one part, a header that is not JSON, or is well formed.
Messages == [channel : ChannelSet, form : {"short", "malformed", "good"}]
\* A comment, a blank line and a line that is no JSON object with the four
\* fields are passed over; "alien" is JSON, but not an object, or with ts_ns null.
LineKinds == {"record", "comment", "torn", "alien"}

ASSUME ReplayAssumption ==
    /\ Channels \in Seq(ChannelSet) /\ IsInjective(Channels)
    /\ Streams \subseteq Seq(Messages) /\ HandLines \subseteq LineKinds \ {"record"}
    /\ Speeds \subseteq Int /\ MaxSeconds \subseteq Nat /\ MaxNow \in Nat
    /\ {Unit, SubQueue, FlushEvery} \subseteq Nat \ {0}

VARIABLES
    now,        \* time.monotonic_ns()
    stream,     \* what the sensor publishes
    published,  \* how much of it is out
    enabled,    \* channels with an endpoint in the config
    deadline,   \* of the recording, 0 for none
    subQ,       \* messages in the SUB socket of each channel
    ready,      \* channels the last poll found readable and not read yet
    file,       \* the lines of the recording
    flushed,    \* how many of them have certainly left the process
    written,    \* history: the records written
    pc,         \* where the process is
    stop,       \* the stop event
    speed, loop,  \* --speed, --loop
    records,    \* what read_all returned
    next,       \* the record play is at
    tZero,      \* t_zero_wall
    began,      \* history: when the pass began
    sent        \* what the pass has published, and when

recVars == <<stream, published, deadline, subQ, ready, file, flushed, written>>
playVars == <<speed, loop, records, next, tZero, began, sent>>
vars == <<now, enabled, pc, stop, recVars, playVars>>

Recording == pc \in {"record", "reading", "flushing"}
Playing == pc \in {"joining", "pass", "pacing"}

Init ==
    /\ now = 0 /\ stream \in Streams /\ published = 0
    /\ enabled \in SUBSET ChannelSet
    /\ deadline \in MaxSeconds
    /\ pc = IF enabled = {} THEN "ended" ELSE "record"
    /\ subQ = [c \in ChannelSet |-> <<>>] /\ ready = <<>>
    /\ file = <<>> /\ flushed = 0 /\ written = <<>> /\ stop = FALSE
    /\ speed = Unit /\ loop = FALSE
    /\ records = <<>> /\ next = 1 /\ tZero = 0 /\ began = 0 /\ sent = <<>>

----------------------------------------------------------------------------
(* The world: the clock, where a process reads it, the sensor, signals, a  *)
(* person with an editor.                                                  *)

Tick ==
    /\ Recording \/ pc = "pacing"
    /\ now < MaxNow /\ now' = now + 1
    /\ UNCHANGED <<enabled, pc, stop, recVars, playVars>>

\* Mutant: the SUB sockets have no high-water mark.
Unbounded(c) == c \in enabled

Room(c) == c \in enabled /\ Len(subQ[c]) < SubQueue

\* The sensor publishes; a full SUB socket drops what arrives.
Publish ==
    LET message == stream[published + 1]
        c == message.channel
    IN /\ Recording /\ published < Len(stream)
       /\ published' = published + 1
       /\ subQ' = IF Room(c) THEN [subQ EXCEPT ![c] = Append(@, published + 1)] ELSE subQ
       /\ UNCHANGED <<now, enabled, pc, stop, playVars>>
       /\ UNCHANGED <<stream, deadline, ready, file, flushed, written>>

\* SIGINT or SIGTERM.
Signal ==
    /\ Recording \/ Playing
    /\ ~stop /\ stop' = TRUE
    /\ UNCHANGED <<now, enabled, pc, recVars, playVars>>

Edit ==
    /\ pc = "recorded"
    /\ \A i \in 1..Len(file) : file[i].kind \notin HandLines \ {"torn"}
    /\ \E kind \in HandLines, i \in 1..(Len(file) + 1) :
          file' = InsertAt(file, i, [kind |-> kind, id |-> 0, ts |-> 0])
    /\ UNCHANGED <<now, enabled, pc, stop, playVars>>
    /\ UNCHANGED <<stream, published, deadline, subQ, ready, flushed, written>>

----------------------------------------------------------------------------
(* record                                                                  *)

\* The top of the loop: stop, the deadline, then the poll.  A poll that times
\* out changes nothing.
RecordOver == stop \/ (deadline > 0 /\ now >= deadline)

Poll ==
    /\ pc = "record" /\ ~RecordOver
    /\ ready' = Only(Channels, {i \in DOMAIN Channels :
                               Channels[i] \in enabled /\ subQ[Channels[i]] # <<>>})
    /\ ready' # <<>> /\ pc' = "reading"
    /\ UNCHANGED <<now, enabled, stop, playVars>>
    /\ UNCHANGED <<stream, published, deadline, subQ, file, flushed, written>>

\* Mutant: the file is left to its buffer.
NeverFlushed(count) == FALSE

FlushDue(count) == count % FlushEvery = 0

\* The for over the channels goes on, or back to the poll.
ReadOn(channels) == IF channels = <<>> THEN "record" ELSE "reading"

\* One message of one readable channel: a short or malformed one is dropped,
\* any other becomes a line, which may be one to flush after.
ReadOne ==
    LET c == Head(ready)
        id == Head(subQ[c])
        line == [kind |-> "record", id |-> id, ts |-> now]
    IN /\ pc = "reading"
       /\ subQ' = [subQ EXCEPT ![c] = Tail(@)]
       /\ ready' = Tail(ready)
       /\ IF stream[id].form = "good"
          THEN file' = Append(file, line) /\ written' = Append(written, line)
          ELSE UNCHANGED <<file, written>>
       /\ pc' = IF file' # file /\ FlushDue(Len(file')) THEN "flushing" ELSE ReadOn(Tail(ready))
       /\ UNCHANGED <<now, enabled, stop, stream, published, deadline, flushed, playVars>>

\* The flush is a step of its own: a kill may fall between a line and its flush.
Flush ==
    /\ pc = "flushing"
    /\ flushed' = Len(file) /\ pc' = ReadOn(ready)
    /\ UNCHANGED <<now, enabled, stop, playVars>>
    /\ UNCHANGED <<stream, published, deadline, subQ, ready, file, written>>

\* The sockets are gone, and what they held.
SocketsClosed ==
    /\ pc' = "recorded" /\ stop' = FALSE
    /\ subQ' = [c \in ChannelSet |-> <<>>] /\ ready' = <<>>
    /\ deadline' = 0 /\ flushed' = 0
    /\ UNCHANGED <<now, enabled, stream, published, written, playVars>>

\* Mutant: the loop only ends at its deadline.
EndRecordAtDeadline ==
    pc = "record" /\ deadline > 0 /\ now >= deadline /\ UNCHANGED file /\ SocketsClosed

\* The loop ends, the file and the sockets are closed.
EndRecord ==
    pc = "record" /\ RecordOver /\ UNCHANGED file /\ SocketsClosed

\* The recorder is killed: what was not flushed may be lost from any point on,
\* which may be in the middle of a line.
Crash ==
    /\ Recording
    /\ \E kept \in flushed..Len(file), torn \in BOOLEAN :
          /\ torn => kept < Len(file)
          /\ file' = IF torn THEN Append(SubSeq(file, 1, kept), [file[kept + 1] EXCEPT !.kind = "torn"])
                             ELSE SubSeq(file, 1, kept)
    /\ SocketsClosed

----------------------------------------------------------------------------
(* play                                                                    *)

\* play is started, with a config and a clock of its own; it binds and gives
\* subscribers a beat, or refuses when no channel is enabled.
StartPlay ==
    /\ pc = "recorded"
    /\ enabled' \in SUBSET ChannelSet /\ now' = 0
    /\ speed' \in Speeds /\ loop' \in BOOLEAN
    /\ pc' = IF enabled' = {} THEN "ended" ELSE "joining"
    /\ UNCHANGED <<stop, recVars, records, next, tZero, began, sent>>

\* read_all: lines that cannot be read are passed over ...
Readable(lines) == Only(lines, {i \in DOMAIN lines : lines[i].kind = "record"})

\* Mutant: the exception of a torn line is not expected either.
RaisesOnTorn(lines) == \E i \in 1..Len(lines) : lines[i].kind \in {"alien", "torn"}

\* ... but for those whose exception it does not expect.
Raises(lines) == \E i \in 1..Len(lines) : lines[i].kind = "alien"

\* The whole file is read before the first record is sent.
Load ==
    /\ pc = "joining"
    /\ records' = IF Raises(file) THEN <<>> ELSE Readable(file)
    /\ pc' = IF records' = <<>> THEN "ended" ELSE "pass"
    /\ UNCHANGED <<now, enabled, stop, recVars, speed, loop, next, tZero, began, sent>>

\* Mutant: a pass is timed from the start of the first one.
BeginPassOnOldClock ==
    /\ pc = "pass" /\ ~stop
    /\ pc' = "pacing" /\ next' = 1 /\ sent' = <<>> /\ began' = now
    /\ tZero' = IF sent = <<>> THEN now ELSE tZero
    /\ UNCHANGED <<now, enabled, stop, recVars, speed, loop, records>>

BeginPass ==
    /\ pc = "pass" /\ ~stop
    /\ pc' = "pacing" /\ next' = 1 /\ sent' = <<>> /\ began' = now
    /\ tZero' = now
    /\ UNCHANGED <<now, enabled, stop, recVars, speed, loop, records>>

\* offset_ns, with --speed bounded from below.
Offset(record) ==
    ((record.ts - records[1].ts) * Unit) \div (IF speed > 1 THEN speed ELSE 1)

\* The wait for the next record is over; it is published if its channel is
\* enabled.
Send ==
    LET record == records[next]
    IN /\ pc = "pacing" /\ ~stop /\ next <= Len(records)
       /\ now >= tZero + Offset(record)
       /\ next' = next + 1
       /\ sent' = IF stream[record.id].channel \in enabled
                  THEN Append(sent, [record |-> record, at |-> now]) ELSE sent
       /\ UNCHANGED <<now, enabled, pc, stop, recVars, speed, loop, records, tZero, began>>

\* The records are out, or stop was seen before one of them or in the wait.
PassOver ==
    /\ pc = "pacing" /\ (stop \/ next > Len(records))
    /\ pc' = IF loop THEN "pass" ELSE "ended"
    /\ UNCHANGED <<now, enabled, stop, recVars, playVars>>

\* With --loop only stop ends the passes.
LoopOver ==
    /\ pc = "pass" /\ stop /\ pc' = "ended"
    /\ UNCHANGED <<now, enabled, stop, recVars, playVars>>

Ended == pc = "ended" /\ UNCHANGED vars

----------------------------------------------------------------------------
Recorder == Poll \/ ReadOne \/ Flush \/ EndRecord
Player == Load \/ BeginPass \/ Send \/ PassOver \/ LoopOver
World == Tick \/ Publish \/ Signal \/ Edit \/ Crash \/ StartPlay
Next == Recorder \/ Player \/ World \/ Ended

Spec == Init /\ [][Next]_vars
FairSpec == Spec /\ WF_vars(Recorder) /\ WF_vars(Player)

----------------------------------------------------------------------------
(* Properties                                                              *)

Lines == [kind : LineKinds, id : 0..Len(stream), ts : 0..MaxNow]

TypeOK ==
    /\ now \in 0..MaxNow /\ stream \in Streams /\ published \in 0..Len(stream)
    /\ enabled \in SUBSET ChannelSet /\ stop \in BOOLEAN
    /\ deadline \in MaxSeconds \cup {0} /\ speed \in Speeds \cup {Unit} /\ loop \in BOOLEAN
    /\ DOMAIN subQ = ChannelSet
    /\ \A c \in ChannelSet : subQ[c] \in Seq(1..Len(stream)) /\ Len(subQ[c]) <= SubQueue
    /\ ready \in Seq(ChannelSet)
    /\ {file, written, records} \subseteq Seq(Lines)
    /\ flushed \in 0..Len(file)
    /\ pc \in {"record", "reading", "flushing", "recorded", "joining", "pass", "pacing", "ended"}
    /\ next \in 1..(Len(records) + 1)
    /\ {tZero, began} \subseteq 0..now
    /\ sent \in Seq([record : Lines, at : 0..now])

OnEnabled(lines) ==
    Only(lines, {i \in DOMAIN lines : stream[lines[i].id].channel \in enabled})

\* What a pass has published is, record for record and in the order of the
\* recording, what the recorder wrote, less the channels that are not enabled.  A
\* pass that is not stopped publishes all that can be read of the file, whatever a
\* crash left of it and wherever it was torn or a comment was put into it
\* (_run_play, read_all).  A file with an alien line is excepted: read_all raises
\* on it and nothing is played, whatever the comment at store.py:70 says.
PlaysTheRecording ==
    LET played == [i \in DOMAIN sent |-> sent[i].record]
        passed == pc = "ended" \/ (pc = "pass" /\ next > 1)
    IN /\ pc = "pacing" => played = OnEnabled(SubSeq(written, 1, next - 1))
       /\ passed /\ ~stop /\ (\A i \in DOMAIN file : file[i].kind # "alien") =>
             played = OnEnabled(Readable(file))

\* A record is never published earlier after the beginning of its pass than it
\* was recorded after the first one, at the speed asked for: in every pass, not
\* only in the first (t_zero_wall, _sleep_monotonic).
NeverEarly ==
    pc \in {"pacing", "pass", "ended"} =>
        \A i \in DOMAIN sent : sent[i].at >= began + Offset(sent[i].record)

\* A recorder that is killed loses at most the lines of one flush interval, all of
\* them when it is killed between the last of them and the flush, and what is left
\* can be read in the order of arrival, torn line or not (_run_record, read_all).
CrashLosesLittle ==
    ~Recording =>
        /\ IsPrefix(Readable(file), written)
        /\ Len(written) - Len(Readable(file)) <= FlushEvery

\* A signal ends record and play, however long the wait for the next record is
\* (the slices of _sleep_monotonic, the time-out of the poll).
StopEnds == stop ~> (pc = "ended" \/ ~stop)
=============================================================================
