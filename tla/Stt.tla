-------------------------------- MODULE Stt --------------------------------
(***************************************************************************)
(* The speech service: python/services/stt/main.py.                        *)
(*                                                                         *)
(* One thread reads utterances and pushes commands to the orchestrator     *)
(* over a bounded socket that blocks when it is full: the main thread in   *)
(* the modes once, file and audio, a daemon thread in interactive mode,    *)
(* where the main thread only waits for stop_event and then closes the     *)
(* socket under the reader.                                                *)
(*                                                                         *)
(* What an utterance says is abstracted to what the patterns tell apart.   *)
(* Who takes commands out of the socket is the business of the module      *)
(* that composes this one.                                                 *)
(***************************************************************************)
EXTENDS Integers, Sequences

CONSTANTS
    Scripts,    \* what may be said: sequences of utterances
    Modes,      \* the modes the service may be started in
    PushQueue   \* SNDHWM of the PUSH socket

\* "blank" is empty after strip(), also when Whisper heard nothing; "comment"
\* starts with #; "arm" and "abort" contain the word.
Utterances == {"blank", "comment", "plain", "arm", "abort"}

ASSUME SttAssumption ==
    /\ Scripts \subseteq Seq(Utterances)
    /\ Modes \subseteq {"once", "file", "audio", "interactive"}
    /\ PushQueue \in Nat \ {0}

VARIABLES
    sttMode,
    lines,       \* utterances not read yet
    sender,      \* where the sending thread is
    outgoing,    \* the utterance it is sending
    sttStop,     \* stop_event
    sttProcess,  \* "up", "closing" once the socket is closed, "gone"
    sendQ        \* commands in the PUSH socket

sttVars == <<sttMode, lines, sender, outgoing, sttStop, sttProcess, sendQ>>

OneShot == sttMode \in {"once", "audio"}
Interactive == sttMode = "interactive"

SttInit ==
    /\ sttMode \in Modes /\ lines \in Scripts
    /\ OneShot => Len(lines) = 1
    /\ sender = "next" /\ outgoing = "blank" /\ sttStop = FALSE
    /\ sttProcess = "up" /\ sendQ = <<>>

\* send() drops a blank text; --from-file passes over comments as well.
Skips(utterance) == utterance = "blank" \/ (utterance = "comment" /\ sttMode = "file")

\* The next utterance.  A one-shot mode does not look at stop_event, the
\* interactive reader looks once the line is there.
ReadLine ==
    /\ sender = "next" /\ lines # <<>>
    /\ OneShot \/ ~sttStop
    /\ lines' = Tail(lines)
    /\ IF Skips(Head(lines)) THEN UNCHANGED <<sender, outgoing>>
                             ELSE sender' = "sending" /\ outgoing' = Head(lines)
    /\ UNCHANGED <<sttMode, sttStop, sttProcess, sendQ>>

\* The clip is missing or of a sample width that is not read: the exception
\* ends the mode.
AudioFails ==
    /\ sttMode = "audio" /\ sender = "next" /\ lines # <<>>
    /\ sender' = "over" /\ lines' = <<>>
    /\ UNCHANGED <<sttMode, outgoing, sttStop, sttProcess, sendQ>>

\* Mutant: the abort keyword is not looked for.
CommandUnflagged(utterance) == IF utterance = "comment" THEN "plain" ELSE
                               IF utterance = "abort" THEN "abort_text" ELSE utterance

\* The command made of an utterance; "abort" is the one with is_abort set.
Command(utterance) == IF utterance = "comment" THEN "plain" ELSE utterance

\* Mutant: the socket has no high-water mark.
PushUnbounded ==
    /\ sender = "sending" /\ sttProcess = "up"
    /\ sendQ' = Append(sendQ, Command(outgoing)) /\ sender' = "next"
    /\ UNCHANGED <<sttMode, lines, outgoing, sttStop, sttProcess>>

\* push.send() blocks while the socket is full.
Push ==
    /\ sender = "sending" /\ sttProcess = "up" /\ Len(sendQ) < PushQueue
    /\ sendQ' = Append(sendQ, Command(outgoing)) /\ sender' = "next"
    /\ UNCHANGED <<sttMode, lines, outgoing, sttStop, sttProcess>>

\* The end of the lines, or stop_event seen between two of them; the
\* interactive reader raises stop_event in its finally.
NoMoreLines ==
    /\ sender = "next" /\ (lines = <<>> \/ (sttStop /\ ~OneShot))
    /\ sender' = "over" /\ sttStop' = (sttStop \/ Interactive)
    /\ UNCHANGED <<sttMode, lines, outgoing, sttProcess, sendQ>>

\* The socket was closed under the interactive reader: its exception ends it.
SendFails ==
    /\ sender = "sending" /\ sttProcess = "closing"
    /\ sender' = "over" /\ sttStop' = TRUE
    /\ UNCHANGED <<sttMode, lines, outgoing, sttProcess, sendQ>>

SttSignal ==
    /\ sttProcess = "up" /\ ~sttStop /\ sttStop' = TRUE
    /\ UNCHANGED <<sttMode, lines, sender, outgoing, sttProcess, sendQ>>

\* Mutant: the main thread joins the reader before it closes the socket.
SttCloseAfterReader ==
    /\ sttProcess = "up" /\ sender = "over"
    /\ sttProcess' = "closing" /\ sttStop' = TRUE
    /\ UNCHANGED <<sttMode, lines, sender, outgoing, sendQ>>

\* stop(), called by the main thread when run_* has returned.
SttClose ==
    /\ sttProcess = "up" /\ (sender = "over" \/ (Interactive /\ sttStop))
    /\ sttProcess' = "closing" /\ sttStop' = TRUE
    /\ UNCHANGED <<sttMode, lines, sender, outgoing, sendQ>>

\* term() returns once the socket is empty.
SttGone ==
    /\ sttProcess = "closing" /\ sendQ = <<>>
    /\ sttProcess' = "gone"
    /\ UNCHANGED <<sttMode, lines, sender, outgoing, sttStop, sendQ>>

\* Nobody took the rest within LINGER.
LingerExpires ==
    /\ sttProcess = "closing" /\ sendQ # <<>>
    /\ sttProcess' = "gone" /\ sendQ' = <<>>
    /\ UNCHANGED <<sttMode, lines, sender, outgoing, sttStop>>

SttStep ==
    ReadLine \/ AudioFails \/ Push \/ NoMoreLines \/ SendFails \/ SttSignal \/ SttClose \/ SttGone

SttTypeOK ==
    /\ sttMode \in Modes
    /\ lines \in Seq(Utterances)
    /\ sender \in {"next", "sending", "over"} /\ outgoing \in Utterances
    /\ sttStop \in BOOLEAN
    /\ sttProcess \in {"up", "closing", "gone"}
    /\ sendQ \in Seq(Utterances) /\ Len(sendQ) <= PushQueue
=============================================================================
