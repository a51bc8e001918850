-------------------------------- MODULE Log --------------------------------
(***************************************************************************)
(* The log (log.c): threads write messages of one or of several lines to   *)
(* the main log file, if one is open, and to stderr.  The mutex is held    *)
(* for one message on one stream; every stdio call between is a step.      *)
(*                                                                         *)
(* A message takes the time format and the log file without the mutex, and *)
(* OpenLogFile() closes the file without it: callers have to keep it apart *)
(* from messages, and OpenLogFile's guard says so.                         *)
(***************************************************************************)
EXTENDS Naturals, FiniteSets, SequencesExt

CONSTANTS Thread, LogFile, Stderr, NULL,
          MaxMessages,   \* bound: messages per thread
          MaxLines       \* bound: lines of a message

ASSUME StreamsAssumption == {Stderr, NULL} \cap LogFile = {} /\ Stderr # NULL
ASSUME ThreadsAssumption == NULL \notin Thread
ASSUME BoundsAssumption == MaxMessages \in Nat /\ MaxLines \in Nat

VARIABLES
    mainLogfile,   \* _mainLogfile
    logLevel,      \* whether messages of the threads' level are active
    logMutex,      \* _logMutex: its owner, or NULL
    written,       \* by stream: the pieces written to it
    msg,           \* by thread: the message in progress
    sent           \* by thread: the messages begun and their streams

vars == <<mainLogfile, logLevel, logMutex, written, msg, sent>>

Streams == LogFile \cup {Stderr}
Idle == [lines |-> 0]
Writing(t) == msg[t] # Idle

(* What a message writes to a stream: _LogMessagevl() its header, its text *)
(* and a newline, _LogMessageMultivl() header and text for every line.     *)
PiecesOf(multi, lines) == IF multi THEN 2 * lines ELSE 3

Piece == [by : Thread, nr : 1..MaxMessages, i : 1..(2 * MaxLines + 3), of : Nat]

(* The mutex has one owner, a thread that writes.                          *)
TypeOK ==
    /\ mainLogfile \in LogFile \cup {NULL}
    /\ logLevel \in BOOLEAN
    /\ logMutex \in {t \in Thread : Writing(t)} \cup {NULL}
    /\ \A s \in Streams : \A p \in ToSet(written[s]) : p \in Piece /\ p.i <= p.of
    /\ \A t \in Thread : Len(sent[t]) <= MaxMessages

Init ==
    /\ mainLogfile = NULL
    /\ logLevel = TRUE
    /\ logMutex = NULL
    /\ written = [s \in Streams |-> <<>>]
    /\ msg = [t \in Thread |-> Idle]
    /\ sent = [t \in Thread |-> <<>>]

(* The old file is closed; the new one is a stream nothing was written to. *)
OpenLogFile(f) ==
    /\ \A t \in Thread : ~Writing(t)
    /\ f # mainLogfile
    /\ f # NULL => written[f] = <<>>
    /\ mainLogfile' = f
    /\ UNCHANGED <<logLevel, logMutex, written, msg, sent>>

SetLogLevel ==
    /\ logLevel' = ~logLevel
    /\ UNCHANGED <<mainLogfile, logMutex, written, msg, sent>>

(* LogMessage(), LogMessageMulti(): the level is looked at, then the       *)
(* streams are taken.  `newlines' are those in the message buffer, `here'   *)
(* the lines that the loop finds for the current stream, `done' the pieces *)
(* that are on it.                                                         *)
OutStreams == IF mainLogfile = NULL THEN <<Stderr>> ELSE <<mainLogfile, Stderr>>

LogMessage(t, multi, lines) ==
    /\ ~Writing(t) /\ logLevel
    /\ Len(sent[t]) < MaxMessages
    /\ msg' = [msg EXCEPT ![t] = [lines |-> lines, multi |-> multi, done |-> 0,
                                  newlines |-> lines - 1, here |-> 0, outs |-> OutStreams]]
    /\ sent' = [sent EXCEPT ![t] = Append(@, [outs |-> ToSet(OutStreams),
                                              of |-> PiecesOf(multi, lines)])]
    /\ UNCHANGED <<mainLogfile, logLevel, logMutex, written>>

LockMutex(t) ==
    /\ Writing(t) /\ msg[t].outs # <<>> /\ msg[t].done = 0
    /\ logMutex = NULL
    /\ logMutex' = t
    /\ msg' = [msg EXCEPT ![t].here = msg[t].newlines + 1]
    /\ UNCHANGED <<mainLogfile, logLevel, written, sent>>

(* A newline is overwritten while its line is printed, and put back.       *)
\* Mutant: the newline is not put back, and the next stream's loop ends there.
NotRestored(m) == [m EXCEPT !.newlines = 0]

Restored(m) == m

DoneWith(m) == m.done = PiecesOf(m.multi, m.here)

\* Mutant: the header is printed before the mutex is taken.
MayWriteHeader(t) == logMutex = t \/ msg[t].done = 0

MayWrite(t) == logMutex = t

Fprintf(t) ==
    /\ Writing(t) /\ msg[t].outs # <<>>
    /\ MayWrite(t) /\ ~DoneWith(msg[t])
    /\ LET m == msg[t] 
           next == [m EXCEPT !.done = @ + 1]
       IN  /\ written' = [written EXCEPT ![Head(m.outs)] = Append(@,
                 [by |-> t, nr |-> Len(sent[t]), i |-> m.done + 1,
                  of |-> PiecesOf(m.multi, m.lines)])]
           /\ msg' = [msg EXCEPT ![t] =
                 IF m.multi /\ next.done % 2 = 0 THEN Restored(next) ELSE next]
    /\ UNCHANGED <<mainLogfile, logLevel, logMutex, sent>>

\* Mutant: the mutex is kept when a stream is done.
Keep(t) == t

Unlock(t) == NULL

UnlockMutex(t) ==
    /\ logMutex = t /\ Writing(t) /\ msg[t].outs # <<>> /\ DoneWith(msg[t])
    /\ logMutex' = Unlock(t)
    /\ msg' = [msg EXCEPT ![t].outs = Tail(@), ![t].done = 0]
    /\ UNCHANGED <<mainLogfile, logLevel, written, sent>>

Return(t) ==
    /\ Writing(t) /\ msg[t].outs = <<>>
    /\ msg' = [msg EXCEPT ![t] = Idle]
    /\ UNCHANGED <<mainLogfile, logLevel, logMutex, written, sent>>

Continue(t) == LockMutex(t) \/ Fprintf(t) \/ UnlockMutex(t) \/ Return(t)

Next ==
    \/ \E f \in LogFile \cup {NULL} : OpenLogFile(f)
    \/ SetLogLevel
    \/ \E t \in Thread :
         \/ Continue(t)
         \/ LogMessage(t, FALSE, 1)
         \/ \E n \in 1..MaxLines : LogMessage(t, TRUE, n)

(* A thread in a call goes on.  Each thread has finitely many messages, so *)
(* that a mutex that is released lets everyone in even without fairness of *)
(* its own.                                                                *)
Spec == Init /\ [][Next]_vars /\ \A t \in Thread : WF_vars(Continue(t))

-----------------------------------------------------------------------------
(* The lines of a message follow each other on every stream, with nothing  *)
(* of another thread's message between them, and nothing missing but at    *)
(* the end of what is being written.                                       *)
Whole == \A s \in Streams : \A k \in DOMAIN written[s] :
    LET p == written[s][k] IN
      IF p.i = 1 THEN k = 1 \/ written[s][k-1].i = written[s][k-1].of
      ELSE k > 1 /\ written[s][k-1] = [p EXCEPT !.i = p.i - 1]

(* A message that is over is complete on every stream it began with: the   *)
(* text that is edited while it goes to one stream is whole for the next.  *)
Complete == \A t \in Thread : \A n \in DOMAIN sent[t] :
    (n < Len(sent[t]) \/ ~Writing(t)) =>
        \A s \in sent[t][n].outs :
            \E k \in DOMAIN written[s] : LET p == written[s][k] IN
                p.by = t /\ p.nr = n /\ p.i = sent[t][n].of

(* Every message gets through to all its streams.                          *)
MessagesEnd == \A t \in Thread : Writing(t) ~> ~Writing(t)
=============================================================================
