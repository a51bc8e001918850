------------------------------ MODULE LogProofs ------------------------------
(***************************************************************************)
(* What the log promises, proved for any threads, log files and lengths of *)
(* messages: the lines of a message stay together on every stream, and no  *)
(* message lacks any on the streams it began with.                         *)
(***************************************************************************)
EXTENDS Log, SequenceTheorems, TLAPS

Message == [lines : Nat \ {0}, multi : BOOLEAN, done : Nat, newlines : Nat, here : Nat,
            outs : Seq(Streams)]

FieldTypes ==
    /\ msg \in [Thread -> {Idle} \cup Message]
    /\ written \in [Streams -> Seq(Piece)]
    /\ sent \in [Thread -> Seq([outs : SUBSET Streams, of : Nat])]

Pieces(t) == PiecesOf(msg[t].multi, msg[t].lines)
Newest(t) == Len(sent[t])

(* A message has found all of its lines when it has the mutex, and has     *)
(* nothing on its current stream when it has not.                          *)
MessagesOK == \A t \in Thread : Writing(t) =>
    /\ Pieces(t) \in 1..(2 * MaxLines + 3) /\ msg[t].newlines + 1 = msg[t].lines
    /\ sent[t] # <<>> /\ sent[t][Newest(t)].of = Pieces(t)
    /\ msg[t].done <= Pieces(t)
    /\ logMutex # t => msg[t].done = 0
    /\ logMutex = t => msg[t].outs # <<>> /\ msg[t].here = msg[t].lines

LastPiece(s) == written[s][Len(written[s])]
LatestOf(t) == [by |-> t, nr |-> Newest(t), i |-> msg[t].done, of |-> Pieces(t)]

(* A stream ends with the last piece of a message, or with the latest one  *)
(* of the message that has the mutex.                                      *)
EndsOK == \A s \in Streams : written[s] # <<>> =>
    \/ LastPiece(s).i = LastPiece(s).of
    \/ \E t \in Thread : logMutex = t /\ s = Head(msg[t].outs) /\ LastPiece(s) = LatestOf(t)

LatestOK == \A t \in Thread, s \in Streams :
    logMutex = t /\ msg[t].done > 0 /\ s = Head(msg[t].outs) =>
        written[s] # <<>> /\ LastPiece(s) = LatestOf(t)

(* The last piece of a message is on every stream that it is through with. *)
OnStream(s, t, n) == \E k \in DOMAIN written[s] :
    written[s][k].by = t /\ written[s][k].nr = n /\ written[s][k].i = sent[t][n].of

ThroughOK == \A t \in Thread : \A n \in DOMAIN sent[t] : \A s \in sent[t][n].outs :
    n < Newest(t) \/ ~Writing(t) \/ s \notin ToSet(msg[t].outs) => OnStream(s, t, n)

Inv == /\ TypeOK /\ FieldTypes /\ MessagesOK
       /\ EndsOK /\ LatestOK /\ ThroughOK /\ Whole

-----------------------------------------------------------------------------
(* Sequences and messages.                                                 *)

LEMMA ElementsAre ==
  ASSUME NEW S, NEW s \in Seq(S)
  PROVE  /\ \A e : e \in ToSet(s) <=> \E i \in 1..Len(s) : s[i] = e
         /\ ToSet(s) \subseteq S /\ DOMAIN s = 1..Len(s)
<1>1. DOMAIN s = 1..Len(s) /\ \A i \in 1..Len(s) : s[i] \in S
  OBVIOUS
<1> QED  BY <1>1 DEF ToSet

LEMMA Appended ==
  ASSUME NEW S, NEW s \in Seq(S), NEW e \in S, NEW r, r = Append(s, e)
  PROVE  /\ r \in Seq(S) /\ Len(s) \in Nat /\ Len(r) = Len(s) + 1 /\ r # <<>>
         /\ \A i \in 1..Len(s) : r[i] = s[i]
         /\ r[Len(s) + 1] = e
         /\ DOMAIN r = 1..(Len(s) + 1) /\ DOMAIN s = 1..Len(s)
         /\ s = <<>> => Len(s) = 0
  OBVIOUS

\* What is not the first element of a sequence is an element of the rest.
LEMMA Rest ==
  ASSUME NEW S, NEW s \in Seq(S), s # <<>>
  PROVE  /\ Head(s) \in S /\ Tail(s) \in Seq(S)
         /\ \A e : e \in ToSet(s) => e = Head(s) \/ e \in ToSet(Tail(s))
<1>1. PICK n \in Nat \ {0} : n = Len(s)
  BY EmptySeq
<1>2. PICK r \in Seq(S) : r = Tail(s) /\ Len(r) = n - 1 /\ \A i \in 1..(n - 1) : r[i] = s[i+1]
  BY <1>1, HeadTailProperties, ZenonT(30)
<1>3. Head(s) = s[1] /\ Head(s) \in S
  BY <1>1
<1>4. ASSUME NEW e \in ToSet(s), e # Head(s) PROVE e \in ToSet(r)
  <2>1. PICK i \in 1..n : s[i] = e
    BY <1>1, ElementsAre
  <2>2. i - 1 \in 1..(n - 1) /\ (i - 1) + 1 = i
    BY <1>3, <1>4, <2>1
  <2>3. r[i-1] = e
    BY <1>2, <2>1, <2>2
  <2> QED  BY <1>2, <2>2, <2>3, ElementsAre, ZenonT(30)
<1> QED  BY <1>2, <1>3, <1>4

LEMMA MessageType ==
  ASSUME FieldTypes, NEW t \in Thread
  PROVE  /\ Writing(t) <=> msg[t] \in Message
         /\ ~Writing(t) <=> msg[t] = Idle
<1>1. Idle.lines = 0
  BY DEF Idle
<1>2. \A m \in Message : m.lines \in Nat \ {0}
  BY DEF Message
<1>3. Idle \notin Message
  BY <1>1, <1>2
<1> QED  BY <1>3 DEF FieldTypes, Writing

LEMMA Pieced ==
  ASSUME NEW multi \in BOOLEAN, NEW n \in Nat \ {0}
  PROVE  PiecesOf(multi, n) \in Nat \ {0}
<1>1. 2 * n \in Nat \ {0}
  OBVIOUS
<1> QED  BY <1>1 DEF PiecesOf

LEMMA OutStreamsType ==
  ASSUME TypeOK
  PROVE  OutStreams \in Seq(Streams) /\ OutStreams # <<>> /\ ToSet(OutStreams) \subseteq Streams
<1>1. Stderr \in Streams /\ (mainLogfile # NULL => mainLogfile \in Streams)
  BY DEF TypeOK, Streams
<1>2. OutStreams \in Seq(Streams) /\ OutStreams # <<>>
  BY <1>1 DEF OutStreams
<1> QED  BY <1>2, ElementsAre

-----------------------------------------------------------------------------
(* The initial state, and the steps that are nobody's message's.           *)

LEMMA InitInv == Init => Inv
<1> SUFFICES ASSUME Init PROVE Inv
  OBVIOUS
<1>1. \A t \in Thread : ~Writing(t) /\ sent[t] = <<>> /\ msg[t] = Idle
  BY DEF Init, Writing
<1>2. \A s \in Streams : written[s] = <<>>
  BY DEF Init
<1>3. logMutex = NULL
  BY DEF Init
<1>4. FieldTypes
  <2>1. <<>> \in Seq(Piece) /\ <<>> \in Seq([outs : SUBSET Streams, of : Nat])
    OBVIOUS
  <2> QED  BY <2>1 DEF Init, FieldTypes
<1>5. TypeOK
  <2>1. \A s \in Streams : ToSet(written[s]) = {}
    BY <1>2 DEF ToSet
  <2>2. \A t \in Thread : Len(sent[t]) <= MaxMessages
    BY <1>1, BoundsAssumption
  <2> QED  BY <1>3, <2>1, <2>2 DEF TypeOK, Init
<1>6. MessagesOK /\ LatestOK
  BY <1>1, <1>3, ThreadsAssumption DEF MessagesOK, LatestOK
<1>7. EndsOK /\ ThroughOK /\ Whole
  BY <1>1, <1>2 DEF EndsOK, ThroughOK, Whole
<1> QED  BY <1>4, <1>5, <1>6, <1>7 DEF Inv

LEMMA OthersKeep ==
  ASSUME Inv, mainLogfile' \in LogFile \cup {NULL}, logLevel' \in BOOLEAN,
         UNCHANGED <<logMutex, written, msg, sent>>
  PROVE  Inv'
<1>1. TypeOK' /\ FieldTypes'
  BY DEF Inv, TypeOK, FieldTypes, Writing
<1>2. MessagesOK'
  BY DEF Inv, MessagesOK, Writing, Pieces, Newest
<1>3. EndsOK' /\ LatestOK'
  BY DEF Inv, EndsOK, LatestOK, LastPiece, LatestOf, Pieces, Newest
<1>4. ThroughOK'
  BY DEF Inv, ThroughOK, OnStream, Newest, Writing
<1>5. Whole'
  BY DEF Inv, Whole
<1> QED  BY <1>1, <1>2, <1>3, <1>4, <1>5 DEF Inv

LEMMA OpenLogFileKeeps ==
  ASSUME Inv, NEW f \in LogFile \cup {NULL}, OpenLogFile(f)
  PROVE  Inv'
BY OthersKeep DEF OpenLogFile, Inv, TypeOK

LEMMA SetLogLevelKeeps ==
  ASSUME Inv, SetLogLevel
  PROVE  Inv'
BY OthersKeep DEF SetLogLevel, Inv, TypeOK

-----------------------------------------------------------------------------
(* Steps of a message that write nothing.                                  *)

\* The other threads' messages stay as they are.
LEMMA Elsewhere ==
  ASSUME Inv, NEW t \in Thread, NEW m, msg' = [msg EXCEPT ![t] = m],
         NEW u \in Thread, u # t, sent'[u] = sent[u]
  PROVE  /\ msg'[u] = msg[u] /\ Pieces(u)' = Pieces(u) /\ LatestOf(u)' = LatestOf(u)
         /\ Newest(u)' = Newest(u) /\ Writing(u)' = Writing(u)
BY DEF Inv, FieldTypes, Pieces, LatestOf, Newest, Writing

LEMMA LogMessageKeeps ==
  ASSUME Inv, NEW t \in Thread, NEW multi \in BOOLEAN, NEW lines \in Nat \ {0},
         PiecesOf(multi, lines) \in 1..(2 * MaxLines + 3),
         LogMessage(t, multi, lines)
  PROVE  Inv'
<1>1. PICK outs \in Seq(Streams) : outs = OutStreams /\ ToSet(outs) \subseteq Streams
  BY OutStreamsType DEF Inv
<1>2. PICK m : m = [lines |-> lines, multi |-> multi, done |-> 0,
                    newlines |-> lines - 1, here |-> 0, outs |-> outs]
  OBVIOUS
<1>3. m \in Message /\ m.lines = lines /\ m.multi = multi /\ m.done = 0
      /\ m.newlines + 1 = m.lines /\ m.outs = outs
  BY <1>2 DEF Message
<1>4. PICK e : e = [outs |-> ToSet(outs), of |-> PiecesOf(multi, lines)]
  OBVIOUS
<1>5. e \in [outs : SUBSET Streams, of : Nat] /\ e.outs = ToSet(outs)
      /\ e.of = PiecesOf(multi, lines)
  BY <1>1, <1>4, Pieced
<1>6. PICK old, new : old = sent[t] /\ new = Append(old, e)
  OBVIOUS
<1>7. PICK n \in Nat : n = Len(old)
  BY <1>6 DEF Inv, FieldTypes
<1>8. /\ new \in Seq([outs : SUBSET Streams, of : Nat]) /\ Len(new) = n + 1 /\ new # <<>>
      /\ \A i \in 1..n : new[i] = old[i]
      /\ new[n + 1] = e
      /\ DOMAIN new = 1..(n + 1) /\ DOMAIN old = 1..n
  <2>1. old \in Seq([outs : SUBSET Streams, of : Nat])
    BY <1>6 DEF Inv, FieldTypes
  <2> QED  BY <1>5, <1>6, <1>7, <2>1, Appended
<1>9. /\ ~Writing(t) /\ Len(sent[t]) < MaxMessages
      /\ msg' = [msg EXCEPT ![t] = m] /\ sent' = [sent EXCEPT ![t] = new]
      /\ UNCHANGED <<mainLogfile, logLevel, logMutex, written>>
  BY <1>1, <1>2, <1>4, <1>6 DEF LogMessage
<1>10. msg'[t] = m /\ sent'[t] = new /\ Writing(t)'
       /\ Pieces(t)' = PiecesOf(multi, lines) /\ Newest(t)' = n + 1
  <2>1. msg'[t] = m /\ sent'[t] = new
    BY <1>9 DEF Inv, FieldTypes
  <2>2. m # Idle
    BY <1>3 DEF Message, Idle
  <2> QED  BY <1>3, <1>8, <2>1, <2>2 DEF Writing, Pieces, Newest
<1>11. \A u \in Thread : u # t => sent'[u] = sent[u]
  BY <1>9 DEF Inv, FieldTypes
<1>12. logMutex # t
  BY <1>9, ThreadsAssumption DEF Inv, TypeOK
<1>13. FieldTypes'
  BY <1>3, <1>8, <1>9 DEF Inv, FieldTypes
<1>14. TypeOK'
  <2>1. \A u \in Thread : Writing(u) => Writing(u)'
    BY <1>9, <1>10, <1>11, Elsewhere
  <2>2. logMutex' \in {u \in Thread : Writing(u)'} \cup {NULL}
    BY <1>9, <2>1 DEF Inv, TypeOK
  <2>3. n + 1 <= MaxMessages
    BY <1>6, <1>7, <1>9, BoundsAssumption
  <2>4. \A u \in Thread : Len(sent'[u]) <= MaxMessages
    BY <1>8, <1>10, <1>11, <2>3 DEF Inv, TypeOK
  <2> QED  BY <1>9, <2>2, <2>4 DEF Inv, TypeOK
<1>15. MessagesOK'
  <2>1. ASSUME NEW u \in Thread, u # t, Writing(u)'
        PROVE  /\ Pieces(u)' \in 1..(2 * MaxLines + 3) /\ msg'[u].newlines + 1 = msg'[u].lines
               /\ sent'[u] # <<>> /\ sent'[u][Newest(u)'].of = Pieces(u)'
               /\ msg'[u].done <= Pieces(u)'
               /\ logMutex' # u => msg'[u].done = 0
               /\ logMutex' = u => msg'[u].outs # <<>> /\ msg'[u].here = msg'[u].lines
    BY <1>9, <1>11, <2>1, Elsewhere DEF Inv, MessagesOK
  <2>2. /\ Pieces(t)' \in 1..(2 * MaxLines + 3) /\ msg'[t].newlines + 1 = msg'[t].lines
        /\ sent'[t] # <<>> /\ sent'[t][Newest(t)'].of = Pieces(t)'
        /\ msg'[t].done <= Pieces(t)' /\ msg'[t].done = 0
    BY <1>3, <1>5, <1>8, <1>10
  <2>3. logMutex' # t
    BY <1>9, <1>12
  <2> QED  BY <2>1, <2>2, <2>3 DEF MessagesOK
<1>16. EndsOK'
  <2> SUFFICES ASSUME NEW s \in Streams, written[s] # <<>>
               PROVE  \/ LastPiece(s).i = LastPiece(s).of
                      \/ \E u \in Thread : logMutex' = u /\ s = Head(msg'[u].outs)
                                           /\ LastPiece(s) = LatestOf(u)'
    BY <1>9 DEF EndsOK, LastPiece
  <2>1. ASSUME NEW u \in Thread, logMutex = u, s = Head(msg[u].outs), LastPiece(s) = LatestOf(u)
        PROVE  s = Head(msg'[u].outs) /\ LastPiece(s) = LatestOf(u)'
    BY <1>9, <1>11, <1>12, <2>1, Elsewhere
  <2> QED  BY <1>9, <2>1 DEF Inv, EndsOK
<1>17. LatestOK'
  <2> SUFFICES ASSUME NEW u \in Thread, NEW s \in Streams, logMutex = u, msg'[u].done > 0,
                      s = Head(msg'[u].outs)
               PROVE  written[s] # <<>> /\ LastPiece(s) = LatestOf(u)'
    BY <1>9 DEF LatestOK, LastPiece
  <2> QED  BY <1>9, <1>11, <1>12, Elsewhere DEF Inv, LatestOK
<1>18. ThroughOK'
  <2> SUFFICES ASSUME NEW u \in Thread, NEW k \in DOMAIN sent'[u], NEW s \in sent'[u][k].outs,
                      k < Newest(u)' \/ ~Writing(u)' \/ s \notin ToSet(msg'[u].outs)
               PROVE  \E i \in DOMAIN written[s] :
                        written[s][i].by = u /\ written[s][i].nr = k
                        /\ written[s][i].i = sent'[u][k].of
    BY <1>9 DEF ThroughOK, OnStream
  <2>1. CASE u # t
    <3>1. /\ sent'[u] = sent[u] /\ msg'[u] = msg[u]
          /\ Newest(u)' = Newest(u) /\ Writing(u)' = Writing(u)
      BY <1>9, <1>11, <2>1, Elsewhere
    <3>2. OnStream(s, u, k)
      BY <3>1 DEF Inv, ThroughOK
    <3> QED  BY <3>1, <3>2 DEF OnStream
  <2>2. CASE u = t
    <3>1. k \in 1..(n + 1) /\ k # n + 1
      BY <1>3, <1>5, <1>8, <1>10, <2>2
    <3>2. k \in 1..n /\ new[k] = old[k]
      BY <1>8, <3>1
    <3>3. k \in DOMAIN sent[t] /\ s \in sent[t][k].outs /\ sent'[t][k] = sent[t][k]
      BY <1>6, <1>8, <1>10, <2>2, <3>2
    <3> QED  BY <1>9, <2>2, <3>3 DEF Inv, ThroughOK, OnStream
  <2> QED  BY <2>1, <2>2
<1>19. Whole'
  BY <1>9 DEF Inv, Whole
<1> QED  BY <1>13, <1>14, <1>15, <1>16, <1>17, <1>18, <1>19 DEF Inv

\* What remains to be shown of a step in which a message has nothing on its
\* current stream afterwards.
LEMMA NothingYet ==
  ASSUME Inv, NEW t \in Thread, NEW m \in {Idle} \cup Message,
         msg' = [msg EXCEPT ![t] = m],
         UNCHANGED <<mainLogfile, logLevel, written, sent>>,
         (logMutex \in {NULL, t} /\ logMutex' \in {NULL, t}) \/ (logMutex' = logMutex /\ logMutex # t),
         logMutex' = t => m # Idle /\ m.outs # <<>> /\ m.here = m.lines,
         m # Idle =>
            /\ PiecesOf(m.multi, m.lines) \in 1..(2 * MaxLines + 3) /\ m.newlines + 1 = m.lines
            /\ sent[t] # <<>> /\ sent[t][Newest(t)].of = PiecesOf(m.multi, m.lines)
            /\ m.done = 0,
         logMutex = t =>
            \A s \in Streams : written[s] # <<>> => LastPiece(s).i = LastPiece(s).of,
         \A s \in sent[t][Newest(t)].outs :
            Newest(t) \in DOMAIN sent[t] /\ (m = Idle \/ s \notin ToSet(m.outs)) =>
                OnStream(s, t, Newest(t))
  PROVE  Inv'
<1>1. msg'[t] = m /\ (Writing(t)' <=> m # Idle)
  BY DEF Inv, FieldTypes, Writing
<1>2. m # Idle => Pieces(t)' = PiecesOf(m.multi, m.lines)
  BY <1>1 DEF Pieces
<1>3. Newest(t)' = Newest(t)
  BY DEF Newest
<1>4. ASSUME NEW u \in Thread, u # t
      PROVE  /\ msg'[u] = msg[u] /\ Pieces(u)' = Pieces(u) /\ LatestOf(u)' = LatestOf(u)
             /\ Newest(u)' = Newest(u) /\ Writing(u)' = Writing(u)
  BY <1>4, Elsewhere
<1>5. FieldTypes'
  BY DEF Inv, FieldTypes
<1>6. TypeOK'
  <2>1. logMutex' \in {u \in Thread : Writing(u)'} \cup {NULL}
    <3>1. CASE logMutex' \in {NULL, t}
      BY <1>1, <3>1
    <3>2. CASE logMutex' = logMutex /\ logMutex # t
      BY <1>4, <3>2 DEF Inv, TypeOK
    <3> QED  BY <3>1, <3>2
  <2> QED  BY <2>1 DEF Inv, TypeOK
<1>7. MessagesOK'
  <2>1. ASSUME NEW u \in Thread, u # t, Writing(u)'
        PROVE  /\ Pieces(u)' \in 1..(2 * MaxLines + 3) /\ msg'[u].newlines + 1 = msg'[u].lines
               /\ sent'[u] # <<>> /\ sent'[u][Newest(u)'].of = Pieces(u)'
               /\ msg'[u].done <= Pieces(u)'
               /\ logMutex' # u => msg'[u].done = 0
               /\ logMutex' = u => msg'[u].outs # <<>> /\ msg'[u].here = msg'[u].lines
    <3>1. logMutex' = u <=> logMutex = u
      BY <2>1, ThreadsAssumption
    <3> QED  BY <1>4, <2>1, <3>1 DEF Inv, MessagesOK
  <2>2. ASSUME Writing(t)'
        PROVE  /\ Pieces(t)' \in 1..(2 * MaxLines + 3) /\ msg'[t].newlines + 1 = msg'[t].lines
               /\ sent'[t] # <<>> /\ sent'[t][Newest(t)'].of = Pieces(t)'
               /\ msg'[t].done <= Pieces(t)'
               /\ logMutex' # t => msg'[t].done = 0
               /\ logMutex' = t => msg'[t].outs # <<>> /\ msg'[t].here = msg'[t].lines
    BY <1>1, <1>2, <1>3, <2>2
  <2> QED  BY <2>1, <2>2 DEF MessagesOK
<1>8. EndsOK'
  <2> SUFFICES ASSUME NEW s \in Streams, written[s] # <<>>
               PROVE  \/ LastPiece(s).i = LastPiece(s).of
                      \/ \E u \in Thread : logMutex' = u /\ s = Head(msg'[u].outs)
                                           /\ LastPiece(s) = LatestOf(u)'
    BY DEF EndsOK, LastPiece
  <2>1. ASSUME NEW u \in Thread, u # t, logMutex = u, s = Head(msg[u].outs),
               LastPiece(s) = LatestOf(u)
        PROVE  logMutex' = u /\ s = Head(msg'[u].outs) /\ LastPiece(s) = LatestOf(u)'
    BY <1>4, <2>1, ThreadsAssumption
  <2> QED  BY <2>1 DEF Inv, EndsOK
<1>9. LatestOK'
  <2> SUFFICES ASSUME NEW u \in Thread, NEW s \in Streams, logMutex' = u, msg'[u].done > 0,
                      s = Head(msg'[u].outs)
               PROVE  written[s] # <<>> /\ LastPiece(s) = LatestOf(u)'
    BY DEF LatestOK, LastPiece
  <2>1. u # t
    BY <1>1
  <2>2. logMutex = u
    BY <2>1, ThreadsAssumption
  <2> QED  BY <1>4, <2>1, <2>2 DEF Inv, LatestOK
<1>10. ThroughOK'
  <2> SUFFICES ASSUME NEW u \in Thread, NEW n \in DOMAIN sent[u], NEW s \in sent[u][n].outs,
                      n < Newest(u)' \/ ~Writing(u)' \/ s \notin ToSet(msg'[u].outs)
               PROVE  OnStream(s, u, n)
    BY DEF ThroughOK, OnStream
  <2>1. CASE u # t
    BY <1>4, <2>1 DEF Inv, ThroughOK
  <2>2. CASE u = t /\ n < Newest(t)
    BY <2>2 DEF Inv, ThroughOK
  <2>3. CASE u = t /\ ~(n < Newest(t))
    <3>1. n = Newest(t)
      <4>1. sent[t] \in Seq([outs : SUBSET Streams, of : Nat])
        BY DEF Inv, FieldTypes
      <4> QED  BY <2>3, <4>1 DEF Newest
    <3> QED  BY <1>1, <1>3, <2>3, <3>1
  <2> QED  BY <2>1, <2>2, <2>3
<1>11. Whole'
  BY DEF Inv, Whole
<1> QED  BY <1>5, <1>6, <1>7, <1>8, <1>9, <1>10, <1>11 DEF Inv

LEMMA LockMutexKeeps ==
  ASSUME Inv, NEW t \in Thread, LockMutex(t)
  PROVE  Inv'
<1>1. /\ Writing(t) /\ msg[t].outs # <<>> /\ msg[t].done = 0
      /\ logMutex = NULL /\ logMutex' = t
      /\ msg' = [msg EXCEPT ![t].here = msg[t].newlines + 1]
      /\ UNCHANGED <<mainLogfile, logLevel, written, sent>>
  BY DEF LockMutex
<1>2. PICK m : m = [msg[t] EXCEPT !.here = msg[t].newlines + 1]
  OBVIOUS
<1>3. msg' = [msg EXCEPT ![t] = m]
  BY <1>1, <1>2 DEF Inv, FieldTypes
<1>4. msg[t] \in Message
  BY <1>1, MessageType DEF Inv
<1>5. /\ m \in Message /\ m.lines = msg[t].lines /\ m.multi = msg[t].multi
      /\ m.outs = msg[t].outs /\ m.done = 0
      /\ m.here = msg[t].newlines + 1 /\ m.newlines = msg[t].newlines
  BY <1>1, <1>2, <1>4 DEF Message
<1>6. logMutex # t
  BY <1>1, ThreadsAssumption
<1>7. m # Idle
  BY <1>5 DEF Message, Idle
<1>8. /\ PiecesOf(m.multi, m.lines) \in 1..(2 * MaxLines + 3) /\ m.newlines + 1 = m.lines
      /\ sent[t] # <<>> /\ sent[t][Newest(t)].of = PiecesOf(m.multi, m.lines)
  BY <1>1, <1>5 DEF Inv, MessagesOK, Pieces
<1>9. \A s \in sent[t][Newest(t)].outs :
        Newest(t) \in DOMAIN sent[t] /\ (m = Idle \/ s \notin ToSet(m.outs)) =>
            OnStream(s, t, Newest(t))
  BY <1>5, <1>7 DEF Inv, ThroughOK
<1>10. m.outs # <<>> /\ m.here = m.lines /\ m \in {Idle} \cup Message
  BY <1>1, <1>5, <1>8
<1>11. UNCHANGED <<mainLogfile, logLevel, written, sent>>
       /\ logMutex \in {NULL, t} /\ logMutex' \in {NULL, t} /\ logMutex # t
  BY <1>1, <1>6
<1>12. m.done = 0
  BY <1>5
<1> QED  BY <1>3, <1>7, <1>8, <1>9, <1>10, <1>11, <1>12, NothingYet, Zenon

LEMMA ReturnKeeps ==
  ASSUME Inv, NEW t \in Thread, Return(t)
  PROVE  Inv'
<1>1. /\ Writing(t) /\ msg[t].outs = <<>> /\ msg' = [msg EXCEPT ![t] = Idle]
      /\ UNCHANGED <<mainLogfile, logLevel, logMutex, written, sent>>
  BY DEF Return
<1>2. logMutex # t
  BY <1>1 DEF Inv, MessagesOK
<1>3. ToSet(msg[t].outs) = {}
  BY <1>1 DEF ToSet
<1>4. \A s \in sent[t][Newest(t)].outs :
        Newest(t) \in DOMAIN sent[t] => OnStream(s, t, Newest(t))
  BY <1>3 DEF Inv, ThroughOK
<1> QED  BY <1>1, <1>2, <1>4, NothingYet

LEMMA UnlockMutexKeeps ==
  ASSUME Inv, NEW t \in Thread, UnlockMutex(t)
  PROVE  Inv'
<1>1. /\ logMutex = t /\ Writing(t) /\ msg[t].outs # <<>> /\ DoneWith(msg[t])
      /\ logMutex' = NULL
      /\ msg' = [msg EXCEPT ![t].outs = Tail(@), ![t].done = 0]
      /\ UNCHANGED <<mainLogfile, logLevel, written, sent>>
  BY DEF UnlockMutex, Unlock
<1>2. msg[t] \in Message
  BY <1>1, MessageType DEF Inv
<1>3. PICK outs : outs = msg[t].outs
  OBVIOUS
<1>4. outs \in Seq(Streams) /\ outs # <<>>
  BY <1>1, <1>2, <1>3 DEF Message
<1>5. PICK rest \in Seq(Streams) :
        /\ rest = Tail(outs) /\ Head(outs) \in Streams
        /\ \A e : e \in ToSet(outs) => e = Head(outs) \/ e \in ToSet(rest)
  BY <1>4, Rest
<1>6. PICK m : m = [msg[t] EXCEPT !.outs = rest, !.done = 0]
  OBVIOUS
<1>7. msg' = [msg EXCEPT ![t] = m]
  BY <1>1, <1>3, <1>5, <1>6 DEF Inv, FieldTypes
<1>8. /\ m \in Message /\ m.lines = msg[t].lines /\ m.multi = msg[t].multi
      /\ m.outs = rest /\ m.done = 0 /\ m.newlines = msg[t].newlines
  BY <1>2, <1>6 DEF Message
<1>9. m # Idle
  BY <1>8 DEF Message, Idle
<1>10. /\ Pieces(t) \in 1..(2 * MaxLines + 3) /\ msg[t].newlines + 1 = msg[t].lines
       /\ sent[t] # <<>> /\ sent[t][Newest(t)].of = Pieces(t)
       /\ msg[t].here = msg[t].lines
  BY <1>1 DEF Inv, MessagesOK
<1>11. msg[t].done = Pieces(t)
  BY <1>1, <1>10 DEF DoneWith, Pieces
<1>12. LatestOf(t).i = LatestOf(t).of
  BY <1>11 DEF LatestOf
<1>13. \A s \in Streams : written[s] # <<>> => LastPiece(s).i = LastPiece(s).of
  BY <1>1, <1>12 DEF Inv, EndsOK
<1>14. ASSUME NEW s \in sent[t][Newest(t)].outs, Newest(t) \in DOMAIN sent[t],
              s \notin ToSet(rest)
       PROVE  OnStream(s, t, Newest(t))
  <2>1. CASE s \notin ToSet(outs)
    BY <1>3, <1>14, <2>1 DEF Inv, ThroughOK
  <2>2. CASE s = Head(outs)
    <3>1. written[s] # <<>> /\ LastPiece(s) = LatestOf(t)
      BY <1>1, <1>3, <1>5, <1>10, <1>11, <2>2 DEF Inv, LatestOK
    <3>2. Len(written[s]) \in DOMAIN written[s]
      <4>1. PICK w \in Seq(Piece) : w = written[s]
        BY <1>5, <2>2 DEF Inv, FieldTypes
      <4> QED  BY <3>1, <4>1, EmptySeq, ElementsAre
    <3>3. LatestOf(t).by = t /\ LatestOf(t).nr = Newest(t) /\ LatestOf(t).i = Pieces(t)
      BY <1>11 DEF LatestOf
    <3> QED  BY <1>10, <3>1, <3>2, <3>3 DEF OnStream, LastPiece
  <2> QED  BY <1>5, <1>14, <2>1, <2>2
<1>15. logMutex' # t
  BY <1>1, ThreadsAssumption
<1>16. /\ PiecesOf(m.multi, m.lines) \in 1..(2 * MaxLines + 3) /\ m.newlines + 1 = m.lines
       /\ sent[t][Newest(t)].of = PiecesOf(m.multi, m.lines)
  BY <1>8, <1>10 DEF Pieces
<1>17. \A s \in sent[t][Newest(t)].outs :
         Newest(t) \in DOMAIN sent[t] /\ (m = Idle \/ s \notin ToSet(m.outs)) =>
             OnStream(s, t, Newest(t))
  BY <1>8, <1>9, <1>14
<1>18. UNCHANGED <<mainLogfile, logLevel, written, sent>>
       /\ logMutex \in {NULL, t} /\ logMutex' \in {NULL, t}
  BY <1>1
<1>19. m.done = 0 /\ m \in {Idle} \cup Message /\ sent[t] # <<>>
  BY <1>8, <1>10
<1>20. (logMutex \in {NULL, t} /\ logMutex' \in {NULL, t}) \/ (logMutex' = logMutex /\ logMutex # t)
  BY <1>18
<1>21. logMutex' = t => m # Idle /\ m.outs # <<>> /\ m.here = m.lines
  BY <1>15
<1>22. m # Idle =>
         /\ PiecesOf(m.multi, m.lines) \in 1..(2 * MaxLines + 3) /\ m.newlines + 1 = m.lines
         /\ sent[t] # <<>> /\ sent[t][Newest(t)].of = PiecesOf(m.multi, m.lines)
         /\ m.done = 0
  BY <1>16, <1>19
<1>23. UNCHANGED <<mainLogfile, logLevel, written, sent>>
  BY <1>18
<1> QED  BY <1>7, <1>13, <1>17, <1>19, <1>20, <1>21, <1>22, <1>23, NothingYet, Zenon

-----------------------------------------------------------------------------
(* The step that writes.                                                   *)

LEMMA FprintfKeeps ==
  ASSUME Inv, NEW t \in Thread, Fprintf(t)
  PROVE  Inv'
<1>1. /\ Writing(t) /\ msg[t].outs # <<>> /\ logMutex = t /\ ~DoneWith(msg[t])
      /\ UNCHANGED <<mainLogfile, logLevel, logMutex, sent>>
  BY DEF Fprintf, MayWrite
<1>2. msg[t] \in Message
  BY <1>1, MessageType DEF Inv
<1>3. PICK s : s = Head(msg[t].outs)
  OBVIOUS
<1>4. s \in Streams
  <2>1. msg[t].outs \in Seq(Streams)
    BY <1>2 DEF Message
  <2> QED  BY <1>1, <1>3, <2>1, Rest
<1>5. PICK p : p = [by |-> t, nr |-> Newest(t), i |-> msg[t].done + 1, of |-> Pieces(t)]
  OBVIOUS
<1>6. PICK m : m = [msg[t] EXCEPT !.done = @ + 1]
  OBVIOUS
<1>7. PICK old, new : old = written[s] /\ new = Append(old, p)
  OBVIOUS
<1>8. written' = [written EXCEPT ![s] = new] /\ msg' = [msg EXCEPT ![t] = m]
  BY <1>3, <1>5, <1>6, <1>7 DEF Fprintf, Restored, Newest, Pieces
<1>9. /\ m \in Message /\ m.lines = msg[t].lines /\ m.multi = msg[t].multi
      /\ m.outs = msg[t].outs /\ m.done = msg[t].done + 1
      /\ m.newlines = msg[t].newlines /\ m.here = msg[t].here /\ msg[t].done \in Nat
  BY <1>2, <1>6 DEF Message
<1>10. /\ Pieces(t) \in 1..(2 * MaxLines + 3) /\ msg[t].newlines + 1 = msg[t].lines
       /\ sent[t] # <<>> /\ sent[t][Newest(t)].of = Pieces(t)
       /\ msg[t].done <= Pieces(t) /\ msg[t].here = msg[t].lines
  BY <1>1 DEF Inv, MessagesOK
<1>11. m.done <= Pieces(t) /\ m.done \in 1..(2 * MaxLines + 3)
  <2>1. msg[t].done # Pieces(t)
    BY <1>1, <1>10 DEF DoneWith, Pieces
  <2> QED  BY <1>9, <1>10, <2>1, BoundsAssumption
<1>12. Newest(t) \in 1..MaxMessages
  <2>1. sent[t] \in Seq([outs : SUBSET Streams, of : Nat]) /\ Len(sent[t]) <= MaxMessages
    BY DEF Inv, FieldTypes, TypeOK
  <2> QED  BY <1>10, <2>1, EmptySeq, BoundsAssumption DEF Newest
<1>13. /\ p \in Piece /\ p.by = t /\ p.nr = Newest(t) /\ p.i = m.done /\ p.of = Pieces(t)
       /\ p.i <= p.of
  BY <1>5, <1>9, <1>10, <1>11, <1>12 DEF Piece
<1>14. PICK n \in Nat : n = Len(old)
  BY <1>4, <1>7 DEF Inv, FieldTypes
<1>15. /\ old \in Seq(Piece) /\ new \in Seq(Piece) /\ Len(new) = n + 1 /\ new # <<>>
       /\ \A i \in 1..n : new[i] = old[i]
       /\ new[n + 1] = p
       /\ DOMAIN new = 1..(n + 1) /\ DOMAIN old = 1..n /\ (old = <<>> => n = 0)
  <2>1. old \in Seq(Piece)
    BY <1>4, <1>7 DEF Inv, FieldTypes
  <2> QED  BY <1>7, <1>13, <1>14, <2>1, Appended
<1>16. /\ written'[s] = new /\ \A r \in Streams : r # s => written'[r] = written[r]
       /\ msg'[t] = m
  BY <1>4, <1>8 DEF Inv, FieldTypes
<1>17. /\ Writing(t)' /\ Pieces(t)' = Pieces(t) /\ Newest(t)' = Newest(t)
       /\ LatestOf(t)' = p
  <2>1. m # Idle
    BY <1>9 DEF Message, Idle
  <2>2. Writing(t)' /\ Pieces(t)' = Pieces(t) /\ Newest(t)' = Newest(t)
    BY <1>1, <1>9, <1>16, <2>1 DEF Writing, Pieces, Newest
  <2> QED  BY <1>5, <1>9, <1>16, <2>2 DEF LatestOf
<1>18. ASSUME NEW u \in Thread, u # t
       PROVE  /\ msg'[u] = msg[u] /\ Pieces(u)' = Pieces(u) /\ LatestOf(u)' = LatestOf(u)
              /\ Newest(u)' = Newest(u) /\ Writing(u)' = Writing(u)
  BY <1>1, <1>8, <1>18, Elsewhere
<1>19. FieldTypes'
  BY <1>1, <1>8, <1>9, <1>15 DEF Inv, FieldTypes
<1>20. TypeOK'
  <2>1. \A r \in Streams : \A q \in ToSet(written'[r]) : q \in Piece /\ q.i <= q.of
    <3>1. \A q \in ToSet(new) : q \in ToSet(old) \/ q = p
      BY <1>14, <1>15 DEF ToSet
    <3>2. \A q \in ToSet(new) : q \in Piece /\ q.i <= q.of
      BY <1>4, <1>7, <1>13, <3>1 DEF Inv, TypeOK
    <3> QED  BY <1>16, <3>2 DEF Inv, TypeOK
  <2>2. logMutex' \in {u \in Thread : Writing(u)'} \cup {NULL}
    BY <1>1, <1>17
  <2> QED  BY <1>1, <2>1, <2>2 DEF Inv, TypeOK
<1>21. MessagesOK'
  <2>1. ASSUME NEW u \in Thread, u # t, Writing(u)'
        PROVE  /\ Pieces(u)' \in 1..(2 * MaxLines + 3) /\ msg'[u].newlines + 1 = msg'[u].lines
               /\ sent'[u] # <<>> /\ sent'[u][Newest(u)'].of = Pieces(u)'
               /\ msg'[u].done <= Pieces(u)'
               /\ logMutex' # u => msg'[u].done = 0
               /\ logMutex' = u => msg'[u].outs # <<>> /\ msg'[u].here = msg'[u].lines
    BY <1>1, <1>18, <2>1 DEF Inv, MessagesOK
  <2>2. /\ Pieces(t)' \in 1..(2 * MaxLines + 3) /\ msg'[t].newlines + 1 = msg'[t].lines
        /\ sent'[t] # <<>> /\ sent'[t][Newest(t)'].of = Pieces(t)'
        /\ msg'[t].done <= Pieces(t)' /\ logMutex' = t
        /\ msg'[t].outs # <<>> /\ msg'[t].here = msg'[t].lines
    BY <1>1, <1>9, <1>10, <1>11, <1>16, <1>17
  <2> QED  BY <2>1, <2>2 DEF MessagesOK
<1>22. LastPiece(s)' = p
  BY <1>15, <1>16 DEF LastPiece
<1>23. EndsOK'
  <2> SUFFICES ASSUME NEW r \in Streams, written'[r] # <<>>
               PROVE  \/ LastPiece(r)'.i = LastPiece(r)'.of
                      \/ \E u \in Thread : logMutex' = u /\ r = Head(msg'[u].outs)
                                           /\ LastPiece(r)' = LatestOf(u)'
    BY DEF EndsOK
  <2>1. CASE r = s
    BY <1>1, <1>3, <1>9, <1>16, <1>17, <1>22, <2>1
  <2>2. CASE r # s
    <3>1. LastPiece(r)' = LastPiece(r) /\ written[r] # <<>>
      BY <1>16, <2>2 DEF LastPiece
    <3>2. LastPiece(r).i = LastPiece(r).of
      BY <1>1, <1>3, <2>2, <3>1 DEF Inv, EndsOK
    <3> QED  BY <3>1, <3>2
  <2> QED  BY <2>1, <2>2
<1>24. LatestOK'
  <2>1. s = Head(msg'[t].outs) /\ written'[s] # <<>> /\ LastPiece(s)' = LatestOf(t)'
    BY <1>3, <1>9, <1>15, <1>16, <1>17, <1>22
  <2> QED  BY <1>1, <2>1 DEF LatestOK
<1>25. ThroughOK'
  <2> SUFFICES ASSUME NEW u \in Thread, NEW k \in DOMAIN sent[u], NEW r \in sent[u][k].outs,
                      k < Newest(u)' \/ ~Writing(u)' \/ r \notin ToSet(msg'[u].outs)
               PROVE  \E i \in DOMAIN written'[r] :
                        written'[r][i].by = u /\ written'[r][i].nr = k
                        /\ written'[r][i].i = sent[u][k].of
    BY <1>1 DEF ThroughOK, OnStream
  <2>1. k < Newest(u) \/ ~Writing(u) \/ r \notin ToSet(msg[u].outs)
    BY <1>9, <1>16, <1>17, <1>18
  <2>2. PICK i \in DOMAIN written[r] :
          written[r][i].by = u /\ written[r][i].nr = k /\ written[r][i].i = sent[u][k].of
    BY <2>1 DEF Inv, ThroughOK, OnStream
  <2>3. r \in Streams
    <3>1. PICK q \in Seq([outs : SUBSET Streams, of : Nat]) : q = sent[u]
      BY DEF Inv, FieldTypes
    <3>2. k \in 1..Len(q)
      BY <3>1, ElementsAre
    <3>3. q[k] \in [outs : SUBSET Streams, of : Nat]
      BY <3>2, ElementOfSeq, Zenon
    <3> QED  BY <3>1, <3>3
  <2>4. i \in DOMAIN written'[r] /\ written'[r][i] = written[r][i]
    BY <1>7, <1>14, <1>15, <1>16, <2>3
  <2> QED  BY <2>2, <2>4
<1>26. Whole'
  <2>1. ASSUME NEW k \in DOMAIN new
        PROVE  IF new[k].i = 1 THEN k = 1 \/ new[k-1].i = new[k-1].of
               ELSE k > 1 /\ new[k-1] = [new[k] EXCEPT !.i = new[k].i - 1]
    <3>1. CASE k \in 1..n
      <4>1. IF old[k].i = 1 THEN k = 1 \/ old[k-1].i = old[k-1].of
            ELSE k > 1 /\ old[k-1] = [old[k] EXCEPT !.i = old[k].i - 1]
        BY <1>4, <1>7, <1>15, <3>1 DEF Inv, Whole
      <4>2. k = 1 \/ k - 1 \in 1..n
        BY <3>1
      <4> QED  BY <1>15, <3>1, <4>1, <4>2
    <3>2. CASE k = n + 1 /\ msg[t].done = 0
      <4>1. new[k].i = 1
        BY <1>9, <1>13, <1>15, <3>2
      <4>2. CASE n = 0
        BY <3>2, <4>1, <4>2
      <4>3. CASE n # 0
        <5>1. n \in 1..n /\ k - 1 = n /\ old # <<>>
          BY <1>14, <3>2, <4>3
        <5>2. old[n] \in Piece /\ LastPiece(s) = old[n] /\ new[n] = old[n]
          BY <1>7, <1>14, <1>15, <5>1 DEF LastPiece
        <5>3. old[n].i # 0
          BY <5>2 DEF Piece
        <5>4. LatestOf(t).i = 0
          BY <3>2 DEF LatestOf
        <5>5. old[n].i = old[n].of
          BY <1>1, <1>4, <1>7, <5>1, <5>2, <5>3, <5>4 DEF Inv, EndsOK
        <5> QED  BY <4>1, <5>1, <5>2, <5>5
      <4> QED  BY <4>2, <4>3
    <3>3. CASE k = n + 1 /\ msg[t].done # 0
      <4>1. old # <<>> /\ LastPiece(s) = LatestOf(t)
        BY <1>1, <1>3, <1>4, <1>7, <1>9, <3>3 DEF Inv, LatestOK
      <4>2. n \in 1..n /\ k - 1 = n
        BY <1>14, <1>15, <3>3, <4>1, EmptySeq
      <4>3. new[n] = LatestOf(t)
        BY <1>7, <1>14, <1>15, <4>1, <4>2 DEF LastPiece
      <4>4. new[k] = p /\ new[k].i # 1
        BY <1>9, <1>13, <1>15, <3>3
      <4>5. LatestOf(t) = [p EXCEPT !.i = p.i - 1]
        BY <1>5, <1>9, <1>13 DEF LatestOf
      <4> QED  BY <1>14, <3>3, <4>2, <4>3, <4>4, <4>5
    <3> QED  BY <1>14, <1>15, <3>1, <3>2, <3>3
  <2> QED  BY <1>16, <2>1 DEF Inv, Whole
<1> QED  BY <1>19, <1>20, <1>21, <1>23, <1>24, <1>25, <1>26 DEF Inv

-----------------------------------------------------------------------------
(* The theorems.                                                           *)

LEMMA NextInv == Inv /\ [Next]_vars => Inv'
<1> SUFFICES ASSUME Inv, [Next]_vars PROVE Inv'
  OBVIOUS
<1>1. ASSUME NEW f \in LogFile \cup {NULL}, OpenLogFile(f) PROVE Inv'
  BY <1>1, OpenLogFileKeeps
<1>2. CASE SetLogLevel
  BY <1>2, SetLogLevelKeeps
<1>3. ASSUME NEW t \in Thread, Continue(t) PROVE Inv'
  BY <1>3, LockMutexKeeps, FprintfKeeps, UnlockMutexKeeps, ReturnKeeps DEF Continue
<1>4. ASSUME NEW t \in Thread, LogMessage(t, FALSE, 1) PROVE Inv'
  <2>1. PiecesOf(FALSE, 1) \in 1..(2 * MaxLines + 3)
    BY BoundsAssumption DEF PiecesOf
  <2>2. FALSE \in BOOLEAN /\ 1 \in Nat \ {0}
    OBVIOUS
  <2> QED  BY <1>4, <2>1, <2>2, LogMessageKeeps, Zenon
<1>5. ASSUME NEW t \in Thread, NEW n \in 1..MaxLines, LogMessage(t, TRUE, n) PROVE Inv'
  <2>1. PiecesOf(TRUE, n) \in 1..(2 * MaxLines + 3) /\ n \in Nat \ {0}
    BY BoundsAssumption DEF PiecesOf
  <2> QED  BY <1>5, <2>1, LogMessageKeeps
<1>6. CASE UNCHANGED vars
  BY <1>6, OthersKeep DEF vars, Inv, TypeOK
<1> QED  BY <1>1, <1>2, <1>3, <1>4, <1>5, <1>6 DEF Next

(* A stream ends where a message ends, or where the message that holds the *)
(* mutex stands; and a message is on all the streams it is through with.   *)
THEOREM Invariance == Spec => []Inv
<1>1. Init => Inv
  BY InitInv
<1>2. Inv /\ [Next]_vars => Inv'
  BY NextInv
<1> QED  BY <1>1, <1>2, PTL DEF Spec

\* Every variable has its type, and the mutex's owner is writing a message.
THEOREM Typing == Spec => []TypeOK
<1>1. Inv => TypeOK
  BY DEF Inv
<1> QED  BY <1>1, Invariance, PTL

(* The lines of a message of LogMessage() and LogMessageMulti() stay       *)
(* together on every stream, however many threads write.                   *)
THEOREM StaysWhole == Spec => []Whole
<1>1. Inv => Whole
  BY DEF Inv
<1> QED  BY <1>1, Invariance, PTL

(* A message that is over is on all its streams to its last piece, though  *)
(* its text is edited on the way to each of them.                          *)
THEOREM ArrivesComplete == Spec => []Complete
<1>1. Inv => Complete
  BY DEF Inv, ThroughOK, OnStream, Newest, Complete
<1> QED  BY <1>1, Invariance, PTL
=============================================================================
