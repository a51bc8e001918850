----------------------- MODULE PSQLConnectionProofs -----------------------
(***************************************************************************)
(* What a PostgreSQL connection promises, proved for every set of timeouts *)
(* and every length of a query: a call returns the answer to its own       *)
(* request, the facade and the server agree on the statement's name, and   *)
(* an exception loses at most one result.                                  *)
(*                                                                         *)
(* The invariant is about what is on its way to the client: the answers to *)
(* the request in progress and nothing else, and nothing at all when the   *)
(* connection is free.                                                     *)
(*                                                                         *)
(* The second part is about the driver's other job, the placeholders: for  *)
(* every text, what the loop has written is what SQL's tokens ask for.     *)
(***************************************************************************)
EXTENDS PSQLConnection, Placeholders,
        SequenceTheorems, FiniteSetTheorems, WellFoundedInduction, TLAPS

Message == Result \cup {End}

FieldTypes ==
    /\ conn \in [busy : BOOLEAN, in : Seq(Message)]
    /\ wire \in [sent : Seq(Message), here : Nat]
    /\ server \in [todo : Requests \cup {Nothing}, named : BOOLEAN]
    /\ up \in BOOLEAN /\ turn \in {0, 1} /\ leaked \in 0..2

\* The requests of a call that are left to do.
Plans == {<<"query">>, <<"execute">>, <<"dealloc">>, <<"dealloc", "prepare", "describe">>,
          <<"prepare", "describe">>, <<"describe">>}

PlanOK == plan = <<>> \/ plan \in Plans

\* What the client has read, and then what is on the socket.
Coming == conn.in \o wire.sent

(* The results of the request in progress.  Only a final one is an error; the *)
(* description of a statement never is; and a name the server has prepared *)
(* is one it knows.                                                        *)
Answers == {r \in Result :
    /\ r.of = plan[1] /\ r.turn = turn
    /\ ~r.final => r.ok
    /\ plan[1] = "describe" => r.ok
    /\ up /\ plan[1] = "prepare" /\ r.final => (r.ok <=> server.named)}

(* A free connection has nothing on its way.                               *)
Quiet == Coming = <<>> /\ server.todo = Nothing

IdleOK == pc = "idle" =>
    /\ last = NULL
    /\ ~conn.busy => Quiet
    /\ returned \notin Thrown => returned.turn = turn /\ returned.final /\ returned.ok

FlushOK == pc = "flush" => conn.busy /\ last = NULL /\ Quiet

FetchOK == pc = "fetch" =>
    /\ conn.busy
    /\ server.todo \in {Nothing, plan[1]}
    /\ server.todo # Nothing => Coming = <<>> /\ last = NULL
    /\ last # NULL => last \in Answers

(* The end comes after the final result and after nothing else.            *)
ComingOK == pc = "fetch" =>
    /\ \A p \in 1..Len(Coming) : Coming[p] # End => Coming[p] \in Answers
    /\ \A p \in 1..Len(Coming) : Coming[p] = End => p = Len(Coming)
    /\ \A p \in 1..(Len(Coming) - 1) : Coming[p].final <=> Coming[p+1] = End
    /\ Coming # <<>> => (Coming[1] = End <=> last # NULL /\ last.final)

Served == pc = "fetch" /\ server.todo = Nothing

(* What the server knows at each request of a call.                        *)
NamesOK == up /\ pc # "idle" =>
    /\ plan[1] = "query" => (prepared <=> server.named)
    /\ plan[1] = "execute" => prepared /\ server.named
    /\ plan[1] \in {"dealloc", "prepare", "describe"} => ~prepared
    /\ plan[1] = "dealloc" => (server.named <=> ~Served)
    /\ plan[1] = "prepare" /\ ~Served => ~server.named
    /\ plan[1] = "describe" => server.named

LostOK == leaked <= 1 /\ (leaked = 1 => conn.busy /\ pc = "idle")

Inv == /\ TypeOK /\ FieldTypes /\ PlanOK
       /\ IdleOK /\ FlushOK /\ FetchOK /\ ComingOK
       /\ NamesOK /\ NamesAgree /\ LostOK

-----------------------------------------------------------------------------
(* Sequences.                                                              *)

LEMMA Cut ==
  ASSUME NEW S, NEW s \in Seq(S), NEW n \in 0..Len(s)
  PROVE  /\ SubSeq(s, 1, n) \in Seq(S) /\ SubSeq(s, n + 1, Len(s)) \in Seq(S)
         /\ SubSeq(s, 1, n) \o SubSeq(s, n + 1, Len(s)) = s
         /\ Len(SubSeq(s, 1, n)) = n
         /\ \A p \in 1..n : SubSeq(s, 1, n)[p] = s[p]
<1>1. PICK k \in Nat : k = Len(s)
  OBVIOUS
<1>2. /\ SubSeq(s, 1, n) \in Seq(S) /\ Len(SubSeq(s, 1, n)) = n
      /\ \A p \in 1..n : SubSeq(s, 1, n)[p] = s[p]
  BY <1>1
<1>3. SubSeq(s, n + 1, k) \in Seq(S)
  BY <1>1
<1>4. SubSeq(s, 1, n) \o SubSeq(s, n + 1, k) = SubSeq(s, 1, k)
  <2>1. 1 \in 1..Len(s) + 1 /\ n \in 1 - 1..Len(s) /\ k \in n..Len(s)
    BY <1>1
  <2> QED  BY <2>1, ConcatAdjacentSubSeq, Zenon
<1>5. SubSeq(s, 1, k) = s
  BY <1>1, SubSeqFull
<1> QED  BY <1>1, <1>2, <1>3, <1>4, <1>5

LEMMA Joined ==
  ASSUME NEW S, NEW a \in Seq(S), NEW b \in Seq(S)
  PROVE  /\ a \o b \in Seq(S) /\ Len(a \o b) = Len(a) + Len(b)
         /\ \A p \in 1..Len(a) : (a \o b)[p] = a[p]
         /\ \A p \in (Len(a) + 1)..(Len(a) + Len(b)) : (a \o b)[p] = b[p - Len(a)]
         /\ a \o b = <<>> <=> a = <<>> /\ b = <<>>
         /\ a = <<>> => a \o b = b
         /\ b = <<>> => a \o b = a
         /\ Len(a \o b) \in Nat
  OBVIOUS

LEMMA OneRead ==
  ASSUME NEW S, NEW a \in Seq(S), NEW b \in Seq(S), a # <<>>,
         NEW c, c = a \o b, NEW t, t = Tail(a), NEW d, d = t \o b
  PROVE  /\ c \in Seq(S) /\ t \in Seq(S) /\ d \in Seq(S)
         /\ Len(c) \in Nat \ {0} /\ Len(d) = Len(c) - 1
         /\ Head(a) = c[1] /\ \A p \in 1..(Len(c) - 1) : d[p] = c[p+1]
<1>1. PICK n \in Nat \ {0} : n = Len(a)
  BY EmptySeq
<1>2. t \in Seq(S) /\ Len(t) = n - 1 /\ \A p \in 1..(n - 1) : t[p] = a[p+1]
  BY <1>1, HeadTailProperties
<1>3. PICK m \in Nat : m = Len(b)
  OBVIOUS
<1>4. c \in Seq(S) /\ d \in Seq(S)
  BY <1>2
<1>5. Len(d) = n - 1 + m /\ Len(c) = n + m
  BY <1>1, <1>2, <1>3
<1>6. \A p \in 1..(n - 1 + m) : d[p] = c[p+1]
  BY <1>1, <1>2, <1>3
<1>7. Head(a) = c[1]
  BY <1>1
<1> QED  BY <1>2, <1>4, <1>5, <1>6, <1>7

-----------------------------------------------------------------------------
(* The model's operators.                                                  *)

LEMMA Constants ==
  /\ NULL \notin Message /\ End \notin Result /\ Nothing \notin Requests
  /\ Result \subseteq Message /\ End \in Message
  /\ NULL # End /\ \A r \in Result : r # NULL /\ r # End
<1>1. NULL.of = "null" /\ End.of = "end"
  BY DEF NULL, End
<1>2. \A r \in Result : r.of \in Requests
  BY DEF Result
<1>3. "null" \notin Requests /\ "end" \notin Requests /\ Nothing \notin Requests
  BY DEF Requests, Nothing
<1> QED  BY <1>1, <1>2, <1>3 DEF Message

LEMMA ComingType ==
  ASSUME FieldTypes
  PROVE  /\ conn.in \in Seq(Message) /\ wire.sent \in Seq(Message)
         /\ Coming \in Seq(Message) /\ Len(Coming) \in Nat
         /\ Coming = <<>> <=> conn.in = <<>> /\ wire.sent = <<>>
         /\ conn.in = <<>> => Coming = wire.sent
         /\ wire.sent = <<>> => Coming = conn.in
<1>1. conn.in \in Seq(Message) /\ wire.sent \in Seq(Message)
  BY DEF FieldTypes
<1>2. PICK a \in Seq(Message), b \in Seq(Message) : a = conn.in /\ b = wire.sent
  BY <1>1
<1>3. /\ a \o b \in Seq(Message) /\ Len(a \o b) \in Nat
      /\ a \o b = <<>> <=> a = <<>> /\ b = <<>>
      /\ a = <<>> => a \o b = b
      /\ b = <<>> => a \o b = a
  BY Joined, Zenon
<1> QED  BY <1>2, <1>3 DEF Coming

\* Every plan, and what is left of it after its first request.
LEMMA PlanShape ==
  ASSUME PlanOK, plan # <<>>
  PROVE  /\ Head(plan) = plan[1] /\ plan[1] \in Requests /\ Len(plan) \in 1..3
         /\ Len(plan) = 1 => plan[1] # "prepare"
         /\ Len(plan) # 1 =>
              /\ Tail(plan) \in Plans
              /\ \/ plan[1] = "dealloc" /\ Tail(plan)[1] = "prepare"
                 \/ plan[1] = "prepare" /\ Tail(plan)[1] = "describe"
<1>1. CASE plan \in {<<"query">>, <<"execute">>, <<"dealloc">>, <<"describe">>}
  BY <1>1 DEF Requests
<1>2. CASE plan = <<"prepare", "describe">>
  <2>1. Tail(plan) = <<"describe">> /\ Len(plan) = 2 /\ Head(plan) = plan[1]
    BY <1>2
  <2> QED  BY <1>2, <2>1 DEF Requests, Plans
<1>3. CASE plan = <<"dealloc", "prepare", "describe">>
  <2>1. Tail(plan) = <<"prepare", "describe">> /\ Len(plan) = 3 /\ Head(plan) = plan[1]
    BY <1>3
  <2> QED  BY <1>3, <2>1 DEF Requests, Plans
<1> QED  BY <1>1, <1>2, <1>3 DEF PlanOK, Plans

LEMMA PlanType == Plans \subseteq Seq(Requests) /\ <<>> \notin Plans
<1>1. /\ <<"query">> \in Seq(Requests) /\ <<"execute">> \in Seq(Requests)
      /\ <<"dealloc">> \in Seq(Requests) /\ <<"describe">> \in Seq(Requests)
  BY DEF Requests
<1>2. /\ <<"prepare", "describe">> \in Seq(Requests)
      /\ <<"dealloc", "prepare", "describe">> \in Seq(Requests)
  BY DEF Requests
<1> QED  BY <1>1, <1>2 DEF Plans

LEMMA PlanIs ==
  ASSUME NEW op \in Ops
  PROVE  /\ Plan(op) \in Plans
         /\ op = "query" => Plan(op)[1] = "query"
         /\ op = "execute" => Plan(op)[1] = "execute"
         /\ op = "finish" => Plan(op)[1] = "dealloc"
         /\ op = "prepare" /\ prepared => Plan(op)[1] = "dealloc"
         /\ op = "prepare" /\ ~prepared => Plan(op)[1] = "prepare"
<1>1. CASE op = "prepare" /\ prepared
  BY <1>1 DEF Plan, Plans
<1>2. CASE op = "prepare" /\ ~prepared
  BY <1>2 DEF Plan, Plans
<1>3. CASE op = "finish"
  BY <1>3 DEF Plan, Plans
<1>4. CASE op = "query"
  BY <1>4 DEF Plan, Plans
<1>5. CASE op = "execute"
  BY <1>5 DEF Plan, Plans
<1> QED  BY <1>1, <1>2, <1>3, <1>4, <1>5 DEF Ops

LEMMA ReplyIs ==
  ASSUME NEW req \in Requests, NEW ok \in BOOLEAN, NEW n \in Nat \ {0}, turn \in {0, 1}
  PROVE  /\ Reply(req, ok, n) \in Seq(Message) /\ Len(Reply(req, ok, n)) = n + 1
         /\ Reply(req, ok, n)[n+1] = End
         /\ \A p \in 1..n :
              /\ Reply(req, ok, n)[p] \in Result
              /\ Reply(req, ok, n)[p].of = req /\ Reply(req, ok, n)[p].turn = turn
              /\ Reply(req, ok, n)[p].final <=> p = n
              /\ Reply(req, ok, n)[p].ok <=> p < n \/ ok
<1> DEFINE r == [p \in 1..n |-> [of |-> req, turn |-> turn, final |-> p = n, ok |-> p < n \/ ok]]
<1>1. \A p \in 1..n :
        /\ r[p] \in Result /\ r[p].of = req /\ r[p].turn = turn
        /\ r[p].final <=> p = n
        /\ r[p].ok <=> p < n \/ ok
  BY DEF Result
<1>2. PICK s : s = r
  OBVIOUS
<1>3. s \in Seq(Message) /\ Len(s) = n
  <2>1. s \in [1..n -> Message]
    BY <1>1, <1>2, Constants
  <2> QED  BY <2>1
<1>4. Reply(req, ok, n) = s \o <<End>>
  BY <1>2 DEF Reply
<1>5. <<End>> \in Seq(Message) /\ Len(<<End>>) = 1 /\ <<End>>[1] = End
  BY Constants
<1>6. /\ s \o <<End>> \in Seq(Message) /\ Len(s \o <<End>>) = n + 1
      /\ \A p \in 1..n : (s \o <<End>>)[p] = s[p]
      /\ (s \o <<End>>)[n+1] = End
  BY <1>3, <1>5, Joined
<1> HIDE DEF r
<1>7. PICK t : t = s \o <<End>>
  OBVIOUS
<1>8. /\ t \in Seq(Message) /\ Len(t) = n + 1 /\ t[n+1] = End
      /\ \A p \in 1..n : t[p] = r[p]
  BY <1>2, <1>6, <1>7
<1>9. Reply(req, ok, n) = t
  BY <1>4, <1>7
<1> QED  BY <1>1, <1>8, <1>9

-----------------------------------------------------------------------------
(* The initial state.                                                      *)

LEMMA Exceptions == NULL \in Thrown /\ TimedOut \in Thrown /\ SelectFailed \in Thrown
  BY DEF Thrown

LEMMA InitInv == Init => Inv
<1> SUFFICES ASSUME Init PROVE Inv
  OBVIOUS
<1>1. timeLeft \in Nat \cup {None}
  BY PSQLAssumption DEF Init
<1>2. /\ conn = [busy |-> FALSE, in |-> <<>>] /\ wire = [sent |-> <<>>, here |-> 0]
      /\ server = [todo |-> Nothing, named |-> FALSE]
      /\ up = TRUE /\ turn = 0 /\ leaked = 0 /\ prepared = FALSE
      /\ plan = <<>> /\ pc = "idle" /\ last = NULL /\ returned = NULL
  BY DEF Init
<1>3. FieldTypes
  BY <1>2 DEF FieldTypes
<1>4. Coming = <<>>
  BY <1>2, <1>3, ComingType
<1>5. TypeOK
  <2>1. plan \in Seq(Requests) /\ conn.busy \in BOOLEAN /\ wire.here \in 0..Len(wire.sent)
    BY <1>2
  <2> QED  BY <1>1, <1>2, <2>1, Exceptions DEF TypeOK
<1>6. IdleOK /\ FlushOK /\ FetchOK /\ ComingOK
  BY <1>2, <1>4, Exceptions DEF IdleOK, FlushOK, FetchOK, ComingOK, Quiet
<1>7. PlanOK /\ NamesOK /\ NamesAgree /\ LostOK
  BY <1>2 DEF PlanOK, NamesOK, NamesAgree, LostOK
<1> QED  BY <1>3, <1>5, <1>6, <1>7 DEF Inv

-----------------------------------------------------------------------------
(* The end of a call.                                                      *)

\* What remains to be shown of a state in which no call is in progress.
LEMMA Ended ==
  ASSUME Inv, NEW res, Ends(res), res \in Result \cup Thrown,
         FieldTypes', prepared' \in BOOLEAN, timeLeft' = timeLeft, UNCHANGED wire,
         IdleOK', NamesAgree', LostOK'
  PROVE  Inv'
<1>1. pc' = "idle" /\ plan' = <<>> /\ last' = NULL /\ returned' = res
  BY DEF Ends
<1>2. TypeOK'
  <2>1. conn'.busy \in BOOLEAN
    BY DEF FieldTypes
  <2> QED  BY <1>1, <2>1 DEF TypeOK, Inv
<1>3. PlanOK' /\ FlushOK' /\ FetchOK' /\ ComingOK' /\ NamesOK'
  BY <1>1 DEF PlanOK, FlushOK, FetchOK, ComingOK, NamesOK
<1> QED  BY <1>2, <1>3 DEF Inv

\* While a call is in progress its connection is busy, and nothing is lost.
LEMMA InCall ==
  ASSUME Inv, pc # "idle"
  PROVE  conn.busy /\ leaked = 0 /\ pc \in {"flush", "fetch"} /\ plan # <<>>
  BY DEF Inv, TypeOK, FieldTypes, FlushOK, FetchOK, LostOK

\* An exception in the middle of a request.
LEMMA ThrowsKeeps ==
  ASSUME Inv, pc # "idle", NEW exception \in Thrown, Throws(exception, last),
         UNCHANGED <<conn, outside>>
  PROVE  Inv'
<1>1. conn.busy /\ leaked = 0
  BY InCall
<1>2. Ends(exception) /\ leaked' \in {0, 1} /\ UNCHANGED <<prepared, timeLeft, turn>>
  BY <1>1 DEF Throws
<1>3. UNCHANGED <<conn, wire, server, up>>
  BY DEF outside
<1>4. pc' = "idle" /\ last' = NULL /\ returned' \in Thrown
  BY <1>2 DEF Ends
<1>5. FieldTypes'
  BY <1>2, <1>3 DEF FieldTypes, Inv
<1>6. IdleOK' /\ NamesAgree' /\ LostOK'
  BY <1>1, <1>2, <1>3, <1>4 DEF IdleOK, NamesAgree, LostOK
<1>7. prepared' \in BOOLEAN
  BY <1>2 DEF Inv, TypeOK
<1> QED  BY <1>2, <1>3, <1>5, <1>6, <1>7, Ended

-----------------------------------------------------------------------------
(* The beginning of a request.                                             *)

\* A request is about to leave on a connection with nothing on its way.
LEMMA Begun ==
  ASSUME Inv, plan' \in Plans, pc' = "flush", last' = NULL,
         conn' = [busy |-> TRUE, in |-> <<>>], turn' \in {0, 1}, prepared' \in BOOLEAN,
         UNCHANGED <<timeLeft, returned, leaked, wire, server, up>>,
         wire.sent = <<>>, server.todo = Nothing, leaked = 0, NamesOK'
  PROVE  Inv'
<1>1. FieldTypes'
  BY DEF FieldTypes, Inv
<1>2. Coming' = <<>>
  BY <1>1, ComingType DEF Coming
<1>3. TypeOK'
  BY PlanType DEF TypeOK, Inv
<1>4. IdleOK' /\ FlushOK' /\ FetchOK' /\ ComingOK'
  BY <1>2 DEF IdleOK, FlushOK, FetchOK, ComingOK, Quiet
<1>5. PlanOK' /\ NamesAgree' /\ LostOK'
  BY DEF PlanOK, NamesAgree, LostOK
<1> QED  BY <1>1, <1>3, <1>4, <1>5 DEF Inv

LEMMA CallKeeps ==
  ASSUME Inv, NEW op \in Ops, Call(op)
  PROVE  Inv'
<1>1. pc = "idle" /\ Send(Plan(op)) /\ (op \in {"execute", "finish"} => prepared)
      /\ prepared' = (prepared /\ op \notin {"prepare", "finish"})
      /\ UNCHANGED <<wire, server, up>>
  BY DEF Call, outside
<1>2. prepared \in BOOLEAN /\ FieldTypes
  BY DEF Inv, TypeOK
<1>3. prepared' \in BOOLEAN
  BY <1>1, <1>2
<1>4. CASE /\ ~conn.busy
           /\ plan' = Plan(op) /\ pc' = "flush" /\ last' = NULL
           /\ turn' = 1 - turn
           /\ conn' = [busy |-> TRUE, in |-> <<>>]
           /\ UNCHANGED <<timeLeft, returned, leaked>>
  <2>1. Coming = <<>> /\ server.todo = Nothing
    BY <1>1, <1>4 DEF Inv, IdleOK, Quiet
  <2>2. wire.sent = <<>>
    BY <1>2, <2>1, ComingType
  <2>3. leaked = 0
    BY <1>2, <1>4 DEF Inv, LostOK, FieldTypes
  <2>4. up => (prepared <=> server.named)
    BY <1>1, <1>4 DEF Inv, NamesAgree
  <2>5. NamesOK'
    BY <1>1, <1>2, <1>4, <2>4, PlanIs DEF NamesOK, Served, Ops
  <2>6. plan' \in Plans
    BY <1>4, PlanIs
  <2>7. turn' \in {0, 1}
    BY <1>2, <1>4 DEF FieldTypes
  <2> QED  BY <1>1, <1>3, <1>4, <2>1, <2>2, <2>3, <2>5, <2>6, <2>7, Begun
<1>5. CASE /\ conn.busy \/ ~up
           /\ Ends(NULL)
           /\ UNCHANGED <<timeLeft, turn, conn, leaked>>
  <2>0. NULL \in Thrown
    BY Exceptions
  <2>1. pc' = "idle" /\ last' = NULL /\ returned' = NULL
    BY <1>5 DEF Ends
  <2>2. FieldTypes'
    BY <1>1, <1>2, <1>5 DEF FieldTypes
  <2>3. Coming' = Coming
    BY <1>1, <1>5 DEF Coming
  <2>4. IdleOK' /\ NamesAgree' /\ LostOK'
    BY <1>1, <1>5, <2>0, <2>1, <2>3 DEF Inv, IdleOK, Quiet, NamesAgree, LostOK
  <2> QED  BY <1>1, <1>3, <1>5, <2>0, <2>2, <2>4, Ended
<1> QED  BY <1>1, <1>4, <1>5 DEF Send

-----------------------------------------------------------------------------
(* Steps that leave what is on its way as it is.                           *)

LEMMA SameComing ==
  ASSUME Inv, TypeOK', FieldTypes', conn'.busy = conn.busy, Coming' = Coming,
         UNCHANGED <<plan, pc, last, prepared, server, up, turn, returned, leaked>>
  PROVE  Inv'
<1>1. Answers' = Answers
  BY DEF Answers
<1>2. IdleOK' /\ FlushOK' /\ FetchOK'
  BY <1>1 DEF Inv, IdleOK, FlushOK, FetchOK, Quiet
<1>3. ComingOK'
  BY <1>1 DEF Inv, ComingOK
<1>4. PlanOK' /\ NamesOK' /\ NamesAgree' /\ LostOK'
  BY DEF Inv, PlanOK, NamesOK, Served, NamesAgree, LostOK
<1> QED  BY <1>2, <1>3, <1>4 DEF Inv

LEMMA TimeKeeps ==
  ASSUME Inv, timeLeft' \in Nat \cup {None},
         UNCHANGED <<plan, pc, last, prepared, conn, turn, returned, leaked, wire, server, up>>
  PROVE  Inv'
<1>1. TypeOK' /\ FieldTypes' /\ Coming' = Coming
  BY DEF Inv, TypeOK, FieldTypes, Coming
<1> QED  BY <1>1, SameComing

LEMMA TickKeeps ==
  ASSUME Inv, Tick
  PROVE  Inv'
<1>1. timeLeft' \in Nat \cup {None}
  BY DEF Inv, TypeOK, Tick, Waiting, None
<1> QED  BY <1>1, TimeKeeps DEF Tick, outside

LEMMA SetTimeoutKeeps ==
  ASSUME Inv, NEW n \in Timeouts, SetTimeout(n)
  PROVE  Inv'
<1>1. timeLeft' \in Nat \cup {None}
  BY PSQLAssumption DEF SetTimeout
<1> QED  BY <1>1, TimeKeeps DEF SetTimeout, outside

LEMMA ArriveKeeps ==
  ASSUME Inv, Arrive
  PROVE  Inv'
<1>1. /\ wire.here < Len(wire.sent) /\ wire' = [wire EXCEPT !.here = @ + 1]
      /\ UNCHANGED <<plan, pc, last, prepared, timeLeft, conn, server, up, turn, returned, leaked>>
  BY DEF Arrive
<1>2. PICK k \in Nat : k = Len(wire.sent)
  BY ComingType DEF Inv, FieldTypes
<1>3. wire'.sent = wire.sent /\ wire'.here = wire.here + 1 /\ wire.here \in Nat
  BY <1>1 DEF Inv, FieldTypes
<1>4. FieldTypes' /\ Coming' = Coming
  BY <1>1, <1>3 DEF Inv, FieldTypes, Coming
<1>5. wire'.here \in 0..Len(wire'.sent)
  BY <1>1, <1>2, <1>3
<1>6. TypeOK'
  BY <1>1, <1>5 DEF Inv, TypeOK
<1> QED  BY <1>1, <1>4, <1>6, SameComing

LEMMA ConsumeKeeps ==
  ASSUME Inv, Consume
  PROVE  Inv'
<1>1. pc = "fetch" /\ conn.in = <<>>
  BY DEF Consume
<1>2. CASE /\ wire.here > 0
           /\ conn' = [conn EXCEPT !.in = SubSeq(wire.sent, 1, wire.here)]
           /\ wire' = [sent |-> SubSeq(wire.sent, wire.here + 1, Len(wire.sent)), here |-> 0]
           /\ UNCHANGED <<plan, pc, last, prepared, timeLeft, server, up, turn, returned, leaked>>
  <2>1. PICK s \in Seq(Message) : s = wire.sent
    BY DEF Inv, FieldTypes
  <2>2. PICK n \in 0..Len(s) : n = wire.here
    BY <2>1 DEF Inv, TypeOK
  <2>3. PICK a \in Seq(Message), b \in Seq(Message) :
          a = SubSeq(s, 1, n) /\ b = SubSeq(s, n + 1, Len(s)) /\ a \o b = s
    <3>1. /\ SubSeq(s, 1, n) \in Seq(Message) /\ SubSeq(s, n + 1, Len(s)) \in Seq(Message)
          /\ SubSeq(s, 1, n) \o SubSeq(s, n + 1, Len(s)) = s
      BY Cut
    <3> QED  BY <3>1, Zenon
  <2>4. conn' = [conn EXCEPT !.in = a] /\ wire' = [sent |-> b, here |-> 0]
    BY <1>2, <2>1, <2>2, <2>3
  <2>5. conn'.busy = conn.busy /\ conn'.in = a /\ wire'.sent = b /\ wire'.here = 0
    BY <2>4 DEF Inv, FieldTypes
  <2>6. FieldTypes'
    <3>1. UNCHANGED <<server, up, turn, leaked>>
      BY <1>2
    <3> QED  BY <2>4, <3>1 DEF Inv, FieldTypes
  <2>7. TypeOK'
    BY <1>2, <2>5 DEF Inv, TypeOK
  <2>8. Coming = s
    BY <1>1, <2>1, ComingType DEF Inv
  <2>9. Coming' = a \o b
    BY <2>5 DEF Coming
  <2> QED  BY <1>2, <2>3, <2>5, <2>6, <2>7, <2>8, <2>9, SameComing
<1>3. CASE wire.here = 0 /\ Throws(NULL, last) /\ UNCHANGED <<conn, outside>>
  BY <1>1, <1>3, ThrowsKeeps, Exceptions
<1> QED  BY <1>2, <1>3 DEF Consume

-----------------------------------------------------------------------------
(* The request leaves, and its results are fetched.                        *)

LEMMA FlushKeeps ==
  ASSUME Inv, Flush
  PROVE  Inv'
<1>1. pc = "flush" /\ conn.busy /\ last = NULL /\ Coming = <<>> /\ server.todo = Nothing
      /\ plan # <<>> /\ leaked = 0
  BY InCall DEF Flush, Inv, FlushOK, Quiet
<1>2. CASE /\ pc' = "fetch"
           /\ server' = IF up THEN [server EXCEPT !.todo = Head(plan)] ELSE server
           /\ UNCHANGED <<plan, last, prepared, timeLeft, conn, wire, up, turn, returned, leaked>>
  <2>1. PICK r \in Requests : r = plan[1] /\ Head(plan) = r
    BY <1>1, PlanShape DEF Inv
  <2>2. /\ server' \in [todo : Requests \cup {Nothing}, named : BOOLEAN]
        /\ server'.named = server.named
        /\ server'.todo \in {Nothing, r} /\ (up => server'.todo = r)
    BY <1>1, <1>2, <2>1 DEF Inv, FieldTypes
  <2>3. FieldTypes' /\ TypeOK'
    BY <1>1, <1>2, <2>2 DEF Inv, FieldTypes, TypeOK
  <2>4. Coming' = <<>>
    BY <1>1, <1>2 DEF Coming
  <2>5. IdleOK' /\ FlushOK' /\ FetchOK' /\ ComingOK'
    BY <1>1, <1>2, <2>1, <2>2, <2>4 DEF IdleOK, FlushOK, FetchOK, ComingOK
  <2>6. up => ~Served' /\ ~Served
    BY <1>1, <1>2, <2>1, <2>2, Constants DEF Served
  <2>7. NamesOK'
    BY <1>1, <1>2, <2>2, <2>6 DEF Inv, NamesOK
  <2>8. PlanOK' /\ NamesAgree' /\ LostOK'
    BY <1>1, <1>2 DEF Inv, PlanOK, NamesAgree, LostOK
  <2> QED  BY <2>3, <2>5, <2>7, <2>8 DEF Inv
<1>3. CASE ~up /\ Throws(NULL, last) /\ UNCHANGED <<conn, outside>>
  BY <1>1, <1>3, ThrowsKeeps, Exceptions
<1> QED  BY <1>2, <1>3 DEF Flush

LEMMA TimesOutKeeps ==
  ASSUME Inv, TimesOut
  PROVE  Inv'
BY ThrowsKeeps, Exceptions DEF TimesOut, OutOfTime, Blocked

LEMMA SelectFailsKeeps ==
  ASSUME Inv, SelectFails
  PROVE  Inv'
BY ThrowsKeeps, Exceptions DEF SelectFails

LEMMA GetResultKeeps ==
  ASSUME Inv, GetResult
  PROVE  Inv'
<1>1. /\ pc = "fetch" /\ conn.in # <<>> /\ Head(conn.in) # End
      /\ last' = Head(conn.in) /\ leaked' = leaked
      /\ conn' = [conn EXCEPT !.in = Tail(@)]
      /\ UNCHANGED <<plan, pc, prepared, timeLeft, turn, returned, wire, server, up>>
  BY DEF GetResult, NoMoreResults, Newest, AfterClear, outside
<1>2. PICK a \in Seq(Message), b \in Seq(Message) : a = conn.in /\ b = wire.sent
  BY DEF Inv, FieldTypes
<1>3. a # <<>>
  BY <1>1, <1>2
<1>4. PICK c, d, t : c = a \o b /\ t = Tail(a) /\ d = t \o b
  OBVIOUS
<1> PICK n : n = Len(c)
  OBVIOUS
<1>41. /\ c \in Seq(Message) /\ d \in Seq(Message) /\ t \in Seq(Message) /\ n \in Nat \ {0}
       /\ Len(c) = n /\ Len(d) = n - 1
       /\ Head(a) = c[1] /\ \A p \in 1..(n - 1) : d[p] = c[p+1]
  BY <1>3, <1>4, OneRead
<1>5. conn' = [conn EXCEPT !.in = t]
  BY <1>1, <1>2, <1>4, <1>41
<1>6. Coming = c /\ Coming' = d /\ last' = c[1]
  BY <1>1, <1>2, <1>4, <1>41, <1>5 DEF Coming, Inv, FieldTypes
<1>7. /\ c[1] # End /\ c[1] \in Answers /\ server.todo = Nothing /\ conn.busy
      /\ \A p \in 1..n : c[p] # End => c[p] \in Answers
      /\ \A p \in 1..n : c[p] = End => p = n
      /\ \A p \in 1..(n - 1) : c[p].final <=> c[p+1] = End
  <2>1. /\ \A p \in 1..n : c[p] # End => c[p] \in Answers
        /\ \A p \in 1..n : c[p] = End => p = n
        /\ \A p \in 1..(n - 1) : c[p].final <=> c[p+1] = End
    BY <1>1, <1>4, <1>41, <1>6 DEF Inv, ComingOK
  <2>2. Coming # <<>>
    BY <1>4, <1>41, <1>6
  <2>3. server.todo = Nothing /\ conn.busy
    BY <1>1, <2>2 DEF Inv, FetchOK
  <2>4. c[1] # End
    BY <1>1, <1>2, <1>4, <1>41
  <2>5. 1 \in 1..n
    BY <1>41
  <2> QED  BY <2>1, <2>3, <2>4, <2>5
<1>8. Answers' = Answers /\ Answers \subseteq Result
  BY <1>1 DEF Answers
<1>9. ComingOK'
  <2>1. \A p \in 1..(n - 1) : d[p] # End => d[p] \in Answers
    <3> SUFFICES ASSUME NEW p \in 1..(n - 1) PROVE d[p] # End => d[p] \in Answers
      OBVIOUS
    <3>1. p + 1 \in 1..n /\ d[p] = c[p+1]
      BY <1>41
    <3> QED  BY <1>7, <3>1
  <2>2. \A p \in 1..(n - 1) : d[p] = End => p = n - 1
    BY <1>4, <1>41, <1>7
  <2>3. \A p \in 1..(n - 1 - 1) : d[p].final <=> d[p+1] = End
    <3> SUFFICES ASSUME NEW p \in 1..(n - 1 - 1) PROVE d[p].final <=> d[p+1] = End
      OBVIOUS
    <3>1. p \in 1..(n - 1) /\ p + 1 \in 1..(n - 1)
      BY <1>41
    <3>2. d[p] = c[p+1] /\ d[p+1] = c[(p+1)+1]
      BY <1>41, <3>1
    <3> QED  BY <1>7, <3>1, <3>2
  <2>4. d # <<>> => (d[1] = End <=> c[1] # NULL /\ c[1].final)
    <3> SUFFICES ASSUME d # <<>> PROVE d[1] = End <=> c[1] # NULL /\ c[1].final
      OBVIOUS
    <3>1. n - 1 # 0
      BY <1>41, EmptySeq
    <3>2. d[1] = c[2] /\ (c[1].final <=> c[2] = End)
      BY <1>4, <1>41, <1>7, <3>1
    <3> QED  BY <1>7, <1>8, <3>2, Constants
  <2> QED  BY <1>4, <1>41, <1>6, <1>8, <2>1, <2>2, <2>3, <2>4 DEF ComingOK
<1>10. IdleOK' /\ FlushOK' /\ FetchOK'
  <2>1. conn'.busy
    BY <1>5, <1>7 DEF Inv, FieldTypes
  <2> QED  BY <1>1, <1>6, <1>7, <1>8, <2>1, Constants DEF IdleOK, FlushOK, FetchOK
<1>11. FieldTypes'
  <2>1. UNCHANGED <<wire, server, up, turn, leaked>>
    BY <1>1
  <2> QED  BY <1>41, <1>5, <2>1 DEF Inv, FieldTypes
<1>12. TypeOK'
  <2>1. conn'.busy \in BOOLEAN /\ last' \in Result
    BY <1>6, <1>7, <1>8, <1>11 DEF FieldTypes
  <2>2. UNCHANGED <<plan, pc, prepared, timeLeft, returned, wire>>
    BY <1>1
  <2> QED  BY <2>1, <2>2 DEF Inv, TypeOK
<1>13. PlanOK' /\ NamesOK' /\ NamesAgree' /\ LostOK'
  <2>1. leaked = 0
    BY <1>1, InCall
  <2>2. UNCHANGED <<plan, pc, prepared, server, up, leaked>> /\ pc = "fetch"
    BY <1>1
  <2> QED  BY <2>1, <2>2 DEF Inv, PlanOK, NamesOK, Served, NamesAgree, LostOK
<1> QED  BY <1>9, <1>10, <1>11, <1>12, <1>13 DEF Inv

\* Once the end is read, the last result is the request's final one, and
\* there is nothing behind the end.
LEMMA AtEnd ==
  ASSUME Inv, pc = "fetch", NoMoreResults
  PROVE  /\ Coming = <<End>> /\ conn.in = <<End>> /\ wire.sent = <<>>
         /\ last \in Answers /\ last.final /\ Served
<1>1. conn.in # <<>> /\ Head(conn.in) = End
  BY DEF NoMoreResults
<1>2. PICK a \in Seq(Message), b \in Seq(Message) : a = conn.in /\ b = wire.sent
  BY DEF Inv, FieldTypes
<1>3. a # <<>>
  BY <1>1, <1>2
<1>4. PICK c, d, t : c = a \o b /\ t = Tail(a) /\ d = t \o b
  OBVIOUS
<1> PICK n : n = Len(c)
  OBVIOUS
<1>41. c \in Seq(Message) /\ n \in Nat \ {0} /\ n = Len(c) /\ Head(a) = c[1]
  BY <1>3, <1>4, OneRead
<1>5. Coming = c /\ c[1] = End
  BY <1>1, <1>2, <1>4, <1>41 DEF Coming
<1>6. n = 1
  <2>1. \A p \in 1..n : c[p] = End => p = n
    BY <1>1, <1>4, <1>41, <1>5 DEF Inv, ComingOK
  <2>2. 1 \in 1..n
    BY <1>41
  <2> QED  BY <1>5, <2>1, <2>2
<1>7. a = <<End>> /\ b = <<>> /\ c = <<End>>
  <2>1. PICK k \in Nat \ {0}, m \in Nat : k = Len(a) /\ m = Len(b)
    BY <1>3, EmptySeq
  <2>2. Len(c) = k + m
    BY <1>4, <1>41, <2>1
  <2>3. k = 1 /\ m = 0
    <3>1. k + m = 1
      BY <1>41, <1>6, <2>2
    <3> QED  BY <3>1
  <2>4. b = <<>>
    BY <2>1, <2>3, EmptySeq
  <2>5. a[1] = End
    BY <1>1, <1>2, <1>3
  <2>6. a = <<End>>
    <3>1. <<End>> \in Seq(Message) /\ Len(<<End>>) = 1 /\ <<End>>[1] = End
      BY Constants
    <3>2. PICK e : e = <<End>>
      OBVIOUS
    <3>3. \A p \in 1..Len(a) : a[p] = e[p]
      BY <2>1, <2>3, <2>5, <3>1, <3>2
    <3>4. e \in Seq(Message) /\ Len(a) = Len(e)
      BY <2>1, <2>3, <3>1, <3>2
    <3> QED  BY <3>2, <3>3, <3>4, SeqEqual
  <2>7. c = a
    BY <1>4, <1>41, <2>4
  <2> QED  BY <2>4, <2>5, <2>6, <2>7
<1>8. c # <<>> /\ last # NULL /\ last.final
  BY <1>5, <1>7 DEF Inv, ComingOK
<1> QED  BY <1>2, <1>5, <1>7, <1>8 DEF Inv, FetchOK, Served

LEMMA FetchedKeeps ==
  ASSUME Inv, Fetched
  PROVE  Inv'
<1>1. pc = "fetch" /\ NoMoreResults /\ UNCHANGED <<wire, server, up>>
  BY DEF Fetched, outside
<1>2. /\ conn.in = <<End>> /\ wire.sent = <<>>
      /\ last \in Answers /\ last.final /\ Served /\ server.todo = Nothing
  BY <1>1, AtEnd DEF Served
<1>3. plan # <<>> /\ leaked = 0 /\ last \in Result
  BY <1>1, <1>2, InCall DEF Answers
<1> DEFINE idle == [busy |-> Head(conn.in) # End, in |-> Tail(conn.in)]
<1>4. idle = [busy |-> FALSE, in |-> <<>>]
  <2>1. Head(<<End>>) = End /\ Tail(<<End>>) = <<>>
    OBVIOUS
  <2> QED  BY <1>2, <2>1
<1> HIDE DEF idle
<1>5. PICK r \in Requests : r = plan[1]
  BY <1>3, PlanShape DEF Inv
\* What the two agree on when the request's result is in.
<1>6. up =>
        /\ r = "query" => (prepared <=> server.named)
        /\ r = "execute" => prepared /\ server.named
        /\ r \in {"dealloc", "prepare", "describe"} => ~prepared
        /\ r = "dealloc" => ~server.named
        /\ r = "describe" => server.named
        /\ r = "prepare" => (last.ok <=> server.named)
  BY <1>1, <1>2, <1>5 DEF Inv, NamesOK, Answers
<1>7. ASSUME conn' = idle, NEW res \in Result \cup Thrown, Ends(res),
             res \notin Thrown => res = last /\ last.ok,
             prepared' \in BOOLEAN, leaked' = leaked, UNCHANGED <<timeLeft, turn>>,
             up => (prepared' <=> server.named)
      PROVE  Inv'
  <2>1. pc' = "idle" /\ last' = NULL /\ returned' = res
    BY <1>7 DEF Ends
  <2>2. FieldTypes'
    BY <1>1, <1>4, <1>7 DEF Inv, FieldTypes
  <2>3. Coming' = <<>>
    BY <1>1, <1>2, <1>4, <1>7, <2>2, ComingType DEF Coming
  <2>4. res \notin Thrown => res.turn = turn /\ res.final /\ res.ok
    BY <1>2, <1>7 DEF Answers
  <2>5. IdleOK' /\ NamesAgree' /\ LostOK'
    BY <1>1, <1>2, <1>3, <1>7, <2>1, <2>3, <2>4 DEF IdleOK, Quiet, NamesAgree, LostOK
  <2> QED  BY <1>1, <1>7, <2>2, <2>5, Ended
<1>8. CASE ~Accepted /\ Throws(NULL, NULL) /\ conn' = idle
  <2>1. Ends(NULL) /\ leaked' = leaked /\ UNCHANGED <<prepared, timeLeft, turn>>
    BY <1>8 DEF Throws
  <2>2. prepared' \in BOOLEAN /\ prepared' = prepared
    BY <2>1 DEF Inv, TypeOK
  <2>3. r # "describe" /\ ~last.ok
    BY <1>3, <1>5, <1>8, Constants DEF Accepted
  <2>4. up => (prepared' <=> server.named)
    BY <1>6, <2>2, <2>3 DEF Requests
  <2> QED  BY <1>7, <1>8, <2>1, <2>2, <2>4, Exceptions
<1>9. CASE /\ Accepted /\ Len(plan) = 1
           /\ Ends(last) /\ conn' = idle
           /\ prepared' = (prepared \/ plan[1] = "describe")
           /\ UNCHANGED <<timeLeft, turn, leaked>>
  <2>1. r # "prepare" /\ last.ok
    BY <1>2, <1>3, <1>5, <1>9, PlanShape DEF Accepted, Answers, Inv
  <2>2. prepared' \in BOOLEAN
    BY <1>9 DEF Inv, TypeOK
  <2>3. up => (prepared' <=> server.named)
    BY <1>5, <1>6, <1>9, <2>1 DEF Requests
  <2> QED  BY <1>3, <1>7, <1>9, <2>1, <2>2, <2>3
<1>10. CASE /\ Accepted /\ Len(plan) # 1
            /\ plan' = Tail(plan) /\ pc' = "flush" /\ last' = NULL /\ turn' = 1 - turn
            /\ conn' = [busy |-> TRUE, in |-> <<>>]
            /\ UNCHANGED <<prepared, timeLeft, returned, leaked>>
  <2>1. /\ plan' \in Plans
        /\ \/ r = "dealloc" /\ plan'[1] = "prepare"
           \/ r = "prepare" /\ plan'[1] = "describe"
    BY <1>3, <1>5, <1>10, PlanShape DEF Inv
  <2>2. r = "prepare" => last.ok
    BY <1>5, <1>10 DEF Accepted
  <2>3. NamesOK'
    BY <1>1, <1>6, <1>10, <2>1, <2>2 DEF NamesOK, Served
  <2>4. turn' \in {0, 1} /\ prepared' \in BOOLEAN
    BY <1>10 DEF Inv, FieldTypes, TypeOK
  <2> QED  BY <1>1, <1>2, <1>3, <1>10, <2>1, <2>3, <2>4, Begun
<1>11. CASE ~up /\ Throws(NULL, NULL) /\ conn' = idle
  <2>1. Ends(NULL) /\ leaked' = leaked /\ UNCHANGED <<prepared, timeLeft, turn>>
    BY <1>11 DEF Throws
  <2>2. prepared' \in BOOLEAN
    BY <2>1 DEF Inv, TypeOK
  <2> QED  BY <1>7, <1>11, <2>1, <2>2, Exceptions
<1> QED  BY <1>8, <1>9, <1>10, <1>11 DEF Fetched, idle

-----------------------------------------------------------------------------
(* The server and the network.                                             *)

LEMMA ServeKeeps ==
  ASSUME Inv, Serve
  PROVE  Inv'
<1>1. PICK ok \in BOOLEAN, n \in 1..(IF server.todo = "query" THEN MaxResults ELSE 1) :
        /\ IF ok THEN MaySucceed(server.todo) ELSE MayFail(server.todo)
        /\ wire' = [wire EXCEPT !.sent = @ \o Reply(server.todo, ok, n)]
        /\ server' = [todo |-> Nothing,
                      named |-> IF ok /\ server.todo = "prepare" THEN TRUE
                                ELSE IF ok /\ server.todo = "dealloc" THEN FALSE
                                ELSE server.named]
  BY DEF Serve
<1>2. /\ up /\ server.todo # Nothing
      /\ UNCHANGED <<plan, pc, last, prepared, timeLeft, conn, up, turn, returned, leaked>>
  BY DEF Serve
<1>3. PICK req \in Requests : req = server.todo
  BY <1>2 DEF Inv, FieldTypes
<1>4. n \in Nat \ {0}
  BY <1>1, PSQLAssumption
<1> PICK r : r = Reply(req, ok, n)
  OBVIOUS
<1>5. /\ r \in Seq(Message) /\ r = Reply(req, ok, n) /\ Len(r) = n + 1 /\ r[n+1] = End
      /\ \A p \in 1..n :
           /\ r[p] \in Result /\ r[p].of = req /\ r[p].turn = turn
           /\ r[p].final <=> p = n
           /\ r[p].ok <=> p < n \/ ok
  <2>1. turn \in {0, 1}
    BY DEF Inv, FieldTypes
  <2> QED  BY <1>4, <2>1, ReplyIs
<1>6. PICK s \in Seq(Message) : s = wire.sent
  BY DEF Inv, FieldTypes
<1>7. PICK w \in Seq(Message) : w = s \o r /\ Len(w) = Len(s) + Len(r) /\ (s = <<>> => <<>> \o w = r)
  <2>1. /\ s \o r \in Seq(Message) /\ Len(s \o r) = Len(s) + Len(r)
        /\ (s = <<>> => <<>> \o (s \o r) = r)
    BY <1>5
  <2> QED  BY <2>1
<1>8. wire' = [wire EXCEPT !.sent = w]
  BY <1>1, <1>3, <1>5, <1>6, <1>7
<1>9. /\ server' \in [todo : Requests \cup {Nothing}, named : BOOLEAN] /\ server'.todo = Nothing
      /\ req = "prepare" /\ ok => server'.named
      /\ req = "dealloc" /\ ok => ~server'.named
      /\ ~ok \/ req \notin {"prepare", "dealloc"} => server'.named = server.named
  BY <1>1, <1>3 DEF Inv, FieldTypes
<1>10. /\ ok /\ req = "prepare" => ~server.named
       /\ ok /\ req \notin {"query", "prepare"} => server.named
       /\ ~ok /\ req \in {"describe", "dealloc"} => ~server.named
  BY <1>1, <1>3 DEF MaySucceed, MayFail
<1>11. /\ wire'.sent = w /\ wire'.here = wire.here
       /\ wire' \in [sent : Seq(Message), here : Nat]
  BY <1>8 DEF Inv, FieldTypes
<1>12. FieldTypes'
  BY <1>2, <1>9, <1>11 DEF Inv, FieldTypes
<1>13. TypeOK'
  <2>1. PICK k \in Nat, j \in Nat : k = Len(s) /\ j = Len(r)
    BY <1>5
  <2>2. wire'.here \in 0..Len(wire'.sent)
    BY <1>6, <1>7, <1>11, <2>1 DEF Inv, TypeOK
  <2> QED  BY <1>2, <2>2 DEF Inv, TypeOK
<1>14. pc # "flush"
  BY <1>2 DEF Inv, FlushOK, Quiet
<1>15. IdleOK' /\ FlushOK' /\ NamesAgree' /\ LostOK' /\ PlanOK'
  BY <1>2, <1>14 DEF Inv, IdleOK, FlushOK, NamesAgree, LostOK, PlanOK, Quiet
<1>16. CASE pc = "idle"
  BY <1>2, <1>12, <1>13, <1>15, <1>16 DEF Inv, FetchOK, ComingOK, NamesOK
<1>17. CASE pc = "fetch"
  <2>1. conn.busy /\ Coming = <<>> /\ last = NULL /\ req = plan[1]
    BY <1>2, <1>3, <1>17 DEF Inv, FetchOK
  <2>2. conn.in = <<>> /\ s = <<>>
    BY <1>6, <2>1, ComingType DEF Inv
  <2>3. Coming' = r
    BY <1>2, <1>7, <1>11, <2>2 DEF Coming
  <2>4. ~Served /\ Served'
    BY <1>2, <1>9, <1>17 DEF Served
  <2>5. FetchOK'
    BY <1>2, <1>9, <2>1 DEF FetchOK
  <2>6. NamesOK'
    BY <1>2, <1>9, <1>10, <1>17, <2>1, <2>4 DEF Inv, NamesOK, Requests
  <2>7. req = "describe" => server.named
    BY <1>2, <1>17, <2>1 DEF Inv, NamesOK
  <2>8. req = "prepare" => ~server.named
    BY <1>2, <1>17, <2>1, <2>4 DEF Inv, NamesOK
  <2>9. \A p \in 1..n : r[p] \in Answers'
    <3> SUFFICES ASSUME NEW p \in 1..n PROVE r[p] \in Answers'
      OBVIOUS
    <3>1. /\ r[p] \in Result /\ r[p].of = req /\ r[p].turn = turn
          /\ r[p].final <=> p = n
          /\ r[p].ok <=> p < n \/ ok
      BY <1>5
    <3>2. r[p].of = plan'[1] /\ r[p].turn = turn'
      BY <1>2, <2>1, <3>1
    <3>3. ~r[p].final => r[p].ok
      BY <1>4, <3>1
    <3>4. plan'[1] = "describe" => r[p].ok
      BY <1>2, <1>10, <2>1, <2>7, <3>1
    <3>5. plan'[1] = "prepare" /\ r[p].final => (r[p].ok <=> server'.named)
      BY <1>2, <1>4, <1>9, <2>1, <2>8, <3>1
    <3> QED  BY <3>1, <3>2, <3>3, <3>4, <3>5 DEF Answers
  <2>10. ComingOK'
    <3>1. \A p \in 1..(n + 1) : r[p] # End => r[p] \in Answers'
      BY <1>4, <1>5, <2>9
    <3>2. \A p \in 1..(n + 1) : r[p] = End => p = n + 1
      BY <1>4, <1>5, Constants
    <3>3. \A p \in 1..((n + 1) - 1) : r[p].final <=> r[p+1] = End
      <4> SUFFICES ASSUME NEW p \in 1..n PROVE r[p].final <=> r[p+1] = End
        BY <1>4
      <4>1. r[p].final <=> p = n
        BY <1>5
      <4>2. CASE p = n
        BY <1>5, <4>1, <4>2
      <4>3. CASE p # n
        BY <1>4, <1>5, <4>1, <4>3, Constants
      <4> QED  BY <4>2, <4>3
    <3>4. r[1] # End /\ last' = NULL
      BY <1>2, <1>4, <1>5, <2>1, Constants
    <3>5. Len(r) = n + 1
      BY <1>5
    <3> QED  BY <2>3, <3>1, <3>2, <3>3, <3>4, <3>5 DEF ComingOK
  <2> QED  BY <1>12, <1>13, <1>15, <2>5, <2>6, <2>10 DEF Inv
<1> QED  BY <1>14, <1>16, <1>17 DEF Inv, TypeOK

LEMMA BreakKeeps ==
  ASSUME Inv, Break
  PROVE  Inv'
<1>1. /\ up' = FALSE
      /\ wire' = [wire EXCEPT !.sent = SubSeq(wire.sent, 1, wire.here)]
      /\ server' = [todo |-> Nothing, named |-> FALSE]
      /\ UNCHANGED <<plan, pc, last, prepared, timeLeft, conn, turn, returned, leaked>>
  BY DEF Break
<1>2. PICK a \in Seq(Message), s \in Seq(Message) : a = conn.in /\ s = wire.sent
  BY DEF Inv, FieldTypes
<1>3. PICK n \in 0..Len(s) : n = wire.here
  BY <1>2 DEF Inv, TypeOK
<1>4. PICK b : b = SubSeq(s, 1, n)
  OBVIOUS
<1>5. b \in Seq(Message) /\ Len(b) = n /\ \A p \in 1..n : b[p] = s[p]
  BY <1>4, Cut
<1>6. wire' = [wire EXCEPT !.sent = b]
  BY <1>1, <1>2, <1>3, <1>4
<1>7. wire'.sent = b /\ wire'.here = n /\ wire' \in [sent : Seq(Message), here : Nat]
  BY <1>3, <1>5, <1>6 DEF Inv, FieldTypes
<1>8. server' \in [todo : Requests \cup {Nothing}, named : BOOLEAN] /\ server'.todo = Nothing
  BY <1>1
<1>9. FieldTypes'
  BY <1>1, <1>7, <1>8 DEF Inv, FieldTypes
<1>10. TypeOK'
  BY <1>1, <1>5, <1>7 DEF Inv, TypeOK
<1>11. PICK c, d : c = a \o s /\ d = a \o b
  OBVIOUS
<1>12. Coming = c /\ Coming' = d
  BY <1>1, <1>2, <1>7, <1>11 DEF Coming
<1> PICK l, m : l = Len(c) /\ m = Len(d)
  OBVIOUS
<1>13. /\ c \in Seq(Message) /\ d \in Seq(Message) /\ l \in Nat /\ m \in Nat
       /\ l = Len(c) /\ m = Len(d) /\ m <= l /\ \A p \in 1..m : d[p] = c[p]
  <2>1. PICK k \in Nat, j \in Nat : k = Len(a) /\ j = Len(s)
    OBVIOUS
  <2>2. c \in Seq(Message) /\ l = k + j /\ \A p \in 1..(k + j) : c[p] = IF p <= k THEN a[p] ELSE s[p-k]
    BY <1>11, <2>1, ConcatProperties
  <2>3. d \in Seq(Message) /\ m = k + n /\ \A p \in 1..(k + n) : d[p] = IF p <= k THEN a[p] ELSE b[p-k]
    BY <1>5, <1>11, <2>1, ConcatProperties
  <2>4. n \in 0..j
    BY <2>1
  <2>5. k + n \in Nat /\ k + j \in Nat /\ k + n <= k + j
    BY <2>4
  <2>6. \A p \in 1..m : d[p] = c[p]
    <3> SUFFICES ASSUME NEW p \in 1..m PROVE d[p] = c[p]
      OBVIOUS
    <3>1. p \in 1..(k + n) /\ p \in 1..(k + j)
      BY <2>3, <2>4
    <3>2. CASE p <= k
      BY <2>2, <2>3, <3>1, <3>2
    <3>3. CASE ~(p <= k)
      <4>1. p - k \in 1..n
        BY <3>1, <3>3
      <4> QED  BY <1>5, <2>2, <2>3, <3>1, <3>3, <4>1
    <3> QED  BY <3>2, <3>3
  <2> QED  BY <2>2, <2>3, <2>5, <2>6
<1>14. \A e \in Answers : e \in Answers'
  BY <1>1 DEF Answers
<1>15. ComingOK'
  <2> SUFFICES ASSUME pc = "fetch" PROVE ComingOK'
    BY <1>1 DEF ComingOK
  <2>1. /\ \A p \in 1..l : c[p] # End => c[p] \in Answers
        /\ \A p \in 1..l : c[p] = End => p = l
        /\ \A p \in 1..(l - 1) : c[p].final <=> c[p+1] = End
        /\ c # <<>> => (c[1] = End <=> last # NULL /\ last.final)
    BY <1>12, <1>13 DEF Inv, ComingOK
  <2>2. \A p \in 1..m : d[p] # End => d[p] \in Answers'
    BY <1>13, <1>14, <2>1
  <2>3. \A p \in 1..m : d[p] = End => p = m
    BY <1>13, <2>1
  <2>4. \A p \in 1..(m - 1) : d[p].final <=> d[p+1] = End
    <3> SUFFICES ASSUME NEW p \in 1..(m - 1) PROVE d[p].final <=> d[p+1] = End
      OBVIOUS
    <3>1. p \in 1..(l - 1) /\ p \in 1..m /\ p + 1 \in 1..m
      BY <1>13
    <3> QED  BY <1>13, <2>1, <3>1
  <2>5. d # <<>> => (d[1] = End <=> last # NULL /\ last.final)
    <3> SUFFICES ASSUME d # <<>> PROVE d[1] = End <=> last # NULL /\ last.final
      OBVIOUS
    <3>1. m \in Nat \ {0}
      BY <1>13, EmptySeq
    <3>2. d[1] = c[1] /\ c # <<>>
      BY <1>13, <3>1, EmptySeq
    <3> QED  BY <2>1, <3>2
  <2> QED  BY <1>1, <1>12, <1>13, <2>2, <2>3, <2>4, <2>5 DEF ComingOK
<1>16. Coming = <<>> => Coming' = <<>>
  BY <1>12, <1>13, EmptySeq
<1>17. IdleOK' /\ FlushOK'
  BY <1>1, <1>8, <1>16 DEF Inv, IdleOK, FlushOK, Quiet
<1>18. FetchOK'
  BY <1>1, <1>8, <1>14 DEF Inv, FetchOK
<1>19. PlanOK' /\ NamesOK' /\ NamesAgree' /\ LostOK'
  BY <1>1 DEF Inv, PlanOK, NamesOK, NamesAgree, LostOK
<1> QED  BY <1>9, <1>10, <1>15, <1>17, <1>18, <1>19 DEF Inv

-----------------------------------------------------------------------------
(* The theorems.                                                           *)

LEMMA NextInv == Inv /\ [Next]_vars => Inv'
<1> SUFFICES ASSUME Inv, [Next]_vars PROVE Inv'
  OBVIOUS
<1>1. ASSUME NEW op \in Ops, Call(op) PROVE Inv'
  BY <1>1, CallKeeps
<1>2. ASSUME NEW n \in Timeouts, SetTimeout(n) PROVE Inv'
  BY <1>2, SetTimeoutKeeps
<1>3. CASE Client
  BY <1>3, FlushKeeps, TimesOutKeeps, SelectFailsKeeps, ConsumeKeeps, GetResultKeeps, FetchedKeeps DEF Client
<1>4. CASE Tick
  BY <1>4, TickKeeps
<1>5. CASE Serve
  BY <1>5, ServeKeeps
<1>6. CASE Arrive
  BY <1>6, ArriveKeeps
<1>7. CASE Break
  BY <1>7, BreakKeeps
<1>8. CASE UNCHANGED vars
  <2>1. timeLeft' \in Nat \cup {None}
    BY <1>8 DEF vars, Inv, TypeOK
  <2> QED  BY <1>8, <2>1, TimeKeeps DEF vars
<1> QED  BY <1>1, <1>2, <1>3, <1>4, <1>5, <1>6, <1>7, <1>8 DEF Next

(* While a request is in progress, what is on its way to the client is the *)
(* answers to it, in their order, and what the server knows is what the    *)
(* facade expects it to know there; a free connection has nothing on it.   *)
THEOREM Invariance == Spec => []Inv
<1>1. Init => Inv
  BY InitInv
<1>2. Inv /\ [Next]_vars => Inv'
  BY NextInv
<1> QED  BY <1>1, <1>2, PTL DEF Spec

\* Every variable has its type.
THEOREM Typing == Spec => []TypeOK
<1>1. Inv => TypeOK
  BY DEF Inv
<1> QED  BY <1>1, Invariance, PTL

(* A call returns the last result of its own request, whatever timed out   *)
(* before it: FetchAsyncPSQLResult() never sees another request's results. *)
THEOREM AnswersItself == Spec => []OwnAnswer
<1>1. Inv => OwnAnswer
  BY DEF Inv, IdleOK, OwnAnswer
<1> QED  BY <1>1, Invariance, PTL

(* Between calls the facade's `prepared' flag and the server agree, as     *)
(* long as the connection can be used.                                     *)
THEOREM NamesAlwaysAgree == Spec => []NamesAgree
<1>1. Inv => NamesAgree
  BY DEF Inv
<1> QED  BY <1>1, Invariance, PTL

(* An exception of FlushPSQL() or FetchAsyncPSQLResult() loses a result at *)
(* most once in the life of a connection, which is of no use afterwards.   *)
THEOREM LosesOne == Spec => []LosesAtMostOne
<1>1. Inv => LosesAtMostOne
  BY DEF Inv, LostOK, FieldTypes, LosesAtMostOne
<1> QED  BY <1>1, Invariance, PTL

(* The connection is free when a call has ended, unless it has thrown a    *)
(* TimeoutException or select() has failed, or the connection is gone.     *)
THEOREM ReadyAfterCall == Spec => ReadyAgain
<1>1. Inv /\ [Next]_vars =>
        [pc # "idle" /\ pc' = "idle" /\ up /\ returned' \notin {TimedOut, SelectFailed}
           => ~conn'.busy]_vars
  <2> SUFFICES ASSUME Inv, Next, pc # "idle", pc' = "idle", up,
                      returned' \notin {TimedOut, SelectFailed}
               PROVE  ~conn'.busy
    OBVIOUS
  <2>1. CASE Flush
    BY <2>1 DEF Flush
  <2>2. CASE Consume
    BY <2>2 DEF Consume, Readable, Inv, TypeOK
  <2>3. CASE Fetched
    <3>1. pc = "fetch" /\ NoMoreResults
      BY <2>3 DEF Fetched
    <3>2. Head(conn.in) = End
      BY <3>1 DEF NoMoreResults
    <3> DEFINE idle == [busy |-> Head(conn.in) # End, in |-> Tail(conn.in)]
    <3>3. ~idle.busy
      BY <3>2
    <3> HIDE DEF idle
    <3>4. conn' = idle
      BY <2>3 DEF Fetched, idle
    <3> QED  BY <3>3, <3>4
  <2>4. ~GetResult /\ ~Tick /\ ~Serve /\ ~Arrive /\ ~Break
    BY DEF GetResult, Tick, Serve, Arrive, Break
  <2>7. ~TimesOut /\ ~SelectFails
    BY DEF TimesOut, SelectFails, Throws, Ends
  <2>5. \A op \in Ops : ~Call(op)
    BY DEF Call
  <2>6. \A n \in Timeouts : ~SetTimeout(n)
    BY DEF SetTimeout
  <2> QED  BY <2>1, <2>2, <2>3, <2>4, <2>5, <2>6, <2>7 DEF Next, Client
<1> QED  BY <1>1, Invariance, PTL DEF Spec, ReadyAgain

----------------------------------------------------------------------------
(* THE PLACEHOLDERS.  Induction: what a recursive function over 0..n gives *)
(* is found set by set, the smallest counterexample being impossible.      *)

\* Induction over the subsets of a finite set.
LEMMA SubsetInduction ==
  ASSUME NEW S, IsFiniteSet(S), NEW G,
         \A T \in SUBSET S : (\A U \in SUBSET T : U # T => U \in G) => T \in G
  PROVE  \A T \in SUBSET S : T \in G
<1>1. IsWellFoundedOn(StrictSubsetOrdering(S), SUBSET S)
  BY FS_StrictSubsetOrderingWellFounded, FS_FiniteSubsetsOfFinite
<1>2. SUFFICES ASSUME (SUBSET S) \ G # {} PROVE FALSE
  OBVIOUS
<1>3. PICK T \in (SUBSET S) \ G : \A U \in (SUBSET S) \ G : ~(<<U, T>> \in StrictSubsetOrdering(S))
  <2> DEFINE R == StrictSubsetOrdering(S)
             A == SUBSET S
             D == (SUBSET S) \ G
  <2>1. IsWellFoundedOn(R, A) /\ D \subseteq A /\ D # {}
    BY <1>1, <1>2
  <2>2. ASSUME IsWellFoundedOn(R, A), D \subseteq A, D # {}
        PROVE  \E x \in D : \A y \in D : ~ (<<y, x>> \in R)
    <3> HIDE DEF R, A, D
    <3> QED  BY <2>2, WFMin
  <2> QED  BY <2>1, <2>2
<1>4. ASSUME NEW U \in SUBSET T, U # T PROVE U \in G
  <2>1. <<U, T>> \in StrictSubsetOrdering(S)
    BY <1>4 DEF StrictSubsetOrdering
  <2> QED  BY <2>1, <1>3
<1> QED  BY <1>3, <1>4

\* Induction up to a number.
LEMMA IntervalInduction ==
  ASSUME NEW n \in Nat, NEW G, 0 \in G, \A j \in 1..n : j - 1 \in G => j \in G
  PROVE  \A j \in 0..n : j \in G
<1> DEFINE S == 1..n
           H == {T \in SUBSET S : \A j \in 0..n : T = 1..j => j \in G}
<1>1. ASSUME NEW T \in SUBSET S, \A U \in SUBSET T : U # T => U \in H
      PROVE  T \in H
  <2> SUFFICES ASSUME NEW j \in 1..n, T = 1..j PROVE j \in G
    OBVIOUS
  <2>1. 1..(j - 1) \in SUBSET T /\ j \in T /\ j \notin 1..(j - 1)
    OBVIOUS
  <2>2. 1..(j - 1) \in H
    BY <1>1, <2>1
  <2> QED  BY <2>2
<1>2. IsFiniteSet(S)
  BY FS_Interval
<1>3. \A T \in SUBSET S : T \in H
  <2> HIDE DEF S, H
  <2> QED  BY <1>1, <1>2, SubsetInduction
<1>4. ASSUME NEW j \in 0..n PROVE j \in G
  <2>1. 1..j \in SUBSET S
    OBVIOUS
  <2>2. 1..j \in H
    BY <1>3, <2>1
  <2> QED  BY <2>2
<1> QED  BY <1>4


\* Every set of natural numbers has a least element.
LEMMA Least ==
  ASSUME NEW S \in SUBSET Nat, S # {}
  PROVE  \E m \in S : \A n \in S : m <= n
<1> SUFFICES ASSUME \A m \in S : \E n \in S : n < m PROVE FALSE
  OBVIOUS
<1> PICK top \in S : TRUE
  OBVIOUS
<1> DEFINE G == {k \in Nat : \A j \in 0..k : j \notin S}
<1>1. 0 \in G
  OBVIOUS
<1>2. ASSUME NEW k \in 1..top, k - 1 \in G PROVE k \in G
  <2>1. \A n \in S : ~(n < k)
    BY <1>2
  <2> QED  BY <2>1
<1>3. \A k \in 0..top : k \in G
  <2> HIDE DEF G
  <2> QED  BY <1>1, <1>2, IntervalInduction
<1> QED  BY <1>3

\* So Min finds it.
LEMMA LeastIsMin ==
  ASSUME NEW S \in SUBSET Nat, S # {}
  PROVE  Min(S) \in S /\ \A n \in S : Min(S) <= n
BY Least DEF Min

----------------------------------------------------------------------------
(* The recursive functions of the reference, unfolded.                     *)

\* The recursive functions of the model exist, whatever the text.
LEMMA PairsExist ==
  ASSUME NEW n \in Nat, NEW p \in Nat \ {0}, NEW C
  PROVE  \E P \in SUBSET (p..n) : \A k \in p..n : k \in P <=> (k \in C /\ (k = p \/ k - 1 \notin P))
<1> DEFINE Fits(P, m) == \A k \in p..m : k \in P <=> (k \in C /\ (k = p \/ k - 1 \notin P))
           G == {m \in Nat : \E P \in SUBSET (p..m) : Fits(P, m)}
<1>1. 0 \in G
  <2>1. p..0 = {}
    OBVIOUS
  <2>2. {} \in SUBSET (p..0) /\ Fits({}, 0)
    BY <2>1
  <2> QED  BY <2>2
<1>2. ASSUME NEW m \in 1..n, m - 1 \in G PROVE m \in G
  <2>1. PICK P \in SUBSET (p..(m - 1)) : Fits(P, m - 1)
    BY <1>2
  <2>2. PICK Q : Q = {k \in p..m : k \in P \/ (k = m /\ k \in C /\ (k = p \/ k - 1 \notin P))}
    OBVIOUS
  <2>3. ASSUME NEW k \in p..m PROVE k \in Q <=> (k \in C /\ (k = p \/ k - 1 \notin Q))
    <3>1. CASE k < m
      <4>1. k \in p..(m - 1) /\ k # m /\ k - 1 # m
        BY <3>1
      <4>2. (k \in Q <=> k \in P) /\ (k # p => (k - 1 \in Q <=> k - 1 \in P))
        BY <2>2, <4>1
      <4> QED  BY <2>1, <4>1, <4>2
    <3>2. CASE k = m
      <4>1. k \notin P /\ k - 1 # m /\ (k # p => k - 1 \in p..m)
        BY <2>1, <3>2
      <4>2. k # p => (k - 1 \in Q <=> k - 1 \in P)
        BY <2>2, <4>1
      <4> QED  BY <2>2, <3>2, <4>1, <4>2
    <3> QED  BY <3>1, <3>2
  <2>4. Q \in SUBSET (p..m) /\ Fits(Q, m)
    BY <2>2, <2>3
  <2> QED  BY <2>4
<1>3. \A m \in 0..n : m \in G
  <2> HIDE DEF G
  <2> QED  BY <1>1, <1>2, IntervalInduction
<1> QED  BY <1>3

\* The same for the beginnings of tokens ...
LEMMA StartsExist ==
  ASSUME NEW n \in Nat, NEW e
  PROVE  \E P \in SUBSET (1..n) : \A p \in 1..n : p \in P <=> (p = 1 \/ \E q \in 1..(p - 1) : q \in P /\ e[q] = p)
<1> DEFINE Start(P, p) == p = 1 \/ \E q \in 1..(p - 1) : q \in P /\ e[q] = p
           Fits(P, m) == \A p \in 1..m : p \in P <=> Start(P, p)
           G == {m \in Nat : \E P \in SUBSET (1..m) : Fits(P, m)}
<1>1. 0 \in G
  <2>1. 1..0 = {}
    OBVIOUS
  <2>2. {} \in SUBSET (1..0) /\ Fits({}, 0)
    BY <2>1
  <2> QED  BY <2>2
<1>2. ASSUME NEW m \in 1..n, m - 1 \in G PROVE m \in G
  <2>1. PICK P \in SUBSET (1..(m - 1)) : Fits(P, m - 1)
    BY <1>2
  <2>2. PICK Q : Q = {p \in 1..m : p \in P \/ (p = m /\ Start(P, p))}
    OBVIOUS
  <2>3. ASSUME NEW p \in 1..m PROVE p \in Q <=> Start(Q, p)
    <3>1. \A q \in 1..(p - 1) : q \in Q <=> q \in P
      BY <2>2
    <3>2. Start(Q, p) <=> Start(P, p)
      BY <3>1
    <3>3. CASE p < m
      <4>1. p \in 1..(m - 1) /\ p # m
        BY <3>3
      <4>2. p \in Q <=> p \in P
        BY <2>2, <4>1
      <4> QED  BY <2>1, <3>2, <4>1, <4>2
    <3>4. CASE p = m
      <4>1. p \notin P
        BY <2>1, <3>4
      <4>2. p \in Q <=> Start(P, p)
        BY <2>2, <3>4, <4>1
      <4> QED  BY <3>2, <4>2
    <3> QED  BY <3>3, <3>4
  <2>4. Q \in SUBSET (1..m) /\ Fits(Q, m)
    BY <2>2, <2>3
  <2> QED  BY <2>4
<1>3. \A m \in 0..n : m \in G
  <2> HIDE DEF G
  <2> QED  BY <1>1, <1>2, IntervalInduction
<1> QED  BY <1>3

Pieces(piece, n, S) == \A p \in 1..n : piece[p] \in Seq(S)
Concatenates(f, piece, n) == f = [p \in 1..(n + 1) |-> IF p = 1 THEN <<>> ELSE f[p - 1] \o piece[p - 1]]

\* ... and for the text that is put together.
LEMMA ConcatenationExists ==
  ASSUME NEW n \in Nat, NEW S, NEW piece, Pieces(piece, n, S)
  PROVE  \E f : Concatenates(f, piece, n)
<1> \A p \in 1..n : piece[p] \in Seq(S)
  BY DEF Pieces
<1> DEFINE Of(g, p) == IF p = 1 THEN <<>> ELSE g[p - 1] \o piece[p - 1]
           Fits(g, m) == \A p \in 1..(m + 1) : g[p] = Of(g, p)
           G == {m \in Nat : \E g \in [1..(m + 1) -> Seq(S)] : Fits(g, m)}
<1>1. 0 \in G
  <2>1. [p \in 1..(0 + 1) |-> <<>>] \in [1..(0 + 1) -> Seq(S)] /\ 1..(0 + 1) = {1}
    OBVIOUS
  <2> QED  BY <2>1
<1>2. ASSUME NEW m \in 1..n, m - 1 \in G PROVE m \in G
  <2>1. PICK g \in [1..m -> Seq(S)] : \A p \in 1..m : g[p] = Of(g, p)
    <3>1. (m - 1) + 1 = m
      OBVIOUS
    <3> QED  BY <1>2, <3>1
  <2> DEFINE h == [p \in 1..(m + 1) |-> IF p < m + 1 THEN g[p] ELSE g[m] \o piece[m]]
  <2>2. h \in [1..(m + 1) -> Seq(S)]
    <3>1. g[m] \o piece[m] \in Seq(S)
      BY <2>1
    <3> QED  BY <2>1, <3>1
  <2>3. ASSUME NEW p \in 1..(m + 1) PROVE h[p] = Of(h, p)
    <3>1. CASE p < m + 1
      <4>1. p \in 1..m /\ h[p] = g[p]
        BY <3>1
      <4>2. p # 1 => h[p - 1] = g[p - 1]
        BY <4>1
      <4> QED  BY <2>1, <4>1, <4>2
    <3>2. CASE p = m + 1
      <4>1. h[p] = g[m] \o piece[m] /\ h[m] = g[m] /\ p - 1 = m /\ p # 1
        BY <3>2
      <4> QED  BY <4>1
    <3> QED  BY <3>1, <3>2
  <2>4. Fits(h, m)
    BY <2>3
  <2> HIDE DEF h, Fits
  <2> QED  BY <2>2, <2>4
<1>3. \A m \in 0..n : m \in G
  <2> HIDE DEF G
  <2> QED  BY <1>1, <1>2, IntervalInduction
<1>4. PICK g \in [1..(n + 1) -> Seq(S)] : Fits(g, n)
  BY <1>3
<1>5. g = [p \in 1..(n + 1) |-> Of(g, p)]
  BY <1>4
<1> QED  BY <1>5 DEF Concatenates

\* The pairs of a comment, without the recursion.
LEMMA PairsAre ==
  ASSUME NEW C, NEW t \in Seq(C), NEW p \in 1..Len(t)
  PROVE  /\ PairsFrom(t, p) \subseteq p..Len(t)
         /\ \A k \in p..Len(t) : k \in PairsFrom(t, p) <=>
              (Opens(t, k) \/ Closes(t, k)) /\ (k = p \/ k - 1 \notin PairsFrom(t, p))
<1> DEFINE E(f) == f = [k \in p..Len(t) |-> (Opens(t, k) \/ Closes(t, k)) /\ (k = p \/ ~f[k - 1])]
<1>1. \E f : E(f)
  <2> DEFINE D == {k \in p..Len(t) : Opens(t, k) \/ Closes(t, k)}
  <2>1. Len(t) \in Nat /\ p \in Nat \ {0}
    OBVIOUS
  <2>2. PICK P \in SUBSET (p..Len(t)) : \A k \in p..Len(t) : k \in P <=> (k \in D /\ (k = p \/ k - 1 \notin P))
    <3> HIDE DEF D
    <3> QED  BY <2>1, PairsExist
  <2>3. PICK f : f = [k \in p..Len(t) |-> k \in P]
    OBVIOUS
  <2>4. ASSUME NEW k \in p..Len(t)
        PROVE  (k \in P) = ((Opens(t, k) \/ Closes(t, k)) /\ (k = p \/ ~f[k - 1]))
    <3>1. k # p => k - 1 \in p..Len(t)
      OBVIOUS
    <3>2. k # p => (f[k - 1] <=> k - 1 \in P)
      BY <2>3, <3>1
    <3> QED  BY <2>2, <3>2
  <2>5. [k \in p..Len(t) |-> k \in P] = [k \in p..Len(t) |-> (Opens(t, k) \/ Closes(t, k)) /\ (k = p \/ ~f[k - 1])]
    BY <2>4, Zenon
  <2>6. E(f)
    BY <2>3, <2>5
  <2> QED  BY <2>6
<1>2. PICK f : f = CHOOSE g : E(g)
  OBVIOUS
<1>3. E(f)
  <2> HIDE DEF E
  <2> QED  BY <1>1, <1>2
<1>4. PairsFrom(t, p) = {k \in p..Len(t) : f[k]}
  BY <1>2 DEF PairsFrom
<1>5. \A k \in p..Len(t) : f[k] <=> (Opens(t, k) \/ Closes(t, k)) /\ (k = p \/ ~f[k - 1])
  BY <1>3, Zenon
<1>6. \A k \in p..Len(t) : k # p => k - 1 \in p..Len(t)
  OBVIOUS
<1> HIDE DEF E
<1> QED  BY <1>4, <1>5, <1>6, Zenon

\* The tokens, without the recursion.
LEMMA TokensAre ==
  ASSUME NEW C, NEW t \in Seq(C)
  PROVE  /\ Tokens(t) \subseteq 1..Len(t)
         /\ \A p \in 1..Len(t) : p \in Tokens(t) <=>
              (p = 1 \/ \E q \in 1..(p - 1) : q \in Tokens(t) /\ TokenEnd(t, q) = p)
<1> DEFINE E(f) == f = [p \in 1..Len(t) |-> p = 1 \/ \E q \in 1..(p - 1) : f[q] /\ TokenEnd(t, q) = p]
<1>1. \E f : E(f)
  <2>1. PICK e : e = [q \in 1..Len(t) |-> TokenEnd(t, q)]
    OBVIOUS
  <2>2. PICK P \in SUBSET (1..Len(t)) :
          \A p \in 1..Len(t) : p \in P <=> (p = 1 \/ \E q \in 1..(p - 1) : q \in P /\ e[q] = p)
    <3>1. Len(t) \in Nat
      OBVIOUS
    <3> QED  BY <3>1, StartsExist
  <2>3. PICK f : f = [p \in 1..Len(t) |-> p \in P]
    OBVIOUS
  <2>4. ASSUME NEW p \in 1..Len(t)
        PROVE  (p \in P) = (p = 1 \/ \E q \in 1..(p - 1) : f[q] /\ TokenEnd(t, q) = p)
    <3>1. \A q \in 1..(p - 1) : q \in 1..Len(t)
      OBVIOUS
    <3>2. \A q \in 1..(p - 1) : (f[q] <=> q \in P) /\ e[q] = TokenEnd(t, q)
      BY <2>1, <2>3, <3>1
    <3> QED  BY <2>2, <3>2
  <2>5. [p \in 1..Len(t) |-> p \in P]
          = [p \in 1..Len(t) |-> p = 1 \/ \E q \in 1..(p - 1) : f[q] /\ TokenEnd(t, q) = p]
    BY <2>4, Zenon
  <2>6. E(f)
    BY <2>3, <2>5
  <2> QED  BY <2>6
<1>2. PICK f : f = CHOOSE g : E(g)
  OBVIOUS
<1>3. E(f)
  <2> HIDE DEF E
  <2> QED  BY <1>1, <1>2
<1>4. Tokens(t) = {p \in 1..Len(t) : f[p]}
  BY <1>2 DEF Tokens
<1>5. \A p \in 1..Len(t) : f[p] <=> (p = 1 \/ \E q \in 1..(p - 1) : f[q] /\ TokenEnd(t, q) = p)
  BY <1>3, Zenon
<1>6. \A p \in 1..Len(t) : \A q \in 1..(p - 1) : q \in 1..Len(t)
  OBVIOUS
<1> HIDE DEF E
<1> QED  BY <1>4, <1>5, <1>6, Zenon

\* What is written for the character p of the input.
Piece(t, marks, p) ==
  IF p \in marks THEN <<"$">> \o Decimal(Cardinality({q \in marks : q < p + 1})) ELSE <<t[p]>>

\* What is put together are sequences of characters.
LEMMA PiecesAre ==
  ASSUME NEW C, NEW t \in Seq(C), NEW marks \in SUBSET (1..Len(t)), NEW p \in 1..Len(t)
  PROVE  Piece(t, marks, p) \in Seq(C \cup {"$"} \cup {DigitOf(n) : n \in Nat})
<1> DEFINE S == C \cup {"$"} \cup {DigitOf(n) : n \in Nat}
<1>1. PICK n \in Nat : n = Cardinality({q \in marks : q < p + 1})
  <2>1. {q \in marks : q < p + 1} \subseteq 1..Len(t) /\ IsFiniteSet(1..Len(t))
    <3>1. 1 \in Int /\ Len(t) \in Int
      OBVIOUS
    <3> QED  BY <3>1, FS_Interval
  <2>2. IsFiniteSet({q \in marks : q < p + 1})
    BY <2>1, FS_Subset
  <2> QED  BY <2>2, FS_CardinalityType
<1>2. DigitOf(n) \in S /\ DigitOf(n \div 10) \in S /\ DigitOf(n % 10) \in S
  <2>1. n \div 10 \in Nat /\ n % 10 \in Nat
    OBVIOUS
  <2> QED  BY <2>1
<1>3. "$" \in S /\ t[p] \in S
  OBVIOUS
<1> HIDE DEF S
<1>4. <<DigitOf(n)>> \in Seq(S) /\ <<DigitOf(n \div 10), DigitOf(n % 10)>> \in Seq(S)
  BY <1>2
<1>5. Decimal(n) \in Seq(S)
  BY <1>4 DEF Decimal
<1>6. <<"$">> \o Decimal(n) \in Seq(S) /\ <<t[p]>> \in Seq(S)
  BY <1>3, <1>5
<1>7. Piece(t, marks, p) \in Seq(S)
  BY <1>1, <1>6 DEF Piece
<1> QED  BY <1>7 DEF S

\* The rewritten text, without the recursion.
LEMMA NumberedIs ==
  ASSUME NEW C, NEW t \in Seq(C), NEW marks \in SUBSET (1..Len(t))
  PROVE  /\ Numbered(t, marks)[1] = <<>>
         /\ \A p \in 1..Len(t) : Numbered(t, marks)[p + 1] = Numbered(t, marks)[p] \o Piece(t, marks, p)
<1> DEFINE Text(p) == IF p - 1 \in marks
                      THEN <<"$">> \o Decimal(Cardinality({q \in marks : q < p})) ELSE <<t[p - 1]>>
           E(f) == f = [p \in 1..(Len(t) + 1) |-> IF p = 1 THEN <<>> ELSE f[p - 1] \o Text(p)]
<1>0. \A p \in 1..(Len(t) + 1) : Text(p) = Piece(t, marks, p - 1)
  <2> SUFFICES ASSUME NEW p \in 1..(Len(t) + 1) PROVE Text(p) = Piece(t, marks, p - 1)
    OBVIOUS
  <2>1. PICK k \in Nat : k = p - 1 /\ p = k + 1
    OBVIOUS
  <2>2. Text(p) = Piece(t, marks, k)
    BY <2>1 DEF Piece
  <2> QED  BY <2>1, <2>2
<1>1. \E f : E(f)
  <2>1. PICK piece : piece = [p \in 1..Len(t) |-> Piece(t, marks, p)]
    OBVIOUS
  <2>2. PICK S : \A p \in 1..Len(t) : piece[p] \in Seq(S)
    BY <2>1, PiecesAre
  <2>3. PICK f : f = [p \in 1..(Len(t) + 1) |-> IF p = 1 THEN <<>> ELSE f[p - 1] \o piece[p - 1]]
    <3>1. PICK n \in Nat : n = Len(t)
      OBVIOUS
    <3>2. Pieces(piece, n, S)
      BY <2>2, <3>1 DEF Pieces
    <3>3. \E f : Concatenates(f, piece, n)
      BY <3>2, ConcatenationExists
    <3> QED  BY <3>1, <3>3 DEF Concatenates
  <2>4. ASSUME NEW p \in 1..(Len(t) + 1)
        PROVE  (IF p = 1 THEN <<>> ELSE f[p - 1] \o piece[p - 1]) = (IF p = 1 THEN <<>> ELSE f[p - 1] \o Text(p))
    <3>1. p # 1 => p - 1 \in 1..Len(t)
      OBVIOUS
    <3>2. p # 1 => piece[p - 1] = Text(p)
      BY <1>0, <2>1, <3>1
    <3> HIDE DEF Text
    <3> QED  BY <3>2
  <2>5. f = [p \in 1..(Len(t) + 1) |-> IF p = 1 THEN <<>> ELSE f[p - 1] \o Text(p)]
    <3> HIDE DEF Text
    <3>1. [p \in 1..(Len(t) + 1) |-> IF p = 1 THEN <<>> ELSE f[p - 1] \o piece[p - 1]]
            = [p \in 1..(Len(t) + 1) |-> IF p = 1 THEN <<>> ELSE f[p - 1] \o Text(p)]
      BY <2>4
    <3> QED  BY <2>3, <3>1
  <2> QED  BY <2>5
<1>2. PICK f : f = CHOOSE g : E(g)
  OBVIOUS
<1>3. E(f)
  <2> HIDE DEF E
  <2> QED  BY <1>1, <1>2
<1>4. Numbered(t, marks) = f
  BY <1>2 DEF Numbered
<1>5. f[1] = <<>>
  <2>1. 1 \in 1..(Len(t) + 1)
    OBVIOUS
  <2> HIDE DEF Text
  <2> QED  BY <1>3, <2>1
<1>6. ASSUME NEW p \in 1..Len(t) PROVE f[p + 1] = f[p] \o Piece(t, marks, p)
  <2>1. PICK k : k = p + 1 /\ k \in 1..(Len(t) + 1) /\ k # 1 /\ k - 1 = p
    OBVIOUS
  <2>2. f[k] = f[k - 1] \o Text(k)
    <3> HIDE DEF Text
    <3> QED  BY <1>3, <2>1
  <2>3. Text(k) = Piece(t, marks, p)
    BY <1>0, <2>1
  <2> HIDE DEF Text
  <2> QED  BY <2>1, <2>2, <2>3
<1> HIDE DEF E
<1> QED  BY <1>4, <1>5, <1>6

----------------------------------------------------------------------------
(* Where tokens end.                                                       *)

\* A token is not empty.
LEMMA EndsAre ==
  ASSUME NEW C, NEW t \in Seq(C), NEW p \in 1..Len(t)
  PROVE  EndsOf(t, p) \subseteq Nat /\ \A x \in EndsOf(t, p) : p < x
<1>1. \A c : EndsAfter(t, p, c) \subseteq Nat /\ \A x \in EndsAfter(t, p, c) : p < x
  BY DEF EndsAfter
<1>2. CommentEnds(t, p) \subseteq Nat /\ \A x \in CommentEnds(t, p) : p < x
  <2>1. \A k \in PairsFrom(t, p) : k \in Nat /\ k + 2 \in Nat /\ p < k + 2
    BY PairsAre
  <2> QED  BY <2>1 DEF CommentEnds
<1>3. {p + 1} \subseteq Nat /\ \A x \in {p + 1} : p < x
  OBVIOUS
<1> QED  BY <1>1, <1>2, <1>3 DEF EndsOf

\* The least of the possible ends, or the end of the text.
LEMMA TokenEndIs ==
  ASSUME NEW C, NEW t \in Seq(C), NEW p \in 1..Len(t)
  PROVE  /\ TokenEnd(t, p) \in Nat /\ p < TokenEnd(t, p) /\ TokenEnd(t, p) <= Len(t) + 1
         /\ TokenEnd(t, p) \in EndsOf(t, p) \/ TokenEnd(t, p) = Len(t) + 1
         /\ \A x \in EndsOf(t, p) : TokenEnd(t, p) <= x
<1>1. EndsOf(t, p) \subseteq Nat /\ \A x \in EndsOf(t, p) : p < x
  BY EndsAre
<1>2. PICK S : S = {Len(t) + 1} \cup EndsOf(t, p)
  OBVIOUS
<1>3. S \in SUBSET Nat /\ S # {} /\ Len(t) + 1 \in S /\ EndsOf(t, p) \subseteq S
  BY <1>1, <1>2
<1>4. Min(S) \in S /\ \A n \in S : Min(S) <= n
  BY <1>3, LeastIsMin
<1>5. TokenEnd(t, p) = Min(S)
  BY <1>2 DEF TokenEnd
<1>6. \A x \in S : p < x
  BY <1>1, <1>2
<1> QED  BY <1>2, <1>3, <1>4, <1>5, <1>6

\* A token, or the end, is where another token ends.
Starts(t, j) == j \in Tokens(t) \/ j = Len(t) + 1

\* The end of a token is where the next one begins, or the end of the text.
LEMMA NextStarts ==
  ASSUME NEW C, NEW t \in Seq(C), NEW q \in Tokens(t)
  PROVE  Starts(t, TokenEnd(t, q))
<1>1. q \in 1..Len(t)
  BY TokensAre
<1>2. PICK e \in Nat : e = TokenEnd(t, q) /\ q < e /\ e <= Len(t) + 1
  BY <1>1, TokenEndIs
<1>3. CASE e <= Len(t)
  <2>1. e \in 1..Len(t) /\ q \in 1..(e - 1)
    BY <1>1, <1>2, <1>3
  <2> QED  BY <1>2, <2>1, TokensAre DEF Starts
<1>4. CASE e = Len(t) + 1
  BY <1>2, <1>4 DEF Starts
<1>5. e <= Len(t) \/ e = Len(t) + 1
  BY <1>2
<1> QED  BY <1>3, <1>4, <1>5

\* Tokens do not overlap.
LEMMA TokensApart ==
  ASSUME NEW C, NEW t \in Seq(C), NEW q \in Tokens(t), NEW s \in Tokens(t), q < s
  PROVE  TokenEnd(t, q) <= s
<1> DEFINE Apart(m) == \A x, y \in Tokens(t) : y <= m /\ x < y => TokenEnd(t, x) <= y
           G == {m \in Nat : Apart(m)}
<1>1. Tokens(t) \subseteq 1..Len(t)
  BY TokensAre
<1>2. 0 \in G
  BY <1>1
<1>3. ASSUME NEW m \in 1..Len(t), m - 1 \in G PROVE m \in G
  <2>1. SUFFICES ASSUME NEW x \in Tokens(t), NEW y \in Tokens(t), y <= m, x < y
                 PROVE  TokenEnd(t, x) <= y
    <3>1. m \in Nat
      OBVIOUS
    <3> QED  BY <3>1, Zenon
  <2>2. x \in 1..Len(t) /\ y \in 1..Len(t) /\ y # 1
    BY <1>1, <2>1
  <2>3. PICK r \in 1..(y - 1) : r \in Tokens(t) /\ TokenEnd(t, r) = y
    BY <2>2, TokensAre
  <2>4. CASE r = x
    BY <2>2, <2>3, <2>4
  <2>5. CASE x < r
    <3>1. r \in Nat /\ r <= m - 1 /\ x \in Nat /\ y \in Nat /\ r < y
      BY <2>1, <2>2, <2>3
    <3>2. TokenEnd(t, x) <= r
      BY <1>3, <2>3, <2>5, <3>1
    <3>3. TokenEnd(t, x) \in Nat
      BY <2>2, TokenEndIs
    <3> QED  BY <3>1, <3>2, <3>3
  <2>6. CASE r < x
    <3>1. x \in Nat /\ x <= m - 1 /\ y \in Nat
      BY <2>1, <2>2
    <3>2. TokenEnd(t, r) <= x
      BY <1>3, <2>3, <2>6, <3>1
    <3> QED  BY <2>1, <2>3, <3>1, <3>2
  <2>7. r = x \/ x < r \/ r < x
    BY <2>2, <2>3
  <2> QED  BY <2>4, <2>5, <2>6, <2>7
<1>4. PICK n \in Nat : n = Len(t)
  OBVIOUS
<1>5. \A m \in 0..n : m \in G
  <2> HIDE DEF G
  <2> QED  BY <1>2, <1>3, <1>4, IntervalInduction
<1>6. s \in 0..n /\ s <= s
  BY <1>1, <1>4
<1>7. Apart(s)
  BY <1>5, <1>6
<1> QED  BY <1>6, <1>7

\* Nothing inside of a token is one.
LEMMA InsideIsNone ==
  ASSUME NEW C, NEW t \in Seq(C), NEW q \in Tokens(t), NEW j \in Nat, q < j, j < TokenEnd(t, q)
  PROVE  j \notin Tokens(t)
<1> SUFFICES ASSUME j \in Tokens(t) PROVE FALSE
  OBVIOUS
<1>1. TokenEnd(t, q) <= j
  BY TokensApart
<1>2. q \in 1..Len(t)
  BY TokensAre
<1>3. TokenEnd(t, q) \in Nat
  BY <1>2, TokenEndIs
<1> QED  BY <1>1, <1>3

\* Literals, identifiers and comments to the end of the line: no c is between
\* q, where they begin, and j.
Without(t, q, j, c) == q < j /\ \A k \in (q + 1)..(j - 1) : t[k] # c

\* A further character of these.
LEMMA WithoutIs ==
  ASSUME NEW C, NEW t \in Seq(C), NEW q \in Tokens(t), NEW c, EndsOf(t, q) = EndsAfter(t, q, c),
         NEW j \in 1..Len(t), Without(t, q, j, c)
  PROVE  /\ j < TokenEnd(t, q)
         /\ t[j] = c => Starts(t, j + 1)
         /\ t[j] # c => Without(t, q, j + 1, c)
<1>1. q \in 1..Len(t) /\ q < j
  BY TokensAre DEF Without
<1>2. ASSUME NEW x \in EndsOf(t, q) PROVE j < x
  <2>1. PICK k \in (q + 1)..Len(t) : x = k + 1 /\ t[k] = c
    BY <1>2 DEF EndsAfter
  <2>2. ~(k <= j - 1)
    BY <1>1, <2>1 DEF Without
  <2> QED  BY <1>1, <2>1, <2>2
<1>3. j < TokenEnd(t, q)
  BY <1>1, <1>2, TokenEndIs
<1>4. ASSUME t[j] = c PROVE Starts(t, j + 1)
  <2>1. j \in (q + 1)..Len(t)
    BY <1>1
  <2>2. j + 1 \in EndsOf(t, q)
    BY <1>4, <2>1 DEF EndsAfter
  <2>3. TokenEnd(t, q) <= j + 1 /\ TokenEnd(t, q) \in Nat
    BY <1>1, <2>2, TokenEndIs
  <2>4. TokenEnd(t, q) = j + 1
    BY <1>3, <2>3
  <2> QED  BY <2>4, NextStarts
<1>5. ASSUME t[j] # c PROVE Without(t, q, j + 1, c)
  BY <1>1, <1>5 DEF Without
<1> QED  BY <1>3, <1>4, <1>5

----------------------------------------------------------------------------
(* Nested comments.                                                        *)

\* The comment that begins at q is open before j, `depth' deep.
Nested(t, q, j, depth) ==
  /\ q + 1 < j /\ j - 1 \notin PairsFrom(t, q)
  /\ Cardinality(Opened(t, q, j - 1)) = Cardinality(Closed(t, q, j - 1)) + depth
  /\ \A k \in PairsFrom(t, q) : k < j => ~Balanced(t, q, k)

\* There are finitely many pairs.
LEMMA CountsAre ==
  ASSUME NEW C, NEW t \in Seq(C), NEW q \in 1..Len(t), NEW k
  PROVE  /\ IsFiniteSet(Opened(t, q, k)) /\ IsFiniteSet(Closed(t, q, k))
         /\ Cardinality(Opened(t, q, k)) \in Nat /\ Cardinality(Closed(t, q, k)) \in Nat
<1>1. q \in Int /\ Len(t) \in Int
  OBVIOUS
<1>2. IsFiniteSet(q..Len(t))
  BY <1>1, FS_Interval
<1>3. Opened(t, q, k) \subseteq q..Len(t) /\ Closed(t, q, k) \subseteq q..Len(t)
  BY PairsAre DEF Opened, Closed
<1>4. IsFiniteSet(Opened(t, q, k)) /\ IsFiniteSet(Closed(t, q, k))
  BY <1>2, <1>3, FS_Subset
<1> QED  BY <1>4, FS_CardinalityType

\* A pair does not open and close at once.
LEMMA OneKind ==
  ASSUME NEW t, NEW k
  PROVE  ~(Opens(t, k) /\ Closes(t, k))
BY DEF Opens, Closes, At

\* A pair changes the depth by one.
LEMMA DepthIs ==
  ASSUME NEW C, NEW t \in Seq(C), NEW q \in 1..Len(t), NEW j \in q..Len(t), NEW m \in Nat,
         j = m + 1, m \notin PairsFrom(t, q), j \in PairsFrom(t, q), NEW n \in Nat, n = j \/ n = j + 1,
         n = j + 1 => n \notin PairsFrom(t, q)
  PROVE  /\ Opens(t, j) => /\ Cardinality(Opened(t, q, n)) = Cardinality(Opened(t, q, m)) + 1
                           /\ Closed(t, q, n) = Closed(t, q, m)
         /\ Closes(t, j) => /\ Cardinality(Closed(t, q, n)) = Cardinality(Closed(t, q, m)) + 1
                            /\ Opened(t, q, n) = Opened(t, q, m)
<1>1. PairsFrom(t, q) \subseteq Nat
  BY PairsAre
<1>2. \A k \in PairsFrom(t, q) : k <= n <=> (k <= m \/ k = j)
  BY <1>1
<1>3. j \notin Opened(t, q, m) /\ j \notin Closed(t, q, m)
  BY DEF Opened, Closed
<1>4. ASSUME Opens(t, j)
      PROVE  /\ Cardinality(Opened(t, q, n)) = Cardinality(Opened(t, q, m)) + 1
             /\ Closed(t, q, n) = Closed(t, q, m)
  <2>1. ~Closes(t, j)
    BY <1>4, OneKind
  <2>2. Closed(t, q, n) = Closed(t, q, m)
    BY <1>2, <2>1 DEF Closed
  <2>3. Opened(t, q, n) = Opened(t, q, m) \cup {j}
    BY <1>2, <1>4 DEF Opened
  <2>4. IsFiniteSet(Opened(t, q, m))
    BY CountsAre
  <2>5. Cardinality(Opened(t, q, m) \cup {j}) = Cardinality(Opened(t, q, m)) + 1
    BY <1>3, <2>4, FS_AddElement
  <2> QED  BY <2>2, <2>3, <2>5
<1>5. ASSUME Closes(t, j)
      PROVE  /\ Cardinality(Closed(t, q, n)) = Cardinality(Closed(t, q, m)) + 1
             /\ Opened(t, q, n) = Opened(t, q, m)
  <2>1. ~Opens(t, j)
    BY <1>5, OneKind
  <2>2. Opened(t, q, n) = Opened(t, q, m)
    BY <1>2, <2>1 DEF Opened
  <2>3. Closed(t, q, n) = Closed(t, q, m) \cup {j}
    BY <1>2, <1>5 DEF Closed
  <2>4. IsFiniteSet(Closed(t, q, m))
    BY CountsAre
  <2>5. Cardinality(Closed(t, q, m) \cup {j}) = Cardinality(Closed(t, q, m)) + 1
    BY <1>3, <2>4, FS_AddElement
  <2> QED  BY <2>2, <2>3, <2>5
<1> QED  BY <1>4, <1>5

\* The opening pair.
LEMMA CommentBegins ==
  ASSUME NEW C, NEW t \in Seq(C), NEW q \in Tokens(t), Opens(t, q), NEW one, one = 1
  PROVE  Nested(t, q, q + 2, one) /\ q + 1 <= Len(t)
<1>1. q \in 1..Len(t) /\ q + 1 \in q..Len(t) /\ q \in Nat
  BY TokensAre DEF Opens, At
<1>2. PairsFrom(t, q) \subseteq q..Len(t) /\ q \in PairsFrom(t, q)
  BY <1>1, PairsAre
<1>3. PICK m, n \in Nat : m = q - 1 /\ n = q + 1
  BY <1>1
<1>4. n \notin PairsFrom(t, q) /\ m \notin PairsFrom(t, q)
  BY <1>1, <1>2, <1>3, PairsAre
<1>5. Opened(t, q, m) = {} /\ Closed(t, q, m) = {}
  BY <1>2, <1>3 DEF Opened, Closed
<1>6. ASSUME NEW k \in {q, n}
      PROVE  Cardinality(Opened(t, q, k)) = 1 /\ Cardinality(Closed(t, q, k)) = 0
  <2>1. k \in Nat /\ (k = q \/ k = q + 1) /\ (k = q + 1 => k \notin PairsFrom(t, q))
    BY <1>1, <1>3, <1>4
  <2>2. Cardinality(Opened(t, q, k)) = Cardinality(Opened(t, q, m)) + 1 /\ Closed(t, q, k) = Closed(t, q, m)
    BY <1>1, <1>2, <1>3, <1>4, <2>1, DepthIs
  <2> QED  BY <1>5, <2>2, FS_EmptySet
<1>7. \A k \in PairsFrom(t, q) : k < q + 2 => k = q
  BY <1>1, <1>2, <1>3, <1>4
<1>8. ~Balanced(t, q, q)
  BY <1>6 DEF Balanced
<1>9. q + 2 - 1 = n /\ q + 1 < q + 2
  BY <1>1, <1>3
<1> QED  BY <1>1, <1>4, <1>6, <1>7, <1>8, <1>9 DEF Nested

\* A further character of the comment.
LEMMA CommentGoesOn ==
  ASSUME NEW C, NEW t \in Seq(C), NEW q \in Tokens(t), EndsOf(t, q) = CommentEnds(t, q),
         NEW j \in 1..Len(t), NEW depth \in Nat \ {0}, Nested(t, q, j, depth)
  PROVE  /\ j < TokenEnd(t, q)
         /\ Opens(t, j) => Nested(t, q, j + 2, depth + 1) /\ j + 1 < TokenEnd(t, q)
         /\ Closes(t, j) => /\ j + 1 < TokenEnd(t, q)
                            /\ IF depth = 1 THEN Starts(t, j + 2) ELSE Nested(t, q, j + 2, depth - 1)
         /\ ~Opens(t, j) /\ ~Closes(t, j) => Nested(t, q, j + 1, depth)
<1>1. q \in 1..Len(t) /\ q \in Nat /\ j \in Nat /\ q + 1 < j /\ j \in q..Len(t) /\ j # q
  BY TokensAre DEF Nested
<1>2. PairsFrom(t, q) \subseteq q..Len(t) /\ PairsFrom(t, q) \subseteq Nat
  BY <1>1, PairsAre
<1>3. PICK m, n \in Nat : m = j - 1 /\ n = j + 1
  BY <1>1
<1>4. m \notin PairsFrom(t, q) /\ j = m + 1
  BY <1>1, <1>3 DEF Nested
<1>5. j \in PairsFrom(t, q) <=> Opens(t, j) \/ Closes(t, j)
  BY <1>1, <1>3, <1>4, PairsAre
<1>6. \A k \in PairsFrom(t, q) : k < j => ~Balanced(t, q, k)
  BY DEF Nested
<1>7. ASSUME NEW x \in EndsOf(t, q) PROVE j + 1 < x /\ x \in Nat
  <2>1. PICK k \in PairsFrom(t, q) : x = k + 2 /\ Balanced(t, q, k)
    BY <1>7 DEF CommentEnds
  <2>2. k \in Nat /\ ~(k < j)
    BY <1>2, <1>6, <2>1
  <2> QED  BY <1>1, <2>1, <2>2
<1>8. j < TokenEnd(t, q) /\ (j + 1 <= Len(t) => j + 1 < TokenEnd(t, q))
  <2>1. TokenEnd(t, q) \in EndsOf(t, q) \/ TokenEnd(t, q) = Len(t) + 1
    BY <1>1, TokenEndIs
  <2> QED  BY <1>1, <1>7, <2>1
<1>9. PICK o, c \in Nat : o = Cardinality(Opened(t, q, m)) /\ c = Cardinality(Closed(t, q, m)) /\ o = c + depth
  <2>1. Cardinality(Opened(t, q, m)) \in Nat /\ Cardinality(Closed(t, q, m)) \in Nat
    BY <1>1, CountsAre
  <2> QED  BY <1>3, <2>1 DEF Nested
<1>10. ASSUME j \in PairsFrom(t, q) PROVE n \in q..Len(t) /\ n \notin PairsFrom(t, q) /\ j + 1 <= Len(t)
  <2>1. j + 1 <= Len(t)
    BY <1>5, <1>10 DEF Opens, Closes, At
  <2>2. n \in q..Len(t) /\ n # q /\ n - 1 = j
    BY <1>1, <1>3, <2>1
  <2> QED  BY <1>1, <1>10, <2>1, <2>2, PairsAre
<1>11. ASSUME j \in PairsFrom(t, q), NEW k \in {j, n}
       PROVE  /\ Opens(t, j) => Cardinality(Opened(t, q, k)) = o + 1 /\ Cardinality(Closed(t, q, k)) = c
              /\ Closes(t, j) => Cardinality(Closed(t, q, k)) = c + 1 /\ Cardinality(Opened(t, q, k)) = o
  <2>1. k \in Nat /\ (k = j \/ k = j + 1) /\ (k = j + 1 => k \notin PairsFrom(t, q))
    BY <1>1, <1>3, <1>10, <1>11
  <2>2. /\ Opens(t, j) => /\ Cardinality(Opened(t, q, k)) = Cardinality(Opened(t, q, m)) + 1
                           /\ Closed(t, q, k) = Closed(t, q, m)
        /\ Closes(t, j) => /\ Cardinality(Closed(t, q, k)) = Cardinality(Closed(t, q, m)) + 1
                            /\ Opened(t, q, k) = Opened(t, q, m)
    BY <1>1, <1>4, <1>11, <2>1, DepthIs
  <2> QED  BY <1>9, <2>2
<1>12. ASSUME j \in PairsFrom(t, q), NEW d \in Nat, ~Balanced(t, q, j),
              Cardinality(Opened(t, q, n)) = Cardinality(Closed(t, q, n)) + d
       PROVE  Nested(t, q, j + 2, d)
  <2>1. \A k \in PairsFrom(t, q) : k < j + 2 => k < j \/ k = j
    <3>1. n \notin PairsFrom(t, q)
      BY <1>10, <1>12
    <3> QED  BY <1>1, <1>2, <1>3, <3>1
  <2>2. j + 2 - 1 = n /\ q + 1 < j + 2
    BY <1>1, <1>3
  <2> QED  BY <1>6, <1>10, <1>12, <2>1, <2>2 DEF Nested
<1>13. ASSUME Opens(t, j) PROVE Nested(t, q, j + 2, depth + 1) /\ j + 1 < TokenEnd(t, q)
  <2>1. j \in PairsFrom(t, q)
    BY <1>5, <1>13
  <2>2. ~Balanced(t, q, j) /\ Cardinality(Opened(t, q, n)) = Cardinality(Closed(t, q, n)) + (depth + 1)
    BY <1>9, <1>11, <1>13, <2>1 DEF Balanced
  <2>3. depth + 1 \in Nat
    OBVIOUS
  <2> QED  BY <1>8, <1>10, <1>12, <2>1, <2>2, <2>3
<1>14. ASSUME Closes(t, j)
       PROVE  /\ j + 1 < TokenEnd(t, q)
              /\ IF depth = 1 THEN Starts(t, j + 2) ELSE Nested(t, q, j + 2, depth - 1)
  <2>1. j \in PairsFrom(t, q)
    BY <1>5, <1>14
  <2>2. j + 1 < TokenEnd(t, q)
    BY <1>8, <1>10, <2>1
  <2>3. \A k \in {j, n} : Cardinality(Opened(t, q, k)) = o /\ Cardinality(Closed(t, q, k)) = c + 1
    BY <1>11, <1>14, <2>1
  <2>4. CASE depth = 1
    <3>1. Balanced(t, q, j)
      BY <1>9, <2>3, <2>4 DEF Balanced
    <3>2. j + 2 \in EndsOf(t, q)
      BY <2>1, <3>1 DEF CommentEnds
    <3>3. TokenEnd(t, q) <= j + 2 /\ TokenEnd(t, q) \in Nat
      BY <1>1, <3>2, TokenEndIs
    <3>4. TokenEnd(t, q) = j + 2
      BY <1>1, <2>2, <3>3
    <3>5. Starts(t, j + 2)
      BY <3>4, NextStarts
    <3> QED  BY <2>2, <2>4, <3>5
  <2>5. CASE depth # 1
    <3>1. depth - 1 \in Nat /\ ~Balanced(t, q, j)
          /\ Cardinality(Opened(t, q, n)) = Cardinality(Closed(t, q, n)) + (depth - 1)
      BY <1>9, <2>3, <2>5 DEF Balanced
    <3>2. Nested(t, q, j + 2, depth - 1)
      BY <1>12, <2>1, <3>1
    <3> QED  BY <2>2, <2>5, <3>2
  <2> QED  BY <2>4, <2>5
<1>15. ASSUME ~Opens(t, j), ~Closes(t, j) PROVE Nested(t, q, j + 1, depth)
  <2>1. j \notin PairsFrom(t, q)
    BY <1>5, <1>15
  <2>2. \A k \in PairsFrom(t, q) : (k <= j <=> k <= m) /\ (k < j + 1 => k < j)
    BY <1>1, <1>2, <1>3, <2>1
  <2>3. Opened(t, q, j) = Opened(t, q, m) /\ Closed(t, q, j) = Closed(t, q, m)
    BY <2>2 DEF Opened, Closed
  <2>4. PICK e \in Nat : e = j + 1 /\ e - 1 = j /\ q + 1 < e
    BY <1>1
  <2>5. Nested(t, q, e, depth)
    BY <1>6, <1>9, <2>1, <2>2, <2>3, <2>4 DEF Nested
  <2> QED  BY <2>4, <2>5
<1> QED  BY <1>8, <1>13, <1>14, <1>15

\* The kinds of tokens, by how they begin.
LEMMA KindIs ==
  ASSUME NEW t, NEW q
  PROVE  /\ t[q] = "squote" => EndsOf(t, q) = EndsAfter(t, q, "squote")
         /\ t[q] = "dquote" => EndsOf(t, q) = EndsAfter(t, q, "dquote")
         /\ At(t, q, "dash") /\ At(t, q + 1, "dash") => EndsOf(t, q) = EndsAfter(t, q, "nl")
         /\ Opens(t, q) => EndsOf(t, q) = CommentEnds(t, q)
         /\ t[q] # "squote" /\ t[q] # "dquote" /\ ~(At(t, q, "dash") /\ At(t, q + 1, "dash")) /\ ~Opens(t, q)
              => EndsOf(t, q) = {q + 1}
<1>1. At(t, q, "dash") => t[q] = "dash"
  BY DEF At
<1>2. Opens(t, q) => t[q] = "slash"
  BY DEF Opens, At
<1> QED  BY <1>1, <1>2 DEF EndsOf

\* A token of one character.
LEMMA SingleIs ==
  ASSUME NEW C, NEW t \in Seq(C), NEW q \in Tokens(t), EndsOf(t, q) = {q + 1}
  PROVE  Starts(t, q + 1)
<1>1. q \in 1..Len(t)
  BY TokensAre
<1>2. TokenEnd(t, q) = q + 1
  <2>1. q + 1 \in EndsOf(t, q)
    OBVIOUS
  <2>2. PICK e \in Nat : e = TokenEnd(t, q) /\ q < e /\ e <= q + 1
    BY <1>1, <2>1, TokenEndIs
  <2> QED  BY <1>1, <2>2
<1> QED  BY <1>2, NextStarts

----------------------------------------------------------------------------
(* What has been written.                                                  *)
Output == Chars \cup {"$"} \cup {DigitOf(n) : n \in Nat}

\* Before the character j of the text t, o has been written and c is the number
\* of the next placeholder.
Progress(t, j, o, c) ==
  /\ j \in 1..(Len(t) + 1) /\ o \in Seq(Output) /\ c \in Nat \ {0} /\ c <= j
  /\ c = Cardinality({q \in Marks(t) : q < j}) + 1
  /\ c <= 10 => o = Numbered(t, Marks(t))[j] /\ Len(o) = j + c - 2

\* There are finitely many placeholders.
LEMMA MarksAre ==
  ASSUME NEW C, NEW t \in Seq(C), NEW j
  PROVE  /\ Marks(t) \in SUBSET (1..Len(t)) /\ IsFiniteSet({q \in Marks(t) : q < j})
         /\ Cardinality({q \in Marks(t) : q < j}) \in Nat
<1>1. Marks(t) \in SUBSET (1..Len(t))
  BY TokensAre DEF Marks
<1>2. 1 \in Int /\ Len(t) \in Int
  OBVIOUS
<1>3. IsFiniteSet(1..Len(t)) /\ {q \in Marks(t) : q < j} \subseteq 1..Len(t)
  BY <1>1, <1>2, FS_Interval
<1>4. IsFiniteSet({q \in Marks(t) : q < j})
  BY <1>3, FS_Subset
<1> QED  BY <1>1, <1>4, FS_CardinalityType

\* A character that is no placeholder.
LEMMA CopyOne ==
  ASSUME NEW t \in Seq(Chars), NEW j \in 1..Len(t), NEW o, NEW c, Progress(t, j, o, c), j \notin Marks(t)
  PROVE  Progress(t, j + 1, o \o <<t[j]>>, c)
<1>1. o \in Seq(Output) /\ c \in Nat \ {0} /\ c <= j /\ j \in Nat
  BY DEF Progress
<1>2. PICK n \in Nat : n = j + 1 /\ n \in 1..(Len(t) + 1) /\ c <= n
  BY <1>1
<1>3. PICK r : r = o \o <<t[j]>>
  OBVIOUS
<1>4. t[j] \in Output
  BY DEF Output
<1>5. r \in Seq(Output) /\ Len(r) = Len(o) + 1
  BY <1>1, <1>3, <1>4
<1>6. \A q \in Marks(t) : q < n <=> q < j
  <2>1. Marks(t) \subseteq Nat
    <3>1. Marks(t) \in SUBSET (1..Len(t))
      BY MarksAre
    <3> QED  BY <3>1
  <2> QED  BY <1>1, <1>2, <2>1
<1>7. {q \in Marks(t) : q < n} = {q \in Marks(t) : q < j}
  BY <1>6
<1>8. ASSUME c <= 10 PROVE r = Numbered(t, Marks(t))[n] /\ Len(r) = n + c - 2
  <2>1. o = Numbered(t, Marks(t))[j] /\ Len(o) = j + c - 2
    BY <1>8 DEF Progress
  <2>2. Marks(t) \in SUBSET (1..Len(t))
    BY MarksAre
  <2>3. Numbered(t, Marks(t))[j + 1] = Numbered(t, Marks(t))[j] \o Piece(t, Marks(t), j)
    BY <2>2, NumberedIs
  <2>4. Piece(t, Marks(t), j) = <<t[j]>>
    BY DEF Piece
  <2>5. r = Numbered(t, Marks(t))[n]
    BY <1>2, <1>3, <2>1, <2>3, <2>4
  <2> QED  BY <1>1, <1>2, <1>5, <2>1, <2>5
<1>9. Progress(t, n, r, c)
  BY <1>1, <1>2, <1>5, <1>7, <1>8 DEF Progress
<1> QED  BY <1>2, <1>3, <1>9

\* Two characters that are no placeholders.
LEMMA CopyTwo ==
  ASSUME NEW t \in Seq(Chars), NEW j \in 1..Len(t), j + 1 <= Len(t), NEW o, NEW c, Progress(t, j, o, c),
         j \notin Marks(t), j + 1 \notin Marks(t)
  PROVE  Progress(t, j + 2, o \o <<t[j], t[j + 1]>>, c)
<1>1. PICK n : n = j + 1 /\ n \in 1..Len(t) /\ n + 1 = j + 2
  OBVIOUS
<1>2. PICK r : r = o \o <<t[j]>>
  OBVIOUS
<1>3. Progress(t, n, r, c)
  BY <1>1, <1>2, CopyOne
<1>4. Progress(t, n + 1, r \o <<t[n]>>, c)
  BY <1>1, <1>3, CopyOne
<1>5. r \o <<t[n]>> = o \o <<t[j], t[n]>>
  <2>1. o \in Seq(Output) /\ t[j] \in Output /\ t[n] \in Output
    BY <1>1 DEF Progress, Output
  <2> QED  BY <1>2, <2>1, SMTT(30)
<1> QED  BY <1>1, <1>4, <1>5

\* A placeholder.
LEMMA MarkOne ==
  ASSUME NEW t \in Seq(Chars), NEW j \in 1..Len(t), NEW o, NEW c, Progress(t, j, o, c), j \in Marks(t)
  PROVE  Progress(t, j + 1, o \o (<<"$">> \o Digits(c)), c + 1)
<1>1. o \in Seq(Output) /\ c \in Nat \ {0} /\ c <= j /\ j \in Nat
  BY DEF Progress
<1>2. PICK n \in Nat : n = j + 1 /\ n \in 1..(Len(t) + 1) /\ c + 1 <= n
  BY <1>1
<1>3. PICK d : d = Digits(c)
  OBVIOUS
<1>4. d \in Seq(Output)
  <2>1. c % 10 \in Nat /\ c \div 10 \in Nat
    BY <1>1
  <2>2. DigitOf(c) \in Output /\ DigitOf(c % 10) \in Output /\ DigitOf(c \div 10) \in Output
    BY <1>1, <2>1 DEF Output
  <2> QED  BY <1>3, <2>2 DEF Digits
<1>5. PICK r : r = o \o (<<"$">> \o d)
  OBVIOUS
<1>6. "$" \in Output
  BY DEF Output
<1>7. r \in Seq(Output) /\ Len(r) = Len(o) + 1 + Len(d)
  BY <1>1, <1>4, <1>5, <1>6
<1>8. c + 1 = Cardinality({q \in Marks(t) : q < n}) + 1
  <2>1. Marks(t) \subseteq Nat
    <3>1. Marks(t) \in SUBSET (1..Len(t))
      BY MarksAre
    <3> QED  BY <3>1
  <2>2. {q \in Marks(t) : q < n} = {q \in Marks(t) : q < j} \cup {j}
    BY <1>1, <1>2, <2>1
  <2>3. IsFiniteSet({q \in Marks(t) : q < j}) /\ j \notin {q \in Marks(t) : q < j}
    <3>1. IsFiniteSet({q \in Marks(t) : q < j})
      BY MarksAre
    <3> QED  BY <1>1, <3>1
  <2>4. Cardinality({q \in Marks(t) : q < j} \cup {j}) = Cardinality({q \in Marks(t) : q < j}) + 1
    BY <2>3, FS_AddElement
  <2>5. c = Cardinality({q \in Marks(t) : q < j}) + 1
    BY DEF Progress
  <2> QED  BY <2>2, <2>4, <2>5
<1>9. ASSUME c + 1 <= 10 PROVE r = Numbered(t, Marks(t))[n] /\ Len(r) = n + (c + 1) - 2
  <2>1. c < 10 /\ c <= 10
    BY <1>1, <1>9
  <2>2. o = Numbered(t, Marks(t))[j] /\ Len(o) = j + c - 2
    BY <2>1 DEF Progress
  <2>3. Marks(t) \in SUBSET (1..Len(t))
    BY MarksAre
  <2>4. Numbered(t, Marks(t))[j + 1] = Numbered(t, Marks(t))[j] \o Piece(t, Marks(t), j)
    BY <2>3, NumberedIs
  <2>5. Cardinality({q \in Marks(t) : q < n}) = c
    <3>1. Cardinality({q \in Marks(t) : q < n}) \in Nat
      BY MarksAre
    <3> QED  BY <1>1, <1>8, <3>1
  <2>6. d = <<DigitOf(c)>> /\ Decimal(c) = d
    BY <1>3, <2>1 DEF Digits, Decimal
  <2>7. Piece(t, Marks(t), j) = <<"$">> \o d
    BY <1>2, <2>5, <2>6 DEF Piece
  <2>8. r = Numbered(t, Marks(t))[n]
    BY <1>2, <1>5, <2>2, <2>4, <2>7
  <2>9. Len(d) = 1
    BY <2>6
  <2> QED  BY <1>1, <1>2, <1>7, <2>2, <2>8, <2>9
<1>10. Progress(t, n, r, c + 1)
  BY <1>1, <1>2, <1>7, <1>8, <1>9 DEF Progress
<1> QED  BY <1>2, <1>3, <1>5, <1>10

----------------------------------------------------------------------------
(* Where the loop is: between tokens, or inside of one that it knows the   *)
(* kind and the beginning of.                                              *)
Apart(s, d, l, depth) ==
  /\ s \in BOOLEAN /\ d \in BOOLEAN /\ l \in BOOLEAN /\ depth \in Nat
  /\ s => ~d /\ ~l /\ depth = 0
  /\ d => ~l /\ depth = 0
  /\ l => depth = 0

Within(t, j, s, d, l, depth) ==
  /\ ~s /\ ~d /\ ~l /\ depth = 0 => Starts(t, j)
  /\ s => \E q \in Tokens(t) : t[q] = "squote" /\ Without(t, q, j, "squote")
  /\ d => \E q \in Tokens(t) : t[q] = "dquote" /\ Without(t, q, j, "dquote")
  /\ l => \E q \in Tokens(t) : At(t, q, "dash") /\ At(t, q + 1, "dash") /\ Without(t, q, j, "nl")
  /\ depth # 0 => \E q \in Tokens(t) : Opens(t, q) /\ Nested(t, q, j, depth)

\* The inductive invariant.
TextInv ==
  /\ in \in Seq(Chars)
  /\ Apart(inString, inQuotedIdentifier, inSingleLineComment, multiLineCommentDepth)
  /\ Within(in, i, inString, inQuotedIdentifier, inSingleLineComment, multiLineCommentDepth)
  /\ Progress(in, i, out, paramPosCounter)

\* One and two characters of a text.
LEMMA Characters ==
  ASSUME NEW C, NEW t \in Seq(C), NEW j \in 1..Len(t), NEW k \in 1..Len(t)
  PROVE  /\ k = j => SubSeq(t, j, k) = <<t[j]>>
         /\ k = j + 1 => SubSeq(t, j, k) = <<t[j], t[k]>>
<1>1. PICK r : r = SubSeq(t, j, k)
  OBVIOUS
<1>2. \A m \in j..k : m \in 1..Len(t)
  OBVIOUS
<1>3. j \in Int /\ k \in Int /\ t[j] \in C /\ t[k] \in C
  OBVIOUS
<1>4. \A m \in j..k : t[m] \in C
  BY <1>2, ElementOfSeq
<1>5. /\ r \in Seq(C) /\ Len(r) = IF j <= k THEN k - j + 1 ELSE 0
      /\ \A m \in 1..(k - j + 1) : r[m] = t[j + m - 1]
  BY <1>1, <1>3, <1>4, SubSeqProperties
<1>6. ASSUME k = j PROVE r = <<t[j]>>
  <2>1. Len(r) = 1 /\ r[1] = t[j]
    BY <1>3, <1>5, <1>6
  <2>2. PICK u : u = <<t[j]>>
    OBVIOUS
  <2>3. u \in Seq(C) /\ Len(u) = 1 /\ u[1] = t[j]
    BY <1>3, <2>2
  <2>4. \A m \in 1..Len(r) : r[m] = u[m]
    BY <2>1, <2>3
  <2> QED  BY <1>5, <2>1, <2>2, <2>3, <2>4, SeqEqual
<1>7. ASSUME k = j + 1 PROVE r = <<t[j], t[k]>>
  <2>1. Len(r) = 2 /\ r[1] = t[j] /\ r[2] = t[k]
    BY <1>3, <1>5, <1>7
  <2>2. PICK u : u = <<t[j], t[k]>>
    OBVIOUS
  <2>3. u \in Seq(C) /\ Len(u) = 2 /\ u[1] = t[j] /\ u[2] = t[k]
    BY <1>3, <2>2
  <2>4. \A m \in 1..Len(r) : r[m] = u[m]
    BY <2>1, <2>3
  <2> QED  BY <1>5, <2>1, <2>2, <2>3, <2>4, SeqEqual
<1> QED  BY <1>1, <1>6, <1>7

\* What a turn of the loop leaves as it is when it copies.
LEMMA CopyKeeps ==
  ASSUME TextInv, ~Done, in' = in, paramPosCounter' = paramPosCounter, NEW n \in {1, 2}, Copy(n),
         i + n - 1 <= Len(in), i \notin Marks(in), n = 2 => i + 1 \notin Marks(in)
  PROVE  Progress(in, i, out, paramPosCounter)' /\ i' = i + n
<1>1. i \in 1..Len(in) /\ in \in Seq(Chars) /\ Progress(in, i, out, paramPosCounter)
  BY DEF TextInv, Progress, Done
<1>2. ASSUME n = 1 PROVE Progress(in, i, out, paramPosCounter)'
  <2>1. PICK k \in 1..Len(in) : k = i + n - 1 /\ k = i
    BY <1>1, <1>2
  <2>2. SubSeq(in, i, k) = <<in[i]>>
    BY <1>1, <2>1, Characters
  <2>3. Progress(in, i + 1, out \o <<in[i]>>, paramPosCounter)
    BY <1>1, CopyOne
  <2>4. i' = i + 1 /\ out' = out \o <<in[i]>>
    BY <1>2, <2>1, <2>2 DEF Copy
  <2> QED  BY <2>3, <2>4
<1>3. ASSUME n = 2 PROVE Progress(in, i, out, paramPosCounter)'
  <2>1. PICK k \in 1..Len(in) : k = i + n - 1 /\ k = i + 1
    BY <1>1, <1>3
  <2>2. SubSeq(in, i, k) = <<in[i], in[k]>>
    BY <1>1, <2>1, Characters
  <2>3. Progress(in, i + 2, out \o <<in[i], in[i + 1]>>, paramPosCounter)
    BY <1>1, <1>3, <2>1, CopyTwo
  <2>4. i' = i + 2 /\ out' = out \o <<in[i], in[i + 1]>>
    BY <1>3, <2>1, <2>2 DEF Copy
  <2> QED  BY <2>3, <2>4
<1> QED  BY <1>2, <1>3 DEF Copy

\* What is inside of a token is no placeholder.
LEMMA InsideIsCopied ==
  ASSUME NEW t \in Seq(Chars), NEW q \in Tokens(t), NEW j \in Nat, q < j, j < TokenEnd(t, q)
  PROVE  j \notin Marks(t)
BY InsideIsNone DEF Marks

\* At first nothing is written and a token begins.
LEMMA TextInitInv ==
  ASSUME TextInit
  PROVE  TextInv
<1>1. in \in Seq(Chars)
  BY LengthAssumption DEF TextInit
<1>2. Apart(inString, inQuotedIdentifier, inSingleLineComment, multiLineCommentDepth)
  BY DEF TextInit, Apart
<1>3. Within(in, i, inString, inQuotedIdentifier, inSingleLineComment, multiLineCommentDepth)
  <2>1. Starts(in, i)
    <3>1. i = 1 /\ Len(in) \in Nat
      BY <1>1 DEF TextInit
    <3>2. CASE Len(in) = 0
      BY <3>1, <3>2 DEF Starts
    <3>3. CASE Len(in) # 0
      <4>1. i \in 1..Len(in)
        BY <3>1, <3>3
      <4> QED  BY <1>1, <3>1, <4>1, TokensAre DEF Starts
    <3> QED  BY <3>2, <3>3
  <2> QED  BY <2>1 DEF TextInit, Within
<1>4. Progress(in, i, out, paramPosCounter)
  <2>1. i = 1 /\ out = <<>> /\ paramPosCounter = 1 /\ Len(in) \in Nat
    BY <1>1 DEF TextInit
  <2>2. Marks(in) \in SUBSET (1..Len(in))
    BY <1>1, MarksAre
  <2>3. {q \in Marks(in) : q < i} = {}
    BY <2>1, <2>2
  <2>4. Cardinality({q \in Marks(in) : q < i}) = 0
    BY <2>3, FS_EmptySet
  <2>5. out = Numbered(in, Marks(in))[i]
    BY <1>1, <2>1, <2>2, NumberedIs
  <2>6. out \in Seq(Output) /\ Len(out) = 0
    BY <2>1
  <2> QED  BY <2>1, <2>4, <2>5, <2>6 DEF Progress
<1> QED  BY <1>1, <1>2, <1>3, <1>4 DEF TextInv

----------------------------------------------------------------------------
(* The turns of the loop.                                                  *)
LEMMA SingleLineCommentInv ==
  ASSUME TextInv, ~Done, in' = in, SingleLineComment
  PROVE  TextInv'
<1>1. i \in 1..Len(in) /\ in \in Seq(Chars)
  BY DEF TextInv, Progress, Done
<1>2. /\ inSingleLineComment /\ ~inString /\ ~inQuotedIdentifier /\ multiLineCommentDepth = 0
  BY DEF TextInv, Apart, SingleLineComment
<1>3. PICK q \in Tokens(in) : At(in, q, "dash") /\ At(in, q + 1, "dash") /\ Without(in, q, i, "nl")
  BY <1>2 DEF TextInv, Within
<1>4. /\ i < TokenEnd(in, q)
      /\ in[i] = "nl" => Starts(in, i + 1)
      /\ in[i] # "nl" => Without(in, q, i + 1, "nl")
  BY <1>1, <1>3, KindIs, WithoutIs
<1>5. i \notin Marks(in)
  BY <1>1, <1>3, <1>4, InsideIsCopied DEF Without
<1>6. Progress(in, i, out, paramPosCounter)' /\ i' = i + 1
  BY <1>1, <1>5, CopyKeeps DEF SingleLineComment
<1>7. /\ inString' = FALSE /\ inQuotedIdentifier' = FALSE /\ multiLineCommentDepth' = 0
      /\ inSingleLineComment' \in BOOLEAN /\ (inSingleLineComment' <=> in[i] # "nl")
  BY <1>2 DEF SingleLineComment, TextInv, Apart
<1>8. Apart(inString, inQuotedIdentifier, inSingleLineComment, multiLineCommentDepth)'
  BY <1>7 DEF Apart
<1>9. Within(in, i, inString, inQuotedIdentifier, inSingleLineComment, multiLineCommentDepth)'
  BY <1>3, <1>4, <1>6, <1>7 DEF Within
<1> QED  BY <1>1, <1>6, <1>8, <1>9 DEF TextInv

\* In an identifier.
LEMMA QuotedIdentifierInv ==
  ASSUME TextInv, ~Done, in' = in, QuotedIdentifier
  PROVE  TextInv'
<1>1. i \in 1..Len(in) /\ in \in Seq(Chars)
  BY DEF TextInv, Progress, Done
<1>2. /\ inQuotedIdentifier /\ ~inString /\ ~inSingleLineComment /\ multiLineCommentDepth = 0
  BY DEF TextInv, Apart, QuotedIdentifier
<1>3. PICK q \in Tokens(in) : in[q] = "dquote" /\ Without(in, q, i, "dquote")
  BY <1>2 DEF TextInv, Within
<1>4. /\ i < TokenEnd(in, q)
      /\ in[i] = "dquote" => Starts(in, i + 1)
      /\ in[i] # "dquote" => Without(in, q, i + 1, "dquote")
  BY <1>1, <1>3, KindIs, WithoutIs
<1>5. i \notin Marks(in)
  BY <1>1, <1>3, <1>4, InsideIsCopied DEF Without
<1>6. Progress(in, i, out, paramPosCounter)' /\ i' = i + 1
  BY <1>1, <1>5, CopyKeeps DEF QuotedIdentifier
<1>7. /\ inString' = FALSE /\ inSingleLineComment' = FALSE /\ multiLineCommentDepth' = 0
      /\ inQuotedIdentifier' \in BOOLEAN /\ (inQuotedIdentifier' <=> in[i] # "dquote")
  BY <1>2 DEF QuotedIdentifier, TextInv, Apart
<1>8. Apart(inString, inQuotedIdentifier, inSingleLineComment, multiLineCommentDepth)'
  BY <1>7 DEF Apart
<1>9. Within(in, i, inString, inQuotedIdentifier, inSingleLineComment, multiLineCommentDepth)'
  BY <1>3, <1>4, <1>6, <1>7 DEF Within
<1> QED  BY <1>1, <1>6, <1>8, <1>9 DEF TextInv

\* In a literal.
LEMMA StringInv ==
  ASSUME TextInv, ~Done, in' = in, String
  PROVE  TextInv'
<1>1. i \in 1..Len(in) /\ in \in Seq(Chars)
  BY DEF TextInv, Progress, Done
<1>2. /\ inString /\ ~inQuotedIdentifier /\ ~inSingleLineComment /\ multiLineCommentDepth = 0
  BY DEF TextInv, Apart, String
<1>3. PICK q \in Tokens(in) : in[q] = "squote" /\ Without(in, q, i, "squote")
  BY <1>2 DEF TextInv, Within
<1>4. /\ i < TokenEnd(in, q)
      /\ in[i] = "squote" => Starts(in, i + 1)
      /\ in[i] # "squote" => Without(in, q, i + 1, "squote")
  BY <1>1, <1>3, KindIs, WithoutIs
<1>5. i \notin Marks(in)
  BY <1>1, <1>3, <1>4, InsideIsCopied DEF Without
<1>6. Progress(in, i, out, paramPosCounter)' /\ i' = i + 1
  BY <1>1, <1>5, CopyKeeps DEF String
<1>7. /\ inQuotedIdentifier' = FALSE /\ inSingleLineComment' = FALSE /\ multiLineCommentDepth' = 0
      /\ inString' \in BOOLEAN /\ (inString' <=> in[i] # "squote")
  BY <1>2 DEF String, TextInv, Apart
<1>8. Apart(inString, inQuotedIdentifier, inSingleLineComment, multiLineCommentDepth)'
  BY <1>7 DEF Apart
<1>9. Within(in, i, inString, inQuotedIdentifier, inSingleLineComment, multiLineCommentDepth)'
  BY <1>3, <1>4, <1>6, <1>7 DEF Within
<1> QED  BY <1>1, <1>6, <1>8, <1>9 DEF TextInv

\* The two characters of a pair.
LEMMA PairIs ==
  ASSUME NEW c, NEW d
  PROVE  Pair(c, d) <=> At(in, i, c) /\ At(in, i + 1, d)
BY DEF Pair

\* In a comment that may hold others.
LEMMA MultiLineCommentInv ==
  ASSUME TextInv, ~Done, in' = in, MultiLineComment
  PROVE  TextInv'
<1>1. i \in 1..Len(in) /\ in \in Seq(Chars)
  BY DEF TextInv, Progress, Done
<1>2. /\ multiLineCommentDepth \in Nat \ {0} /\ ~inString /\ ~inQuotedIdentifier /\ ~inSingleLineComment
  BY DEF TextInv, Apart, MultiLineComment
<1>3. PICK q \in Tokens(in) : Opens(in, q) /\ Nested(in, q, i, multiLineCommentDepth)
  BY <1>2 DEF TextInv, Within
<1>4. EndsOf(in, q) = CommentEnds(in, q)
  BY <1>3, KindIs
<1>5. /\ i < TokenEnd(in, q)
      /\ Opens(in, i) => Nested(in, q, i + 2, multiLineCommentDepth + 1) /\ i + 1 < TokenEnd(in, q)
      /\ Closes(in, i) => /\ i + 1 < TokenEnd(in, q)
                          /\ IF multiLineCommentDepth = 1 THEN Starts(in, i + 2)
                             ELSE Nested(in, q, i + 2, multiLineCommentDepth - 1)
      /\ ~Opens(in, i) /\ ~Closes(in, i) => Nested(in, q, i + 1, multiLineCommentDepth)
  BY <1>1, <1>2, <1>3, <1>4, CommentGoesOn
<1>6. /\ Pair("slash", "ast") <=> Opens(in, i)
      /\ Pair("ast", "slash") <=> Closes(in, i)
      /\ Opens(in, i) \/ Closes(in, i) => i + 1 <= Len(in)
  BY PairIs DEF Opens, Closes, At
<1>7. q < i /\ q \in Nat /\ i \in Nat /\ i + 1 \in Nat /\ q < i + 1
  BY <1>1, <1>3, TokensAre DEF Nested
<1>8. i \notin Marks(in) /\ (i + 1 < TokenEnd(in, q) => i + 1 \notin Marks(in))
  BY <1>1, <1>5, <1>7, InsideIsCopied
<1>9. ~Opens(in, i) \/ ~Closes(in, i)
  BY OneKind
<1>10. paramPosCounter' = paramPosCounter /\ PairLength = 2
  BY DEF MultiLineComment, PairLength
<1>11. /\ inString' = FALSE /\ inQuotedIdentifier' = FALSE /\ inSingleLineComment' = FALSE
  BY <1>2 DEF MultiLineComment, TextInv, Apart
<1>12. CASE Opens(in, i)
  <2>1. Copy(2) /\ multiLineCommentDepth' = multiLineCommentDepth + 1
    BY <1>6, <1>10, <1>12 DEF MultiLineComment
  <2>2. i + 2 - 1 <= Len(in) /\ i + 1 \notin Marks(in)
    BY <1>1, <1>5, <1>6, <1>8, <1>12
  <2>3. Progress(in, i, out, paramPosCounter)' /\ i' = i + 2
    BY <1>8, <1>10, <2>1, <2>2, CopyKeeps
  <2>4. multiLineCommentDepth' \in Nat \ {0}
    BY <1>2, <2>1
  <2>5. Apart(inString, inQuotedIdentifier, inSingleLineComment, multiLineCommentDepth)'
    BY <1>11, <2>4 DEF Apart
  <2>6. Within(in, i, inString, inQuotedIdentifier, inSingleLineComment, multiLineCommentDepth)'
    BY <1>3, <1>5, <1>11, <1>12, <2>1, <2>3, <2>4 DEF Within
  <2> QED  BY <1>1, <2>3, <2>5, <2>6 DEF TextInv
<1>13. CASE Closes(in, i)
  <2>1. Copy(2) /\ multiLineCommentDepth' = multiLineCommentDepth - 1
    BY <1>6, <1>9, <1>10, <1>13 DEF MultiLineComment
  <2>2. i + 2 - 1 <= Len(in) /\ i + 1 \notin Marks(in)
    BY <1>1, <1>5, <1>6, <1>8, <1>13
  <2>3. Progress(in, i, out, paramPosCounter)' /\ i' = i + 2
    BY <1>8, <1>10, <2>1, <2>2, CopyKeeps
  <2>4. multiLineCommentDepth' \in Nat /\ (multiLineCommentDepth' = 0 <=> multiLineCommentDepth = 1)
    BY <1>2, <2>1
  <2>5. Apart(inString, inQuotedIdentifier, inSingleLineComment, multiLineCommentDepth)'
    BY <1>11, <2>4 DEF Apart
  <2>6. Within(in, i, inString, inQuotedIdentifier, inSingleLineComment, multiLineCommentDepth)'
    BY <1>3, <1>5, <1>11, <1>13, <2>1, <2>3, <2>4 DEF Within
  <2> QED  BY <1>1, <2>3, <2>5, <2>6 DEF TextInv
<1>14. CASE ~Opens(in, i) /\ ~Closes(in, i)
  <2>1. Copy(1) /\ multiLineCommentDepth' = multiLineCommentDepth
    BY <1>6, <1>14 DEF MultiLineComment
  <2>2. i + 1 - 1 <= Len(in)
    BY <1>1
  <2>3. Progress(in, i, out, paramPosCounter)' /\ i' = i + 1
    BY <1>8, <1>10, <2>1, <2>2, CopyKeeps
  <2>4. multiLineCommentDepth' \in Nat \ {0}
    BY <1>2, <2>1
  <2>5. Apart(inString, inQuotedIdentifier, inSingleLineComment, multiLineCommentDepth)'
    BY <1>11, <2>4 DEF Apart
  <2>6. Within(in, i, inString, inQuotedIdentifier, inSingleLineComment, multiLineCommentDepth)'
    BY <1>3, <1>5, <1>11, <1>14, <2>1, <2>3, <2>4 DEF Within
  <2> QED  BY <1>1, <2>3, <2>5, <2>6 DEF TextInv
<1> QED  BY <1>12, <1>13, <1>14

\* Outside of tokens the loop is where one begins.
LEMMA CodeIs ==
  ASSUME TextInv, ~Done, Code
  PROVE  i \in Tokens(in) /\ i \in 1..Len(in) /\ in \in Seq(Chars)
<1>1. i \in 1..Len(in) /\ in \in Seq(Chars) /\ Starts(in, i)
  BY DEF TextInv, Progress, Done, Within, Code
<1> QED  BY <1>1 DEF Starts

\* What the loop finds there.
LEMMA BeginningIs ==
  ASSUME NEW t \in Seq(Chars), NEW q \in Tokens(t)
  PROVE  /\ t[q] = "squote" => Without(t, q, q + 1, "squote")
         /\ t[q] = "dquote" => Without(t, q, q + 1, "dquote")
         /\ At(t, q, "dash") /\ At(t, q + 1, "dash") =>
              Without(t, q, q + 2, "nl") /\ q + 1 <= Len(t) /\ q + 1 < TokenEnd(t, q)
         /\ Opens(t, q) => /\ q + 1 <= Len(t) /\ q + 1 < TokenEnd(t, q)
                           /\ \A one : one = 1 => Nested(t, q, q + 2, one)
         /\ t[q] # "squote" /\ t[q] # "dquote" /\ ~(At(t, q, "dash") /\ At(t, q + 1, "dash")) /\ ~Opens(t, q)
              => Starts(t, q + 1)
<1>1. q \in 1..Len(t) /\ q \in Nat
  BY TokensAre
<1>2. \A c : Without(t, q, q + 1, c)
  BY <1>1 DEF Without
<1>3. ASSUME At(t, q, "dash"), At(t, q + 1, "dash")
      PROVE  Without(t, q, q + 2, "nl") /\ q + 1 <= Len(t) /\ q + 1 < TokenEnd(t, q)
  <2>1. PICK n \in 1..Len(t) : n = q + 1 /\ n + 1 = q + 2
    BY <1>1, <1>3 DEF At
  <2>2. t[n] = "dash" /\ t[n] # "nl"
    BY <1>3, <2>1 DEF At
  <2>3. Without(t, q, n, "nl")
    BY <1>2, <2>1
  <2>4. EndsOf(t, q) = EndsAfter(t, q, "nl")
    BY <1>3, KindIs
  <2>5. n < TokenEnd(t, q) /\ Without(t, q, n + 1, "nl")
    BY <2>2, <2>3, <2>4, WithoutIs
  <2> QED  BY <2>1, <2>5
<1>4. ASSUME Opens(t, q)
      PROVE  /\ q + 1 <= Len(t) /\ q + 1 < TokenEnd(t, q)
             /\ \A one : one = 1 => Nested(t, q, q + 2, one)
  <2>1. q + 1 <= Len(t) /\ \A one : one = 1 => Nested(t, q, q + 2, one)
    BY <1>4, CommentBegins
  <2>2. EndsOf(t, q) = CommentEnds(t, q)
    BY <1>4, KindIs
  <2>3. CASE q + 2 \in 1..Len(t)
    <3>1. PICK n \in 1..Len(t) : n = q + 2
      BY <2>3
    <3>2. PICK one \in Nat \ {0} : one = 1
      OBVIOUS
    <3>3. Nested(t, q, n, one)
      BY <2>1, <3>1, <3>2
    <3>4. n < TokenEnd(t, q) /\ TokenEnd(t, q) \in Nat
      BY <1>1, <2>2, <3>3, CommentGoesOn, TokenEndIs
    <3> QED  BY <1>1, <2>1, <3>1, <3>4
  <2>4. CASE q + 2 \notin 1..Len(t)
    <3>1. q + 1 = Len(t)
      BY <1>1, <2>1, <2>4
    <3>2. /\ TokenEnd(t, q) \in Nat /\ q < TokenEnd(t, q)
          /\ TokenEnd(t, q) \in EndsOf(t, q) \/ TokenEnd(t, q) = Len(t) + 1
      BY <1>1, TokenEndIs
    <3>3. ASSUME NEW x \in EndsOf(t, q) PROVE q + 1 < x
      <4>1. PICK k \in PairsFrom(t, q) : x = k + 2
        BY <2>2, <3>3 DEF CommentEnds
      <4>2. k \in q..Len(t)
        BY <1>1, <4>1, PairsAre
      <4> QED  BY <1>1, <4>1, <4>2
    <3>4. q + 1 < TokenEnd(t, q)
      <4>1. CASE TokenEnd(t, q) \in EndsOf(t, q)
        BY <3>3, <4>1
      <4>2. CASE TokenEnd(t, q) = Len(t) + 1
        BY <1>1, <3>1, <4>2
      <4> QED  BY <3>2, <4>1, <4>2
    <3> QED  BY <2>1, <3>4
  <2> QED  BY <2>3, <2>4
<1>5. ASSUME t[q] # "squote", t[q] # "dquote", ~(At(t, q, "dash") /\ At(t, q + 1, "dash")), ~Opens(t, q)
      PROVE  Starts(t, q + 1)
  BY <1>5, KindIs, SingleIs
<1> QED  BY <1>2, <1>3, <1>4, <1>5

\* A token begins that is no placeholder.
LEMMA OpenOrCopyInv ==
  ASSUME TextInv, ~Done, in' = in, OpenOrCopy
  PROVE  TextInv'
<1>1. Code /\ in[i] # "qm"
  BY DEF OpenOrCopy
<1>2. i \in Tokens(in) /\ i \in 1..Len(in) /\ in \in Seq(Chars) /\ i \in Nat
  BY <1>1, CodeIs
<1>3. i \notin Marks(in)
  BY <1>1 DEF Marks
<1>4. PICK line, nested \in BOOLEAN : (line <=> Pair("dash", "dash")) /\ (nested <=> Pair("slash", "ast"))
  OBVIOUS
<1>5. /\ line <=> At(in, i, "dash") /\ At(in, i + 1, "dash")
      /\ nested <=> Opens(in, i)
      /\ line \/ in[i] = "squote" \/ in[i] = "dquote" => ~nested
      /\ line => in[i] # "squote" /\ in[i] # "dquote"
  BY <1>4, PairIs DEF Opens, At
<1>6. /\ inString' \in BOOLEAN /\ (inString' <=> in[i] = "squote")
      /\ inQuotedIdentifier' \in BOOLEAN /\ (inQuotedIdentifier' <=> in[i] = "dquote")
      /\ inSingleLineComment' \in BOOLEAN /\ (inSingleLineComment' <=> line)
      /\ multiLineCommentDepth' = IF nested THEN 1 ELSE 0
      /\ paramPosCounter' = paramPosCounter
  BY <1>4 DEF OpenOrCopy, Pair
<1>7. PICK n \in {1, 2} : n = (IF line \/ nested THEN 2 ELSE 1) /\ Copy(n)
  BY <1>4 DEF OpenOrCopy, PairLength
<1>8. /\ in[i] = "squote" => Without(in, i, i + 1, "squote")
      /\ in[i] = "dquote" => Without(in, i, i + 1, "dquote")
      /\ line => Without(in, i, i + 2, "nl") /\ i + 1 <= Len(in) /\ i + 1 < TokenEnd(in, i)
      /\ nested => /\ i + 1 <= Len(in) /\ i + 1 < TokenEnd(in, i)
                   /\ \A one : one = 1 => Nested(in, i, i + 2, one)
      /\ in[i] # "squote" /\ in[i] # "dquote" /\ ~line /\ ~nested => Starts(in, i + 1)
  BY <1>2, <1>5, BeginningIs
<1>9. i + 1 < TokenEnd(in, i) => i + 1 \notin Marks(in)
  BY <1>2, InsideIsCopied
<1>10. i + n - 1 <= Len(in) /\ (n = 2 => i + 1 \notin Marks(in))
  BY <1>2, <1>7, <1>8, <1>9
<1>11. Progress(in, i, out, paramPosCounter)' /\ i' = i + n
  BY <1>3, <1>6, <1>7, <1>10, CopyKeeps
<1>12. Apart(inString, inQuotedIdentifier, inSingleLineComment, multiLineCommentDepth)'
  BY <1>5, <1>6 DEF Apart
<1>13. Within(in, i, inString, inQuotedIdentifier, inSingleLineComment, multiLineCommentDepth)'
  <2>1. CASE nested
    <3>1. ~line /\ in[i] # "squote" /\ in[i] # "dquote" /\ n = 2
      BY <1>5, <1>7, <2>1
    <3>2. Opens(in, i) /\ Nested(in, i, i + 2, multiLineCommentDepth')
      BY <1>5, <1>6, <1>8, <2>1
    <3> QED  BY <1>2, <1>6, <1>11, <2>1, <3>1, <3>2 DEF Within
  <2>2. CASE line
    <3>1. ~nested /\ in[i] # "squote" /\ in[i] # "dquote" /\ n = 2
      BY <1>5, <1>7, <2>2
    <3>2. At(in, i, "dash") /\ At(in, i + 1, "dash") /\ Without(in, i, i + 2, "nl")
      BY <1>5, <1>8, <2>2
    <3> QED  BY <1>2, <1>6, <1>11, <2>2, <3>1, <3>2 DEF Within
  <2>3. CASE ~line /\ ~nested
    <3>1. n = 1 /\ i' = i + 1
      BY <1>7, <1>11, <2>3
    <3>2. multiLineCommentDepth' = 0 /\ ~inSingleLineComment'
      BY <1>6, <2>3
    <3> QED  BY <1>2, <1>6, <1>8, <2>3, <3>1, <3>2 DEF Within
  <2> QED  BY <2>1, <2>2, <2>3
<1> QED  BY <1>2, <1>11, <1>12, <1>13 DEF TextInv

\* A placeholder is numbered.
LEMMA PlaceholderInv ==
  ASSUME TextInv, ~Done, in' = in, Placeholder
  PROVE  TextInv'
<1>1. Code /\ in[i] = "qm"
  BY DEF Placeholder
<1>2. i \in Tokens(in) /\ i \in 1..Len(in) /\ in \in Seq(Chars)
  BY <1>1, CodeIs
<1>3. i \in Marks(in)
  BY <1>1, <1>2 DEF Marks
<1>4. Progress(in, i, out, paramPosCounter)
  BY DEF TextInv
<1>5. Progress(in, i + 1, out \o (<<"$">> \o Digits(paramPosCounter)), paramPosCounter + 1)
  BY <1>2, <1>3, <1>4, MarkOne
<1>6. i' = i + 1 /\ Progress(in, i, out, paramPosCounter)'
  BY <1>5 DEF Placeholder, Positional
<1>7. Starts(in, i + 1)
  BY <1>1, <1>2, BeginningIs DEF Opens, At
<1>8. /\ inString' = inString /\ inQuotedIdentifier' = inQuotedIdentifier
      /\ inSingleLineComment' = inSingleLineComment /\ multiLineCommentDepth' = multiLineCommentDepth
  BY DEF Placeholder, modes
<1>9. Apart(inString, inQuotedIdentifier, inSingleLineComment, multiLineCommentDepth)'
  BY <1>8 DEF TextInv, Apart
<1>10. Within(in, i, inString, inQuotedIdentifier, inSingleLineComment, multiLineCommentDepth)'
  BY <1>1, <1>6, <1>7, <1>8 DEF Within, Code
<1> QED  BY <1>2, <1>6, <1>9, <1>10 DEF TextInv

\* A turn of the loop.
LEMMA TextStep ==
  ASSUME TextInv, [TextNext]_textVars
  PROVE  TextInv'
<1>1. CASE UNCHANGED textVars
  BY <1>1 DEF textVars, modes, TextInv
<1>2. CASE TextNext /\ ~Done
  BY <1>2, SingleLineCommentInv, MultiLineCommentInv, QuotedIdentifierInv, StringInv, OpenOrCopyInv, PlaceholderInv
  DEF TextNext
<1> QED  BY <1>1, <1>2 DEF TextNext

\* Of every text the placeholders, and nothing else, are rewritten; up to the
\* ninth, since the tenth is `$01' (MCPlaceholdersTen, MCPlaceholdersNumber).
THEOREM PlaceholdersNumbered == TextSpec => [](paramPosCounter <= 10 => Rewrites)
<1>1. TextInv /\ paramPosCounter <= 10 => Rewrites
  <2> SUFFICES ASSUME TextInv, paramPosCounter <= 10, Done PROVE out = Numbered(in, Marks(in))[Len(in) + 1]
    BY DEF Rewrites
  <2>1. i = Len(in) + 1 /\ out = Numbered(in, Marks(in))[i]
    BY DEF TextInv, Progress, Done
  <2> QED  BY <2>1
<1> QED  BY <1>1, TextInitInv, TextStep, PTL DEF TextSpec

\* So far the buffer of psqlutils.cpp:162-166 is large enough.
THEOREM ResultFits == TextSpec => [](paramPosCounter <= 10 => FitsBuffer)
<1>1. TextInv /\ paramPosCounter <= 10 => FitsBuffer
  BY DEF TextInv, Progress, FitsBuffer
<1> QED  BY <1>1, TextInitInv, TextStep, PTL DEF TextSpec
=============================================================================
