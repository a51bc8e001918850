------------------------- MODULE SQLStatementProofs -------------------------
(***************************************************************************)
(* What the SQL facade promises on the SQLite driver, proved for any       *)
(* number of statements of either side: nobody loses a library statement   *)
(* without an error, a connection that is left closes, and a result is     *)
(* read without running the statement again.                               *)
(*                                                                         *)
(* A call is a record of what the library's statements and the facade's    *)
(* flags become (Call): the proofs say of such a record what the           *)
(* statement that it belongs to may have done (CallOK), and are otherwise  *)
(* the same for all calls.                                                 *)
(***************************************************************************)
EXTENDS SQLStatement, FiniteSetTheorems, TLAPS

DataType == [alive : BOOLEAN, prepared : BOOLEAN, executed : BOOLEAN,
             stmt : Handle \cup {NULL}]
ResultType == [firstStep : BOOLEAN, firstStepHasData : BOOLEAN,
               at : {"begin", "record", "end"}, ended : BOOLEAN, failed : BOOLEAN,
               runs : {1, 2}]
Queries == [pc : {"prepare", "execute", "loop", "result"}, length : Nat \ {0}, left : Int,
            stmt : Handle \cup {NULL}, owned : BOOLEAN, deleted : BOOLEAN,
            usedDeleted : BOOLEAN]

\* A result, seen from its statement's data d and the library's statements v.
ResultOK(r, d, v) == r # NULL =>
    /\ d.executed /\ r \in ResultType
    /\ ~r.failed =>
         /\ r.runs = 1 \/ r.ended
         /\ r.firstStep => r.at = "begin" /\ (v[d.stmt] = "row" <=> r.firstStepHasData)
         /\ ~r.firstStep => r.at # "begin" /\ (r.at = "record" => v[d.stmt] = "row")
         /\ r.at = "end" => r.ended

ResultsOK ==
    /\ result = [s \in Stmt |-> result[s]]
    /\ \A s \in Stmt : ResultOK(result[s], data[s], vdbe)

Mine(s, h) == data[s].prepared /\ data[s].stmt = h

\* A statement of the library has one owner, and an owner has a statement.
HandlesOK ==
    /\ query \in Queries \cup {NoQuery}
    /\ \A s, t \in Stmt :
         data[s].prepared /\ data[t].prepared /\ data[s].stmt = data[t].stmt => s = t
    /\ \A s \in Stmt : \A h \in Handle : Mine(s, h) => ~OfQuery(h)
    /\ query.pc \in {"execute", "loop"} => query.stmt \in Live(vdbe)
    /\ query.pc = "result" /\ query.owned => query.stmt \in Live(vdbe)

\* Whoever has a reference to the connection keeps it open.
OpenOK ==
    /\ handle => db = "open"
    /\ \A s \in Stmt : data[s].alive => db = "open"
    /\ query # NoQuery => db = "open"
    /\ Sending => handle

\* Queries of one SQL statement, that do not fail.
Single == QueryLengths = {1} /\ ~QueryErrors

\* The first result of such a query is the only one, and owns the statement.
SingleOK == Single /\ query # NoQuery =>
    /\ query.length = 1
    /\ query.pc = "prepare" => query.left = 1
    /\ query.pc \in {"execute", "loop"} => query.left = 0
    /\ query.pc \in {"loop", "result"} => query.owned

Inv == TypeOK /\ ResultsOK /\ HandlesOK /\ OpenOK /\ CloseSucceeds /\ SingleOK

-----------------------------------------------------------------------------
(* Calls on a statement.                                                   *)

CallType == [v : [Handle -> Phases], d : DataType, throws : BOOLEAN]

(* What a call on s may do: it leaves the library's statements alone but   *)
(* for its own and one that was free, and has afterwards the one that it   *)
(* says, and no other.                                                     *)
CallOK(s, c) ==
    /\ c \in CallType /\ c.d.alive
    /\ c.d.executed => c.d.prepared
    /\ c.d.prepared => c.d.stmt \in Handle /\ c.v[c.d.stmt] # "free"
    /\ \A h \in Handle : ~Mine(s, h) /\ ~(c.d.prepared /\ c.d.stmt = h) => c.v[h] = vdbe[h]
    /\ \A h \in Handle : ~Mine(s, h) /\ c.d.prepared /\ c.d.stmt = h => vdbe[h] = "free"
    /\ \A h \in Handle : Mine(s, h) /\ ~(c.d.prepared /\ c.d.stmt = h) => c.v[h] = "free"

LEMMA QueryTypes ==
  ASSUME HandlesOK
  PROVE  /\ query = NoQuery <=> query.pc = "none"
         /\ query # NoQuery <=> query \in Queries
         /\ query # NoQuery => query.pc \in {"prepare", "execute", "loop", "result"}
<1>1. NoQuery.pc = "none"
  BY DEF NoQuery
<1>2. \A q \in Queries : q.pc \in {"prepare", "execute", "loop", "result"}
  BY DEF Queries
<1> QED  BY <1>1, <1>2 DEF HandlesOK

LEMMA StatementType ==
  ASSUME Inv, NEW s \in Stmt
  PROVE  /\ data[s] \in DataType /\ vdbe \in [Handle -> Phases]
         /\ data[s].prepared => data[s].alive /\ data[s].stmt \in Handle
                                /\ vdbe[data[s].stmt] # "free"
         /\ data[s].executed => data[s].prepared
BY DEF Inv, TypeOK, DataType, Live

LEMMA CallIs ==
  ASSUME Inv, NEW s \in Stmt, data[s].alive
  PROVE  /\ CallOK(s, Call(s)) /\ Call(s).v = vdbe /\ Call(s).d = data[s]
         /\ Call(s).throws = FALSE
<1>1. /\ Call(s) \in CallType /\ Call(s).v = vdbe /\ Call(s).d = data[s]
      /\ Call(s).throws = FALSE
  BY StatementType DEF Call, CallType
<1> QED  BY <1>1, StatementType DEF CallOK, Mine

LEMMA ResetIs ==
  ASSUME Inv, NEW s \in Stmt, data[s].alive, NEW c, c = ResetExecuted(Call(s))
  PROVE  /\ CallOK(s, c) /\ ~c.d.executed
         /\ c.d.prepared = data[s].prepared /\ c.d.stmt = data[s].stmt
<1>1. CASE ~data[s].executed
  <2>1. c = Call(s)
    BY <1>1, CallIs DEF ResetExecuted
  <2> QED  BY <1>1, <2>1, CallIs
<1>2. CASE data[s].executed
  <2>1. PICK d \in DataType : d = [data[s] EXCEPT !.executed = FALSE]
    BY StatementType DEF DataType
  <2>2. /\ d.alive /\ d.prepared = data[s].prepared /\ d.stmt = data[s].stmt /\ ~d.executed
    BY <2>1, StatementType DEF DataType
  <2>3. PICK h \in Handle : h = data[s].stmt /\ data[s].prepared
    BY <1>2, StatementType
  <2>4. PICK v \in [Handle -> Phases] : v = [vdbe EXCEPT ![h] = "ready"]
    BY StatementType DEF Phases
  <2>5. v[h] = "ready" /\ \A g \in Handle : g # h => v[g] = vdbe[g]
    BY <2>4, StatementType
  <2>6. c = [v |-> v, d |-> d, throws |-> vdbe[h] = "failed"]
    BY <1>2, <2>1, <2>3, <2>4, CallIs DEF ResetExecuted, ResetStmt, ResetFails
  <2>7. c \in CallType /\ c.v = v /\ c.d = d
    BY <2>6 DEF CallType
  <2> QED  BY <2>2, <2>3, <2>5, <2>7 DEF CallOK, Mine
<1> QED  BY <1>1, <1>2

LEMMA FinishIs ==
  ASSUME Inv, NEW s \in Stmt, data[s].alive, NEW c, c = Finished(Call(s))
  PROVE  /\ CallOK(s, c)
         /\ ~c.throws => ~c.d.prepared /\ ~c.d.executed
         /\ c.throws => data[s].executed /\ vdbe[data[s].stmt] = "failed"
         /\ c.d.prepared => data[s].prepared /\ c.d.stmt = data[s].stmt
<1>1. CASE ~data[s].prepared
  <2>1. c = Call(s)
    BY <1>1, CallIs DEF Finished
  <2> QED  BY <1>1, <2>1, CallIs, StatementType
<1>2. CASE data[s].prepared
  <2>1. PICK h \in Handle : h = data[s].stmt
    BY <1>2, StatementType
  <2>2. CASE data[s].executed /\ vdbe[h] = "failed"
    <3>1. PICK v \in [Handle -> Phases] : v = [vdbe EXCEPT ![h] = "ready"]
      BY StatementType DEF Phases
    <3>2. v[h] = "ready" /\ \A g \in Handle : g # h => v[g] = vdbe[g]
      BY <3>1, StatementType
    <3>3. c = [v |-> v, d |-> data[s], throws |-> TRUE]
      BY <1>2, <2>1, <2>2, <3>1, CallIs DEF Finished, ResetStmt, ResetFails, KeptByThrow
    <3>4. c \in CallType /\ c.v = v /\ c.d = data[s] /\ c.throws
      BY <3>3, StatementType DEF CallType
    <3> QED  BY <1>2, <2>1, <2>2, <3>2, <3>4, StatementType DEF CallOK, Mine
  <2>3. CASE ~(data[s].executed /\ vdbe[h] = "failed")
    <3>1. PICK v \in [Handle -> Phases] : v = [vdbe EXCEPT ![h] = "free"]
      BY StatementType DEF Phases
    <3>2. v[h] = "free" /\ \A g \in Handle : g # h => v[g] = vdbe[g]
      BY <3>1, StatementType
    <3>3. PICK d \in DataType :
             d = [data[s] EXCEPT !.prepared = FALSE, !.executed = FALSE]
      BY StatementType DEF DataType
    <3>4. d.alive /\ ~d.prepared /\ ~d.executed
      BY <3>3, StatementType DEF DataType
    <3>5. c = [v |-> v, d |-> d, throws |-> FALSE]
      <4>1. c = [Call(s) EXCEPT !.v = FinalizeStmt(@, h),
                                !.d = [@ EXCEPT !.prepared = FALSE, !.executed = FALSE]]
        BY <1>2, <2>1, <2>3, CallIs DEF Finished, ResetFails
      <4>2. FinalizeStmt(vdbe, h) = v
        BY <3>1 DEF FinalizeStmt
      <4> QED  BY <4>1, <4>2, <3>3 DEF Call
    <3>6. c \in CallType /\ c.v = v /\ c.d = d /\ c.throws = FALSE
      BY <3>5 DEF CallType
    <3> QED  BY <1>2, <2>1, <3>2, <3>4, <3>6 DEF CallOK, Mine
  <2> QED  BY <2>2, <2>3
<1> QED  BY <1>1, <1>2

\* What statement s does to its own, and to a free one, disturbs no other.
LEMMA OthersKeep ==
  ASSUME Inv, NEW s \in Stmt, NEW v \in [Handle -> Phases], NEW d \in DataType, NEW res,
         d.executed => d.prepared,
         d.prepared => d.alive /\ d.stmt \in Handle /\ v[d.stmt] # "free",
         \A h \in Handle : ~Mine(s, h) =>
             IF d.prepared /\ d.stmt = h THEN vdbe[h] = "free" ELSE v[h] = vdbe[h],
         ResultOK(res, d, v),
         db' \in {"open", "closed", "busy"}, handle' = handle, query' = query,
         vdbe' = v, data' = [data EXCEPT ![s] = d], result' = [result EXCEPT ![s] = res]
  PROVE  TypeOK' /\ ResultsOK' /\ HandlesOK' /\ SingleOK'
<1>1. data \in [Stmt -> DataType] /\ result = [t \in Stmt |-> result[t]]
  BY DEF Inv, TypeOK, DataType, ResultsOK
<1>2. /\ data' \in [Stmt -> DataType] /\ data'[s] = d /\ result'[s] = res
      /\ result' = [t \in Stmt |-> result'[t]]
      /\ \A t \in Stmt \ {s} : data'[t] = data[t] /\ result'[t] = result[t]
  BY <1>1
<1>3. ASSUME NEW t \in Stmt \ {s}, data[t].prepared
      PROVE  /\ data[t].stmt \in Handle /\ v[data[t].stmt] = vdbe[data[t].stmt]
             /\ vdbe[data[t].stmt] # "free"
             /\ ~(d.prepared /\ d.stmt = data[t].stmt)
  <2>1. data[t].stmt \in Handle /\ vdbe[data[t].stmt] # "free"
    BY <1>3, StatementType
  <2>2. ~Mine(s, data[t].stmt)
    BY <1>3 DEF Mine, Inv, HandlesOK
  <2> QED  BY <2>1, <2>2
<1>4. ASSUME NEW h \in Handle, OfQuery(h)
      PROVE  v[h] = vdbe[h] /\ vdbe[h] # "free" /\ ~(d.prepared /\ d.stmt = h)
  <2>1. vdbe[h] # "free"
    BY <1>4 DEF OfQuery, Inv, HandlesOK, Live
  <2>2. ~Mine(s, h)
    BY <1>4 DEF Inv, HandlesOK
  <2> QED  BY <2>1, <2>2
<1>5. ResultsOK'
  <2>1. ASSUME NEW t \in Stmt PROVE ResultOK(result'[t], data'[t], vdbe')
    <3>1. CASE t = s
      BY <1>2, <3>1
    <3>2. CASE t # s
      <4>1. ResultOK(result[t], data[t], vdbe)
        BY DEF Inv, ResultsOK
      <4>2. data[t].executed => data[t].prepared
        BY StatementType
      <4> QED  BY <1>2, <1>3, <3>2, <4>1, <4>2 DEF ResultOK
    <3> QED  BY <3>1, <3>2
  <2> QED  BY <1>2, <2>1 DEF ResultsOK
<1>6. TypeOK'
  <2>1. ASSUME NEW t \in Stmt
        PROVE  /\ data'[t].prepared => data'[t].alive /\ data'[t].stmt \in Handle
                                       /\ vdbe'[data'[t].stmt] # "free"
               /\ data'[t].executed => data'[t].prepared
               /\ result'[t] # NULL => data'[t].executed
    <3>1. CASE t = s
      BY <1>2, <1>5, <3>1 DEF ResultsOK, ResultOK
    <3>2. CASE t # s
      BY <1>2, <1>3, <3>2, StatementType DEF Inv, TypeOK
    <3> QED  BY <3>1, <3>2
  <2>2. handle' \in BOOLEAN /\ query'.pc \in {"none", "prepare", "execute", "loop", "result"}
    BY DEF Inv, TypeOK
  <2> QED  BY <1>2, <2>1, <2>2 DEF TypeOK, DataType, Live
<1>7. HandlesOK'
  <2>1. ASSUME NEW t \in Stmt, NEW u \in Stmt, data'[t].prepared, data'[u].prepared,
               data'[t].stmt = data'[u].stmt
        PROVE  t = u
    BY <1>2, <1>3, <2>1 DEF Inv, HandlesOK
  <2>2. ASSUME NEW t \in Stmt, NEW h \in Handle, Mine(t, h)' PROVE ~OfQuery(h)'
    <3>1. ~OfQuery(h)
      BY <1>2, <1>4, <2>2 DEF Mine, Inv, HandlesOK
    <3> QED  BY <3>1 DEF OfQuery
  <2>3. /\ query.pc \in {"execute", "loop"} => query.stmt \in Handle /\ v[query.stmt] # "free"
        /\ query.pc = "result" /\ query.owned => query.stmt \in Handle /\ v[query.stmt] # "free"
    BY <1>4 DEF Inv, HandlesOK, OfQuery, Live
  <2>4. query' \in Queries \cup {NoQuery}
    BY DEF Inv, HandlesOK
  <2> QED  BY <2>1, <2>2, <2>3, <2>4 DEF HandlesOK, Live
<1>8. SingleOK'
  BY DEF Inv, SingleOK
<1> QED  BY <1>5, <1>6, <1>7, <1>8

\* A call that is as CallOK says keeps the invariant, and loses nothing.
LEMMA EndsKeeps ==
  ASSUME Inv, NEW s \in Stmt, ~Sending, db = "open", NEW c, CallOK(s, c), NEW res,
         ResultOK(res, c.d, c.v), Ends(s, c, res)
  PROVE  Inv' /\ \A h \in Handle : Lost(h)' => Lost(h)
<1>1. PICK v \in [Handle -> Phases] : v = c.v
  BY DEF CallOK, CallType
<1>2. PICK d \in DataType : d = c.d
  BY DEF CallOK, CallType
<1>3. /\ vdbe' = v /\ data' = [data EXCEPT ![s] = d] /\ result' = [result EXCEPT ![s] = res]
      /\ db' = "open" /\ handle' = handle /\ query' = query
  BY <1>1, <1>2 DEF Ends
<1>4. /\ d.alive /\ (d.executed => d.prepared)
      /\ d.prepared => d.stmt \in Handle /\ v[d.stmt] # "free"
      /\ \A h \in Handle : ~Mine(s, h) /\ ~(d.prepared /\ d.stmt = h) => v[h] = vdbe[h]
      /\ \A h \in Handle : ~Mine(s, h) /\ d.prepared /\ d.stmt = h => vdbe[h] = "free"
      /\ \A h \in Handle : Mine(s, h) /\ ~(d.prepared /\ d.stmt = h) => v[h] = "free"
  BY <1>1, <1>2 DEF CallOK
<1>5. TypeOK' /\ ResultsOK' /\ HandlesOK' /\ SingleOK'
  <2>1. \A h \in Handle : ~Mine(s, h) =>
            IF d.prepared /\ d.stmt = h THEN vdbe[h] = "free" ELSE v[h] = vdbe[h]
    BY <1>4
  <2>2. ResultOK(res, d, v)
    BY <1>1, <1>2
  <2>3. db' \in {"open", "closed", "busy"}
    BY <1>3
  <2> QED  BY <1>3, <1>4, <2>1, <2>2, <2>3, OthersKeep
<1>6. \A t \in Stmt \ {s} : data'[t] = data[t]
  BY <1>3 DEF Inv, TypeOK
<1>7. data'[s] = d
  BY <1>3 DEF Inv, TypeOK
<1>8. OpenOK' /\ CloseSucceeds'
  BY <1>3, <1>4, <1>6, <1>7 DEF Inv, OpenOK, CloseSucceeds, Sending
<1>9. ASSUME NEW h \in Handle, Lost(h)' PROVE Lost(h)
  <2>1. /\ v[h] # "free" /\ ~OfQuery(h)
        /\ \A t \in Stmt : ~(data'[t].prepared /\ data'[t].stmt = h)
    BY <1>3, <1>9 DEF Lost, Live, Owners, OfQuery
  <2>2. ~(d.prepared /\ d.stmt = h) /\ ~Mine(s, h) /\ vdbe[h] # "free"
    BY <1>4, <1>7, <2>1
  <2>3. \A t \in Stmt : ~(data[t].prepared /\ data[t].stmt = h)
    BY <1>6, <2>1, <2>2 DEF Mine
  <2> QED  BY <2>1, <2>2, <2>3 DEF Lost, Live, Owners
<1> QED  BY <1>5, <1>8, <1>9 DEF Inv

-----------------------------------------------------------------------------
(* The calls, one by one.                                                  *)

Kept == Inv' /\ \A h \in Handle : Lost(h)' => Lost(h)

\* A statement that exists keeps the connection open.
LEMMA CallableOpen ==
  ASSUME Inv, NEW s \in Stmt, Callable(s)
  PROVE  data[s].alive /\ ~Sending /\ db = "open"
BY DEF Inv, OpenOK, Callable

LEMMA NullResult == ASSUME NEW d, NEW v PROVE ResultOK(NULL, d, v)
  BY DEF ResultOK

LEMMA CreateKeeps ==
  ASSUME Inv, NEW s \in Stmt, Create(s)
  PROVE  Kept
<1>1. ~Sending /\ db = "open" /\ ~data[s].prepared
  BY StatementType DEF Create, Inv, OpenOK
<1>2. PICK d \in DataType : d = [NoData EXCEPT !.alive = TRUE]
  BY DEF NoData, DataType
<1>3. d.alive /\ ~d.prepared /\ ~d.executed
  BY <1>2 DEF NoData
<1>4. PICK c : c = [v |-> vdbe, d |-> d]
  OBVIOUS
<1>5. PICK e \in CallType : e = [v |-> vdbe, d |-> d, throws |-> FALSE]
  BY StatementType DEF CallType
<1>6. CallOK(s, e)
  BY <1>1, <1>3, <1>5 DEF CallOK, Mine
<1>7. Ends(s, e, NULL)
  <2>1. Ends(s, [v |-> vdbe, d |-> d], NULL)
    BY <1>2 DEF Create
  <2> QED  BY <1>5, <2>1 DEF Ends
<1> QED  BY <1>1, <1>6, <1>7, NullResult, EndsKeeps DEF Kept

LEMMA PrepareKeeps ==
  ASSUME Inv, NEW s \in Stmt, Prepare(s)
  PROVE  Kept
<1>1. data[s].alive /\ ~Sending /\ db = "open"
  BY CallableOpen DEF Prepare
<1>2. PICK c : c = Finished(Call(s))
  OBVIOUS
<1>3. CallOK(s, c) /\ (~c.throws => ~c.d.prepared /\ ~c.d.executed)
  BY <1>1, <1>2, FinishIs
<1>4. PICK v \in [Handle -> Phases] : v = c.v
  BY <1>3 DEF CallOK, CallType
<1>5. PICK d \in DataType : d = c.d
  BY <1>3 DEF CallOK, CallType
<1>6. CASE c.throws /\ Ends(s, c, NULL)
  BY <1>1, <1>3, <1>6, NullResult, EndsKeeps DEF Kept
<1>7. CASE ~c.throws /\ Ends(s, [c EXCEPT !.d.stmt = NULL], NULL)
  <2>1. PICK e \in CallType : e = [c EXCEPT !.d.stmt = NULL]
    BY <1>3 DEF CallOK, CallType, DataType
  <2>2. e.v = v /\ e.d = [d EXCEPT !.stmt = NULL]
    BY <1>3, <1>4, <1>5, <2>1 DEF CallOK, CallType
  <2>3. e.d.alive = d.alive /\ e.d.prepared = d.prepared /\ e.d.executed = d.executed
    BY <2>2 DEF DataType
  <2>4. CallOK(s, e)
    BY <1>3, <1>4, <1>5, <1>7, <2>2, <2>3 DEF CallOK
  <2> QED  BY <1>1, <1>7, <2>1, <2>4, NullResult, EndsKeeps DEF Kept
<1>8. CASE ~c.throws /\ \E h \in Handle \ Live(c.v) :
             Ends(s, [c EXCEPT !.v = PrepareV2(@, h), !.d.prepared = TRUE, !.d.stmt = h], NULL)
  <2>1. PICK h \in Handle \ Live(c.v) :
             Ends(s, [c EXCEPT !.v = PrepareV2(@, h), !.d.prepared = TRUE, !.d.stmt = h], NULL)
    BY <1>8
  <2>2. PICK e : e = [c EXCEPT !.v = PrepareV2(@, h), !.d.prepared = TRUE, !.d.stmt = h]
    OBVIOUS
  <2>3. PICK w \in [Handle -> Phases] : w = [v EXCEPT ![h] = "ready"]
    BY DEF Phases
  <2>4. w[h] = "ready" /\ v[h] = "free" /\ \A g \in Handle : g # h => w[g] = v[g]
    BY <1>4, <2>1, <2>3 DEF Live
  <2>5. PICK f \in DataType : f = [d EXCEPT !.prepared = TRUE, !.stmt = h]
    BY DEF DataType
  <2>6. f.alive = d.alive /\ f.prepared /\ f.stmt = h /\ f.executed = d.executed
    BY <2>5 DEF DataType
  <2>7. f = [[d EXCEPT !.prepared = TRUE] EXCEPT !.stmt = h]
    BY <2>5 DEF DataType
  <2>8. c = [v |-> v, d |-> d, throws |-> c.throws] /\ c.throws \in BOOLEAN
    BY <1>3, <1>4, <1>5 DEF CallOK, CallType
  <2>9. e = [v |-> PrepareV2(c.v, h), d |-> f, throws |-> c.throws]
    BY <1>5, <2>2, <2>7, <2>8 DEF CallType
  <2>10. e \in CallType /\ e.v = w /\ e.d = f
    BY <1>4, <2>3, <2>8, <2>9 DEF CallType, PrepareV2
  <2>11. CallOK(s, e)
    <3>1. ~d.prepared /\ ~d.executed /\ d.alive
      BY <1>3, <1>5, <1>8 DEF CallOK
    <3>2. \A g \in Handle : IF Mine(s, g) THEN v[g] = "free" ELSE v[g] = vdbe[g]
      BY <1>3, <1>4, <1>5, <3>1 DEF CallOK
    <3> QED  BY <2>4, <2>6, <2>10, <3>1, <3>2 DEF CallOK
  <2> QED  BY <1>1, <2>1, <2>2, <2>11, NullResult, EndsKeeps DEF Kept
<1> QED  BY <1>2, <1>6, <1>7, <1>8 DEF Prepare

LEMMA BindKeeps ==
  ASSUME Inv, NEW s \in Stmt, Bind(s) \/ Reset(s)
  PROVE  Kept
<1>1. data[s].alive /\ ~Sending /\ db = "open"
  BY CallableOpen DEF Bind, Reset
<1>2. PICK c : c = ResetExecuted(Call(s)) /\ CallOK(s, c)
  BY <1>1, ResetIs
<1>3. Ends(s, c, NULL)
  BY <1>2 DEF Bind, Reset
<1> QED  BY <1>1, <1>2, <1>3, NullResult, EndsKeeps DEF Kept

LEMMA FinishKeeps ==
  ASSUME Inv, NEW s \in Stmt, Finish(s)
  PROVE  Kept
<1>1. data[s].alive /\ ~Sending /\ db = "open"
  BY CallableOpen DEF Finish
<1>2. PICK c : c = Finished(Call(s)) /\ CallOK(s, c)
  BY <1>1, FinishIs
<1>3. Ends(s, c, NULL)
  BY <1>2 DEF Finish
<1> QED  BY <1>1, <1>2, <1>3, NullResult, EndsKeeps DEF Kept

\* A step of the statement that a call has, as one more part of the call.
LEMMA Stepped ==
  ASSUME Inv, NEW s \in Stmt, NEW c, CallOK(s, c), c.d.prepared,
         NEW outcome \in Outcomes, NEW d \in DataType,
         d.alive, d.prepared, d.stmt = c.d.stmt,
         NEW e, e = [v |-> Step(c.v, c.d.stmt, outcome), d |-> d, throws |-> c.throws]
  PROVE  CallOK(s, e) /\ e.d = d /\ e.v[d.stmt] = outcome
<1>1. PICK h \in Handle : h = c.d.stmt
  BY DEF CallOK
<1>2. PICK v \in [Handle -> Phases] : v = c.v
  BY DEF CallOK, CallType
<1>3. PICK w \in [Handle -> Phases] : w = [v EXCEPT ![h] = outcome]
  BY DEF Phases, Outcomes
<1>4. w[h] = outcome /\ outcome # "free" /\ \A g \in Handle : g # h => w[g] = v[g]
  BY <1>3 DEF Outcomes
<1>5. c.throws \in BOOLEAN
  BY DEF CallOK, CallType
<1>6. e \in CallType /\ e.v = w /\ e.d = d
  BY <1>1, <1>2, <1>3, <1>5 DEF Step, CallType
<1> QED  BY <1>1, <1>2, <1>4, <1>6 DEF CallOK

LEMMA ExecuteKeeps ==
  ASSUME Inv, NEW s \in Stmt, Execute(s)
  PROVE  Kept
<1>1. data[s].alive /\ ~Sending /\ db = "open" /\ data[s].prepared
  BY CallableOpen DEF Execute
<1>2. PICK c : c = ResetExecuted(Call(s))
  OBVIOUS
<1>3. CallOK(s, c) /\ c.d.prepared /\ ~c.d.executed
  BY <1>1, <1>2, ResetIs
<1>4. CASE Ends(s, c, NULL)
  BY <1>1, <1>3, <1>4, NullResult, EndsKeeps DEF Kept
<1>5. CASE \E outcome \in Outcomes :
             Ends(s, [c EXCEPT !.v = Step(@, c.d.stmt, outcome), !.d = FlagExecuted(@, outcome)],
                  IF outcome = "failed" THEN NULL
                  ELSE [firstStep |-> TRUE, firstStepHasData |-> outcome = "row",
                        at |-> "begin", ended |-> FALSE, failed |-> FALSE, runs |-> 1])
  <2>1. PICK outcome \in Outcomes :
             Ends(s, [c EXCEPT !.v = Step(@, c.d.stmt, outcome), !.d = FlagExecuted(@, outcome)],
                  IF outcome = "failed" THEN NULL
                  ELSE [firstStep |-> TRUE, firstStepHasData |-> outcome = "row",
                        at |-> "begin", ended |-> FALSE, failed |-> FALSE, runs |-> 1])
    BY <1>5
  <2>2. PICK e : e = [c EXCEPT !.v = Step(@, c.d.stmt, outcome), !.d = FlagExecuted(@, outcome)]
    OBVIOUS
  <2>3. PICK res : res = IF outcome = "failed" THEN NULL
                         ELSE [firstStep |-> TRUE, firstStepHasData |-> outcome = "row",
                               at |-> "begin", ended |-> FALSE, failed |-> FALSE, runs |-> 1]
    OBVIOUS
  <2>4. c \in CallType /\ c.d \in DataType /\ c.d.alive
    BY <1>3 DEF CallOK, CallType
  <2>5. PICK d \in DataType : d = [c.d EXCEPT !.executed = outcome # "failed"]
    BY <2>4 DEF DataType
  <2>6. /\ d.alive /\ d.prepared = c.d.prepared /\ d.stmt = c.d.stmt
        /\ d.executed = (outcome # "failed")
    BY <2>4, <2>5 DEF DataType
  <2>7. e = [v |-> Step(c.v, c.d.stmt, outcome), d |-> d, throws |-> c.throws]
    BY <2>2, <2>4, <2>5 DEF CallType, FlagExecuted
  <2>8. CallOK(s, e) /\ e.d = d /\ e.v[d.stmt] = outcome
    <3>1. c.d.prepared /\ d.alive /\ d.prepared /\ d.stmt = c.d.stmt
      BY <1>3, <2>6
    <3>2. CallOK(s, c) /\ outcome \in Outcomes /\ d \in DataType
      BY <1>3
    <3> QED  BY <2>7, <3>1, <3>2, Stepped, SMTT(60)
  <2>9. ResultOK(res, e.d, e.v)
    BY <2>3, <2>6, <2>8 DEF ResultOK, ResultType
  <2>10. Ends(s, e, res)
    BY <2>1, <2>2, <2>3
  <2> QED  BY <1>1, <2>8, <2>9, <2>10, EndsKeeps DEF Kept
<1> QED  BY <1>2, <1>4, <1>5 DEF Execute

LEMMA ToldIs ==
  ASSUME NEW r \in ResultType, NEW found \in BOOLEAN
  PROVE  \E p \in ResultType :
           /\ p = Told(r, found) /\ p.failed = r.failed /\ p.runs = r.runs
           /\ p.firstStep = r.firstStep /\ p.at = IF found THEN "record" ELSE "end"
           /\ p.ended <=> r.ended \/ ~found
<1>1. PICK e \in BOOLEAN : e = (r.ended \/ ~found)
  BY Zenon
<1>2. PICK w \in {"record", "end"} : w = IF found THEN "record" ELSE "end"
  OBVIOUS
<1>3. PICK p : p = [r EXCEPT !.at = w, !.ended = e]
  OBVIOUS
<1>4. p = Told(r, found)
  BY <1>1, <1>2, <1>3, Zenon DEF Told
<1>5. /\ p \in ResultType /\ p.failed = r.failed /\ p.runs = r.runs
      /\ p.firstStep = r.firstStep /\ p.at = w /\ p.ended = e
  BY <1>3 DEF ResultType
<1>6. p.ended <=> r.ended \/ ~found
  BY <1>1, <1>5, Zenon
<1> QED  BY <1>2, <1>4, <1>5, <1>6, Zenon

LEMMA NextRecordKeeps ==
  ASSUME Inv, NEW s \in Stmt, NextRecord(s)
  PROVE  Kept
<1>1. data[s].alive /\ ~Sending /\ db = "open" /\ result[s] # NULL
  BY CallableOpen DEF NextRecord
<1>2. PICK r : r = result[s]
  OBVIOUS
<1>3. ResultOK(r, data[s], vdbe) /\ data[s].executed /\ data[s].prepared /\ r \in ResultType
  BY <1>1, <1>2, StatementType DEF Inv, ResultsOK, ResultOK
<1>4. PICK h \in Handle : h = data[s].stmt
  BY <1>3, StatementType
<1>5. CASE /\ r.firstStep
           /\ Ends(s, Call(s), [Told(r, HasData(r)) EXCEPT !.firstStep = FALSE])
  <2>0. PICK p \in ResultType : /\ p = Told(r, HasData(r)) /\ p.failed = r.failed /\ p.runs = r.runs
                                /\ p.at = IF r.firstStepHasData THEN "record" ELSE "end"
                                /\ p.ended <=> r.ended \/ ~r.firstStepHasData
    BY <1>3, ToldIs DEF HasData, ResultType
  <2>1. PICK q \in ResultType : q = [p EXCEPT !.firstStep = FALSE]
    BY DEF ResultType
  <2>2. /\ q.failed = r.failed /\ q.runs = r.runs /\ ~q.firstStep
        /\ q.at = IF r.firstStepHasData THEN "record" ELSE "end"
        /\ q.ended <=> r.ended \/ ~r.firstStepHasData
    BY <2>0, <2>1 DEF ResultType
  <2>3. ResultOK(q, data[s], vdbe)
    BY <1>1, <1>2, <1>3, <1>5, <2>2 DEF ResultOK
  <2>4. PICK c : c = Call(s) /\ CallOK(s, c) /\ c.d = data[s] /\ c.v = vdbe
    BY <1>1, CallIs
  <2> QED  BY <1>1, <1>5, <2>0, <2>1, <2>3, <2>4, EndsKeeps DEF Kept
<1>6. CASE /\ ~r.firstStep
           /\ \E outcome \in Outcomes :
                Ends(s, [Call(s) EXCEPT !.v = Step(@, h, outcome)],
                     [Told(r, outcome # "done") EXCEPT
                         !.failed = @ \/ outcome = "failed",
                         !.runs = IF Runs(vdbe, h) THEN 2 ELSE @])
  <2>1. PICK outcome \in Outcomes :
                Ends(s, [Call(s) EXCEPT !.v = Step(@, h, outcome)],
                     [Told(r, outcome # "done") EXCEPT
                         !.failed = @ \/ outcome = "failed",
                         !.runs = IF Runs(vdbe, h) THEN 2 ELSE @])
    BY <1>6
  <2>0. PICK p \in ResultType : /\ p = Told(r, outcome # "done") /\ p.failed = r.failed
                                /\ p.runs = r.runs /\ p.firstStep = r.firstStep
                                /\ p.at = IF outcome # "done" THEN "record" ELSE "end"
                                /\ p.ended <=> r.ended \/ outcome = "done"
    <3>1. PICK found \in BOOLEAN : found = (outcome # "done")
      BY Zenon
    <3>2. found <=> outcome # "done"
      BY <3>1
    <3>3. PICK p \in ResultType :
            /\ p = Told(r, found) /\ p.failed = r.failed /\ p.runs = r.runs
            /\ p.firstStep = r.firstStep /\ p.at = IF found THEN "record" ELSE "end"
            /\ p.ended <=> r.ended \/ ~found
      BY <1>3, ToldIs
    <3>4. p = Told(r, outcome # "done")
      BY <3>1, <3>3, Zenon
    <3> QED  BY <3>2, <3>3, <3>4, Zenon
  <2>2. PICK q \in ResultType : q = [p EXCEPT !.failed = @ \/ outcome = "failed",
                                              !.runs = IF Runs(vdbe, h) THEN 2 ELSE @]
    <3>1. (p.failed \/ outcome = "failed") \in BOOLEAN /\ p.runs \in {1, 2}
      BY DEF ResultType
    <3> QED  BY <3>1 DEF ResultType
  <2>3. /\ q.failed <=> r.failed \/ outcome = "failed"
        /\ q.runs = IF Runs(vdbe, h) THEN 2 ELSE r.runs
        /\ q.firstStep = r.firstStep /\ q.at = IF outcome = "done" THEN "end" ELSE "record"
        /\ q.ended <=> r.ended \/ outcome = "done"
    BY <2>0, <2>2 DEF ResultType
  <2>4. PICK c : c = Call(s) /\ CallOK(s, c) /\ c.d = data[s] /\ c.v = vdbe /\ c.throws = FALSE
    BY <1>1, CallIs
  <2>5. PICK e : e = [c EXCEPT !.v = Step(@, h, outcome)]
    OBVIOUS
  <2>6. e = [v |-> Step(c.v, c.d.stmt, outcome), d |-> data[s], throws |-> c.throws]
    BY <1>4, <2>4, <2>5 DEF Call
  <2>7. CallOK(s, e) /\ e.d = data[s] /\ e.v[h] = outcome
    <3>1. data[s] \in DataType
      BY StatementType
    <3> QED  BY <1>1, <1>3, <1>4, <2>4, <2>6, <3>1, Stepped
  <2>8. ResultOK(q, e.d, e.v)
    <3>1. ~q.failed => /\ ~r.failed /\ outcome # "failed"
                       /\ r.runs = 1 \/ r.ended
                       /\ r.ended \/ vdbe[h] = "row"
      BY <1>1, <1>2, <1>3, <1>4, <1>6, <2>3 DEF ResultOK, ResultType
    <3>2. ~q.failed => (q.runs = 1 \/ q.ended) /\ (outcome # "done" => outcome = "row")
      BY <2>3, <3>1 DEF Runs, Outcomes
    <3> QED  BY <1>3, <1>4, <1>6, <2>2, <2>3, <2>7, <3>2 DEF ResultOK
  <2>9. Ends(s, e, q)
    BY <2>0, <2>1, <2>2, <2>4, <2>5
  <2> QED  BY <1>1, <2>7, <2>8, <2>9, EndsKeeps DEF Kept
<1> QED  BY <1>2, <1>4, <1>5, <1>6 DEF NextRecord

\* Who drops the last reference closes the connection, or something is lost.
LEMMA DropIs ==
  ASSUME db = "open", DropConnection, query' = NoQuery \/ query'.pc # "none",
         \A s \in Stmt : data'[s].prepared => data'[s].alive
  PROVE  /\ db' \in {"open", "closed", "busy"}
         /\ handle' => db' = "open"
         /\ query' # NoQuery => db' = "open"
         /\ \A s \in Stmt : data'[s].alive => db' = "open"
         /\ CloseSucceeds'
<1>1. NoQuery.pc = "none"
  BY DEF NoQuery
<1>2. CASE handle' \/ (\E s \in Stmt : data'[s].alive) \/ query'.pc # "none"
  <2>1. db' = "open"
    BY <1>2 DEF DropConnection
  <2> QED  BY <2>1 DEF CloseSucceeds
<1>3. CASE ~(handle' \/ (\E s \in Stmt : data'[s].alive) \/ query'.pc # "none")
  <2>1. db' = Closed(vdbe')
    BY <1>3 DEF DropConnection
  <2>2. CASE Live(vdbe') = {}
    BY <1>1, <1>3, <2>1, <2>2 DEF Closed, CloseSucceeds
  <2>3. CASE Live(vdbe') # {}
    <3>1. PICK h \in Handle : h \in Live(vdbe')
      BY <2>3 DEF Live
    <3>2. Lost(h)'
      BY <1>3, <3>1 DEF Lost, Owners, OfQuery
    <3>3. CloseSucceeds'
      BY <3>2 DEF CloseSucceeds
    <3> QED  BY <1>1, <1>3, <2>1, <3>3 DEF Closed
  <2> QED  BY <2>2, <2>3
<1> QED  BY <1>2, <1>3

\* Only an error of reset() makes the destruction of a statement lose one.
LEMMA DestroyKeeps ==
  ASSUME Inv, NEW s \in Stmt, Destroy(s)
  PROVE  Inv' /\ \A h \in Handle : Lost(h)' => Lost(h) \/ FailedGone(h)
<1>1. data[s].alive /\ ~Sending /\ db = "open"
  BY CallableOpen DEF Destroy
<1>2. PICK c : c = Finished(Call(s))
  OBVIOUS
<1>3. /\ CallOK(s, c)
      /\ ~c.throws => ~c.d.prepared /\ ~c.d.executed
      /\ c.throws => data[s].executed /\ vdbe[data[s].stmt] = "failed"
  BY <1>1, <1>2, FinishIs
<1>4. PICK v \in [Handle -> Phases] : v = c.v
  BY <1>3 DEF CallOK, CallType
<1>5. PICK d \in DataType : d = NoData
  BY DEF DataType, NoData
<1>6. ~d.alive /\ ~d.prepared /\ ~d.executed
  BY <1>5 DEF NoData
<1>7. /\ vdbe' = v /\ data' = [data EXCEPT ![s] = d] /\ result' = [result EXCEPT ![s] = NULL]
      /\ handle' = handle /\ query' = query /\ DropConnection
  BY <1>2, <1>4, <1>5 DEF Destroy, Destroyed
<1>8. data'[s] = d /\ \A t \in Stmt \ {s} : data'[t] = data[t]
  BY <1>7 DEF Inv, TypeOK
<1>9. \A h \in Handle : ~Mine(s, h) => v[h] = vdbe[h]
  <2>1. c.d.prepared => data[s].prepared /\ c.d.stmt = data[s].stmt
    BY <1>1, <1>2, FinishIs
  <2> QED  BY <1>3, <1>4, <2>1 DEF CallOK, Mine
<1>10. /\ db' \in {"open", "closed", "busy"}
       /\ handle' => db' = "open"
       /\ query' # NoQuery => db' = "open"
       /\ \A t \in Stmt : data'[t].alive => db' = "open"
       /\ CloseSucceeds'
  <2>1. \A t \in Stmt : data'[t].prepared => data'[t].alive
    BY <1>6, <1>8, StatementType
  <2>2. query' = NoQuery \/ query'.pc # "none"
    BY <1>7, QueryTypes DEF Inv
  <2> QED  BY <1>1, <1>7, <2>1, <2>2, DropIs
<1>11. TypeOK' /\ ResultsOK' /\ HandlesOK' /\ SingleOK'
  <2>1. \A h \in Handle : ~Mine(s, h) =>
            IF d.prepared /\ d.stmt = h THEN vdbe[h] = "free" ELSE v[h] = vdbe[h]
    BY <1>6, <1>9
  <2>2. db' \in {"open", "closed", "busy"}
    BY <1>10
  <2>3. ResultOK(NULL, d, v)
    BY NullResult
  <2> QED  BY <1>6, <1>7, <2>1, <2>2, <2>3, OthersKeep
<1>12. OpenOK'
  BY <1>1, <1>7, <1>10 DEF Inv, OpenOK, Sending
<1>13. ASSUME NEW h \in Handle, Lost(h)' PROVE Lost(h) \/ FailedGone(h)
  <2>1. /\ v[h] # "free" /\ ~OfQuery(h)
        /\ \A t \in Stmt : ~(data'[t].prepared /\ data'[t].stmt = h)
    BY <1>7, <1>13 DEF Lost, Live, Owners, OfQuery
  <2>2. CASE Mine(s, h)
    <3>1. c.throws
      BY <1>3, <1>4, <2>1, <2>2 DEF CallOK
    <3> QED  BY <1>3, <1>6, <1>8, <2>2, <3>1 DEF FailedGone, Owners, Mine
  <2>3. CASE ~Mine(s, h)
    <3>1. vdbe[h] # "free"
      BY <1>9, <2>1, <2>3
    <3>2. \A t \in Stmt : ~(data[t].prepared /\ data[t].stmt = h)
      BY <1>8, <2>1, <2>3 DEF Mine
    <3> QED  BY <2>1, <3>1, <3>2 DEF Lost, Live, Owners
  <2> QED  BY <2>2, <2>3
<1> QED  BY <1>10, <1>11, <1>12, <1>13 DEF Inv

-----------------------------------------------------------------------------
(* The connection and queries.                                             *)

\* What a query does to its own statement disturbs no other.
LEMMA QueryKeeps ==
  ASSUME Inv, NEW v \in [Handle -> Phases], NEW q \in Queries \cup {NoQuery},
         NEW G \in SUBSET Handle,
         \A h \in Handle \ G : v[h] = vdbe[h],
         \A g \in G : vdbe[g] = "free" \/ OfQuery(g),
         q.pc \in {"execute", "loop"} \/ (q.pc = "result" /\ q.owned) =>
             q.stmt \in Handle /\ v[q.stmt] # "free" /\ (q.stmt \in G \/ OfQuery(q.stmt)),
         UNCHANGED <<data, result, handle>>, vdbe' = v, query' = q,
         db' \in {"open", "closed", "busy"}
  PROVE  TypeOK' /\ ResultsOK' /\ HandlesOK'
<1>1. ASSUME NEW s \in Stmt, data[s].prepared
      PROVE  /\ data[s].stmt \in Handle /\ v[data[s].stmt] = vdbe[data[s].stmt]
             /\ vdbe[data[s].stmt] # "free" /\ ~OfQuery(data[s].stmt)
             /\ data[s].stmt \notin G
  <2>1. PICK h \in Handle : h = data[s].stmt /\ vdbe[h] # "free"
    BY <1>1, StatementType
  <2>2. ~OfQuery(h)
    BY <1>1, <2>1 DEF Mine, Inv, HandlesOK
  <2> QED  BY <2>1, <2>2
<1>2. ResultsOK'
  <2>1. ASSUME NEW s \in Stmt PROVE ResultOK(result[s], data[s], v)
    <3>1. ResultOK(result[s], data[s], vdbe) /\ (data[s].executed => data[s].prepared)
      BY StatementType DEF Inv, ResultsOK
    <3> QED  BY <1>1, <3>1 DEF ResultOK
  <2>2. result = [s \in Stmt |-> result[s]]
    BY DEF Inv, ResultsOK
  <2> QED  BY <2>1, <2>2 DEF ResultsOK
<1>3. TypeOK'
  <2>1. q.pc \in {"none", "prepare", "execute", "loop", "result"}
    BY DEF Queries, NoQuery
  <2>2. \A s \in Stmt : data[s].prepared => data[s].stmt \in Handle /\ v[data[s].stmt] # "free"
    BY <1>1
  <2> QED  BY <2>1, <2>2 DEF Inv, TypeOK, Live
<1>4. HandlesOK'
  <2>1. ASSUME NEW s \in Stmt, NEW h \in Handle, Mine(s, h) PROVE ~OfQuery(h)'
    <3>1. h \notin G /\ ~OfQuery(h) /\ h = data[s].stmt
      BY <1>1, <2>1 DEF Mine
    <3> QED  BY <3>1 DEF OfQuery
  <2>2. \A s \in Stmt, h \in Handle : Mine(s, h)' <=> Mine(s, h)
    BY DEF Mine
  <2> QED  BY <2>1, <2>2 DEF Inv, HandlesOK, Live
<1> QED  BY <1>2, <1>3, <1>4

\* What a query does while it keeps the connection open.
LEMMA SendingKeeps ==
  ASSUME Inv, Sending, UNCHANGED <<db, handle, data, result>>,
         (TypeOK /\ ResultsOK /\ HandlesOK /\ SingleOK)'
  PROVE  Inv'
<1>1. handle /\ db = "open"
  BY DEF Inv, OpenOK
<1> QED  BY <1>1 DEF Inv, OpenOK, CloseSucceeds

\* A statement stays with its owner.
LEMMA LostSame ==
  ASSUME UNCHANGED data, NEW h \in Handle, Lost(h)', vdbe[h] # "free", ~OfQuery(h)
  PROVE  Lost(h)
BY DEF Lost, Owners, Live

LEMMA UsedType ==
  ASSUME NEW q \in Queries, NEW u, u = Used(q)
  PROVE  /\ u \in Queries /\ u.pc = q.pc /\ u.length = q.length /\ u.left = q.left
         /\ u.stmt = q.stmt /\ u.owned = q.owned
<1>1. PICK b \in BOOLEAN : b = (q.usedDeleted \/ q.deleted)
  BY DEF Queries
<1>2. u = [q EXCEPT !.usedDeleted = b]
  BY <1>1 DEF Used
<1> QED  BY <1>2 DEF Queries

LEMMA SendQueryKeeps ==
  ASSUME Inv, NEW n \in QueryLengths, SendQuery(n)
  PROVE  Kept
<1>1. PICK q \in Queries : /\ q.pc = "prepare" /\ q.length = n /\ q.left = n
                           /\ query' = q
  <2>1. NULL \in Handle \cup {NULL} /\ n \in Nat \ {0}
    BY LengthsAssumption
  <2>2. PICK q : q = [pc |-> "prepare", length |-> n, left |-> n, stmt |-> NULL,
                      owned |-> FALSE, deleted |-> FALSE, usedDeleted |-> FALSE]
    OBVIOUS
  <2>3. q \in Queries
    BY <2>1, <2>2 DEF Queries
  <2> QED  BY <2>2, <2>3 DEF SendQuery
<1>2. UNCHANGED <<db, handle, vdbe, data, result>> /\ handle /\ db = "open" /\ query.pc = "none"
  BY DEF SendQuery, Inv, OpenOK, NoQuery
<1>3. PICK v \in [Handle -> Phases] : v = vdbe
  BY DEF Inv, TypeOK
<1>4. TypeOK' /\ ResultsOK' /\ HandlesOK'
  <2>1. db' \in {"open", "closed", "busy"}
    BY <1>2
  <2>2. PICK G \in SUBSET Handle : G = {}
    OBVIOUS
  <2>3. /\ \A h \in Handle \ G : v[h] = vdbe[h]
        /\ \A g \in G : vdbe[g] = "free" \/ OfQuery(g)
        /\ ~(q.pc \in {"execute", "loop"} \/ (q.pc = "result" /\ q.owned))
    BY <1>1, <1>3, <2>2
  <2> QED  BY <1>1, <1>2, <1>3, <2>1, <2>3, QueryKeeps
<1>5. SingleOK'
  BY <1>1 DEF SingleOK, Single
<1>6. OpenOK' /\ CloseSucceeds'
  BY <1>1, <1>2 DEF Inv, OpenOK, CloseSucceeds
<1>7. \A h \in Handle : Lost(h)' => Lost(h)
  BY <1>2 DEF Lost, Live, Owners, OfQuery
<1> QED  BY <1>4, <1>5, <1>6, <1>7 DEF Kept, Inv

LEMMA QueryPrepareKeeps ==
  ASSUME Inv, QueryPrepare
  PROVE  Kept
<1>1. /\ UNCHANGED <<db, handle, data, result>> /\ Sending /\ query.pc = "prepare"
      /\ query \in Queries
  BY QueryTypes DEF QueryPrepare, Sending, Inv
<1>2. CASE query' = NoQuery /\ UNCHANGED vdbe
  <2>1. TypeOK' /\ ResultsOK' /\ HandlesOK' /\ SingleOK'
    <3>1. NoQuery.pc = "none"
      BY DEF NoQuery
    <3>2. \A h \in Handle : ~OfQuery(h)'
      BY <1>2, <3>1 DEF OfQuery
    <3> QED  BY <1>1, <1>2, <3>1, <3>2
             DEF Inv, TypeOK, ResultsOK, HandlesOK, SingleOK, Mine
  <2>2. \A h \in Handle : Lost(h)' => Lost(h)
    BY <1>1, <1>2 DEF Lost, Live, Owners, OfQuery
  <2> QED  BY <1>1, <2>1, <2>2, SendingKeeps DEF Kept
<1>3. CASE \E h \in Handle \ Live(vdbe) :
             /\ vdbe' = PrepareV2(vdbe, h)
             /\ query' = [Used(query) EXCEPT !.pc = "execute", !.stmt = h, !.left = @ - 1]
  <2>1. PICK g \in Handle : /\ g \notin Live(vdbe) /\ vdbe' = PrepareV2(vdbe, g)
                            /\ query' = [Used(query) EXCEPT !.pc = "execute", !.stmt = g,
                                                            !.left = @ - 1]
    BY <1>3
  <2>2. PICK v \in [Handle -> Phases] : v = [vdbe EXCEPT ![g] = "ready"]
    BY DEF Phases, Inv, TypeOK
  <2>3. /\ vdbe' = v /\ v[g] = "ready" /\ vdbe[g] = "free"
        /\ \A h \in Handle \ {g} : v[h] = vdbe[h]
    BY <2>1, <2>2 DEF PrepareV2, Live, Inv, TypeOK
  <2>4. PICK q : q = [Used(query) EXCEPT !.pc = "execute", !.stmt = g, !.left = @ - 1]
    OBVIOUS
  <2>5. PICK u \in Queries : u = Used(query) /\ u.length = query.length /\ u.left = query.left
    BY <1>1, UsedType
  <2>6. q \in Queries /\ q.pc = "execute" /\ q.stmt = g /\ q.left = query.left - 1
        /\ q.length = query.length
    <3>1. PICK l \in Int : l = u.left - 1
      BY DEF Queries
    <3>2. q = [u EXCEPT !.pc = "execute", !.stmt = g, !.left = l]
      BY <2>4, <2>5, <3>1
    <3>3. q \in Queries /\ q.pc = "execute" /\ q.stmt = g /\ q.left = l /\ q.length = u.length
      BY <3>2 DEF Queries
    <3> QED  BY <2>5, <3>1, <3>3
  <2>7. TypeOK' /\ ResultsOK' /\ HandlesOK'
    <3>1. query' = q
      BY <2>1, <2>4
    <3>2. db' \in {"open", "closed", "busy"}
      BY <1>1 DEF Inv, TypeOK
    <3>3. PICK G \in SUBSET Handle : G = {g}
      OBVIOUS
    <3>4. /\ \A h \in Handle \ G : v[h] = vdbe[h]
          /\ \A h \in G : vdbe[h] = "free" \/ OfQuery(h)
          /\ q.stmt \in Handle /\ v[q.stmt] # "free" /\ q.stmt \in G
      BY <2>3, <2>6, <3>3
    <3> QED  BY <1>1, <2>3, <2>6, <3>1, <3>2, <3>4, QueryKeeps
  <2>8. SingleOK'
    <3>1. query # NoQuery
      BY <1>1, QueryTypes DEF Inv
    <3>2. Single => query.length = 1 /\ query.left = 1
      BY <1>1, <3>1 DEF Inv, SingleOK
    <3>3. query' = q
      BY <2>1, <2>4
    <3> QED  BY <2>6, <3>2, <3>3 DEF SingleOK
  <2>9. ASSUME NEW h \in Handle, Lost(h)' PROVE Lost(h)
    <3>1. h # g
      BY <2>1, <2>4, <2>6, <2>9 DEF Lost, OfQuery
    <3>2. vdbe[h] # "free"
      BY <2>3, <2>9, <3>1 DEF Lost, Live
    <3> QED  BY <1>1, <2>9, <3>2, LostSame DEF OfQuery
  <2> QED  BY <1>1, <2>7, <2>8, <2>9, SendingKeeps DEF Kept
<1> QED  BY <1>2, <1>3 DEF QueryPrepare

LEMMA QueryExecuteKeeps ==
  ASSUME Inv, QueryExecute
  PROVE  Inv' /\ (Single => \A h \in Handle : Lost(h)' => Lost(h))
<1>1. /\ UNCHANGED <<db, handle, data, result>> /\ Sending /\ query.pc = "execute"
      /\ query \in Queries
  BY QueryTypes DEF QueryExecute, Sending, Inv
<1>2. PICK g \in Handle : g = query.stmt /\ vdbe[g] # "free" /\ OfQuery(g)
  BY <1>1 DEF Inv, HandlesOK, Live, OfQuery
<1>3. PICK outcome \in Outcomes :
        /\ outcome = "failed" => QueryErrors
        /\ vdbe' = Step(vdbe, query.stmt, outcome)
        /\ query' = IF outcome = "failed" THEN NoQuery
                    ELSE [Used(query) EXCEPT !.pc = "loop", !.owned = OwnsStmt(query)]
  BY DEF QueryExecute
<1>4. PICK v \in [Handle -> Phases] : v = [vdbe EXCEPT ![g] = outcome]
  BY DEF Phases, Outcomes, Inv, TypeOK
<1>5. /\ vdbe' = v /\ v[g] # "free" /\ \A h \in Handle \ {g} : v[h] = vdbe[h]
  BY <1>2, <1>3, <1>4 DEF Step, Outcomes, Inv, TypeOK
<1>6. PICK q \in Queries \cup {NoQuery} :
        /\ query' = q
        /\ outcome = "failed" => q = NoQuery
        /\ outcome # "failed" => q \in Queries /\ q.pc = "loop" /\ q.stmt = g
                                 /\ q.length = query.length /\ q.left = query.left
                                 /\ q.owned = OwnsStmt(query)
  <2>1. PICK u \in Queries : /\ u = Used(query) /\ u.length = query.length
                             /\ u.left = query.left /\ u.stmt = g
    BY <1>1, <1>2, UsedType
  <2>2. PICK b \in BOOLEAN : b = OwnsStmt(query)
    BY DEF OwnsStmt
  <2>3. PICK q : q = [u EXCEPT !.pc = "loop", !.owned = b]
    OBVIOUS
  <2>4. q \in Queries /\ q.pc = "loop" /\ q.stmt = u.stmt /\ q.length = u.length
        /\ q.left = u.left /\ q.owned = b
    BY <2>3 DEF Queries
  <2> QED  BY <1>3, <2>1, <2>2, <2>3, <2>4
<1>7. NoQuery.pc = "none"
  BY DEF NoQuery
<1>8. TypeOK' /\ ResultsOK' /\ HandlesOK'
  <2>1. PICK G \in SUBSET Handle : G = {g}
    OBVIOUS
  <2>2. /\ \A h \in Handle \ G : v[h] = vdbe[h]
        /\ \A h \in G : vdbe[h] = "free" \/ OfQuery(h)
        /\ q.pc \in {"execute", "loop"} \/ (q.pc = "result" /\ q.owned) =>
             q.stmt \in Handle /\ v[q.stmt] # "free" /\ q.stmt \in G
    BY <1>2, <1>5, <1>6, <1>7, <2>1
  <2>3. db' \in {"open", "closed", "busy"}
    BY <1>1 DEF Inv, TypeOK
  <2> QED  BY <1>1, <1>5, <1>6, <2>2, <2>3, QueryKeeps
<1>9. SingleOK'
  <2>1. query # NoQuery
    BY <1>1, QueryTypes DEF Inv
  <2>2. Single => query.length = 1 /\ query.left = 0
    BY <1>1, <2>1 DEF Inv, SingleOK
  <2>3. Single => OwnsStmt(query)
    BY <2>2 DEF OwnsStmt
  <2> QED  BY <1>6, <2>2, <2>3 DEF SingleOK
<1>10. ASSUME Single, NEW h \in Handle, Lost(h)' PROVE Lost(h)
  <2>1. outcome # "failed"
    BY <1>3, <1>10 DEF Single
  <2>2. h # g
    BY <1>6, <1>10, <2>1 DEF Lost, OfQuery
  <2>3. vdbe[h] # "free" /\ ~OfQuery(h)
    BY <1>2, <1>5, <1>10, <2>2 DEF Lost, Live, OfQuery
  <2> QED  BY <1>1, <1>10, <2>3, LostSame
<1> QED  BY <1>1, <1>8, <1>9, <1>10, SendingKeeps

LEMMA QueryLoopKeeps ==
  ASSUME Inv, QueryLoop
  PROVE  Inv' /\ (Single => \A h \in Handle : Lost(h)' => Lost(h))
<1>1. /\ UNCHANGED <<db, handle, data, result>> /\ Sending /\ query.pc = "loop"
      /\ query \in Queries /\ query # NoQuery
  BY QueryTypes DEF QueryLoop, Sending, Inv
<1>2. PICK g \in Handle : g = query.stmt /\ vdbe[g] # "free" /\ OfQuery(g)
  BY <1>1 DEF Inv, HandlesOK, Live, OfQuery
<1>3. db' \in {"open", "closed", "busy"}
  BY <1>1 DEF Inv, TypeOK
<1>4. Single => query.length = 1 /\ query.left = 0 /\ query.owned
  BY <1>1 DEF Inv, SingleOK
<1>5. CASE CodeLeft(query)
  <2>1. /\ vdbe' = DeleteResult(vdbe)
        /\ query' = [query EXCEPT !.pc = "prepare", !.deleted = @ \/ query.owned,
                                  !.left = IF UTF8 THEN query.length ELSE @]
    BY <1>5 DEF QueryLoop
  <2>2. PICK v \in [Handle -> Phases] : v = DeleteResult(vdbe)
    BY <1>2 DEF DeleteResult, FinalizeStmt, Phases, Inv, TypeOK
  <2>3. /\ \A h \in Handle \ {g} : v[h] = vdbe[h]
        /\ query.owned => v[g] = "free"
    BY <1>2, <2>2 DEF DeleteResult, FinalizeStmt, Inv, TypeOK
  <2>4. PICK q \in Queries : /\ query' = q /\ q.pc = "prepare" /\ q.length = query.length
                             /\ q.left = IF UTF8 THEN query.length ELSE query.left
    <3>1. PICK b \in BOOLEAN : b = (query.deleted \/ query.owned)
      BY <1>1 DEF Queries
    <3>2. PICK l \in Int : l = IF UTF8 THEN query.length ELSE query.left
      BY <1>1 DEF Queries
    <3>3. PICK q : q = [query EXCEPT !.pc = "prepare", !.deleted = b, !.left = l]
      OBVIOUS
    <3>4. q \in Queries /\ q.pc = "prepare" /\ q.length = query.length /\ q.left = l
      BY <1>1, <3>3 DEF Queries
    <3> QED  BY <2>1, <3>1, <3>2, <3>3, <3>4
  <2>5. TypeOK' /\ ResultsOK' /\ HandlesOK'
    <3>1. PICK G \in SUBSET Handle : G = {g}
      OBVIOUS
    <3>2. /\ \A h \in Handle \ G : v[h] = vdbe[h]
          /\ \A h \in G : vdbe[h] = "free" \/ OfQuery(h)
          /\ ~(q.pc \in {"execute", "loop"} \/ (q.pc = "result" /\ q.owned))
      BY <1>2, <2>3, <2>4, <3>1
    <3> QED  BY <1>1, <1>3, <2>1, <2>2, <2>4, <3>2, QueryKeeps
  <2>6. SingleOK'
    <3>1. Single => UTF8
      BY <1>4, <1>5 DEF CodeLeft
    <3> QED  BY <1>4, <2>4, <3>1 DEF SingleOK
  <2>7. ASSUME Single, NEW h \in Handle, Lost(h)' PROVE Lost(h)
    <3>1. h # g
      BY <1>4, <2>1, <2>2, <2>3, <2>7 DEF Lost, Live
    <3>2. vdbe[h] # "free" /\ ~OfQuery(h)
      BY <1>2, <2>1, <2>2, <2>3, <2>7, <3>1 DEF Lost, Live, OfQuery
    <3> QED  BY <1>1, <2>7, <3>2, LostSame
  <2> QED  BY <1>1, <2>5, <2>6, <2>7, SendingKeeps
<1>6. CASE ~CodeLeft(query)
  <2>1. query' = [query EXCEPT !.pc = "result"] /\ UNCHANGED vdbe
    BY <1>6 DEF QueryLoop
  <2>2. PICK q \in Queries : /\ query' = q /\ q.pc = "result" /\ q.stmt = g
                             /\ q.length = query.length /\ q.owned = query.owned
    BY <1>1, <1>2, <2>1 DEF Queries
  <2>3. PICK v \in [Handle -> Phases] : v = vdbe
    BY DEF Inv, TypeOK
  <2>4. TypeOK' /\ ResultsOK' /\ HandlesOK'
    <3>1. PICK G \in SUBSET Handle : G = {}
      OBVIOUS
    <3>2. /\ \A h \in Handle \ G : v[h] = vdbe[h]
          /\ \A h \in G : vdbe[h] = "free" \/ OfQuery(h)
          /\ q.stmt \in Handle /\ v[q.stmt] # "free" /\ OfQuery(q.stmt)
      BY <1>2, <2>2, <2>3, <3>1
    <3> QED  BY <1>1, <1>3, <2>1, <2>2, <2>3, <3>2, QueryKeeps
  <2>5. SingleOK'
    BY <1>4, <2>2 DEF SingleOK
  <2>6. ASSUME Single, NEW h \in Handle, Lost(h)' PROVE Lost(h)
    <3>1. h # g
      BY <1>4, <2>2, <2>6 DEF Lost, OfQuery
    <3>2. vdbe[h] # "free" /\ ~OfQuery(h)
      BY <1>2, <2>1, <2>6, <3>1 DEF Lost, Live, OfQuery
    <3> QED  BY <1>1, <2>6, <3>2, LostSame
  <2> QED  BY <1>1, <2>4, <2>5, <2>6, SendingKeeps
<1> QED  BY <1>5, <1>6

LEMMA DropQueryResultKeeps ==
  ASSUME Inv, DropQueryResult
  PROVE  Inv' /\ (Single => \A h \in Handle : Lost(h)' => Lost(h))
<1>1. /\ UNCHANGED <<handle, data, result>> /\ query' = NoQuery /\ DropConnection
      /\ query.pc = "result" /\ query \in Queries /\ query # NoQuery /\ db = "open"
  BY QueryTypes DEF DropQueryResult, Inv, OpenOK
<1>2. Single => query.owned
  BY <1>1 DEF Inv, SingleOK
<1>3. query.owned => query.stmt \in Handle /\ OfQuery(query.stmt)
  BY <1>1 DEF Inv, HandlesOK, Live, OfQuery
<1>4. PICK v \in [Handle -> Phases] : v = DeleteResult(vdbe)
  BY <1>3 DEF DeleteResult, FinalizeStmt, Phases, Inv, TypeOK
<1>5. vdbe' = v
  BY <1>4 DEF DropQueryResult
<1>6. PICK G \in SUBSET Handle : G = IF query.owned THEN {query.stmt} ELSE {}
  BY <1>3
<1>7. /\ \A h \in Handle \ G : v[h] = vdbe[h]
      /\ \A h \in G : v[h] = "free" /\ OfQuery(h)
  BY <1>3, <1>4, <1>6 DEF DeleteResult, FinalizeStmt, Inv, TypeOK
<1>8. NoQuery.pc = "none"
  BY DEF NoQuery
<1>9. /\ db' \in {"open", "closed", "busy"}
      /\ handle' => db' = "open"
      /\ \A s \in Stmt : data'[s].alive => db' = "open"
      /\ CloseSucceeds'
  <2>1. \A s \in Stmt : data'[s].prepared => data'[s].alive
    BY <1>1, StatementType
  <2> QED  BY <1>1, <2>1, DropIs
<1>10. TypeOK' /\ ResultsOK' /\ HandlesOK'
  <2>1. PICK q \in Queries \cup {NoQuery} : q = NoQuery
    OBVIOUS
  <2>2. /\ ~(q.pc \in {"execute", "loop"} \/ (q.pc = "result" /\ q.owned))
        /\ \A h \in G : vdbe[h] = "free" \/ OfQuery(h)
    BY <1>7, <1>8, <2>1
  <2> QED  BY <1>1, <1>5, <1>7, <1>9, <2>1, <2>2, QueryKeeps
<1>11. SingleOK' /\ OpenOK'
  BY <1>1, <1>8, <1>9 DEF SingleOK, OpenOK, Sending
<1>12. ASSUME Single, NEW h \in Handle, Lost(h)' PROVE Lost(h)
  <2>1. v[h] # "free" /\ h # query.stmt
    BY <1>2, <1>5, <1>6, <1>7, <1>12 DEF Lost, Live
  <2>2. vdbe[h] # "free" /\ ~OfQuery(h)
    BY <1>6, <1>7, <2>1 DEF OfQuery
  <2> QED  BY <1>1, <1>12, <2>2, LostSame
<1> QED  BY <1>9, <1>10, <1>11, <1>12 DEF Inv

LEMMA ContentsSame ==
  ASSUME Inv, UNCHANGED <<vdbe, data, result, query>>, handle' \in BOOLEAN,
         db' \in {"open", "closed", "busy"}
  PROVE  /\ TypeOK' /\ ResultsOK' /\ HandlesOK' /\ SingleOK'
         /\ \A h \in Handle : Lost(h)' <=> Lost(h)
<1>1. TypeOK' /\ ResultsOK' /\ SingleOK'
  BY DEF Inv, TypeOK, ResultsOK, SingleOK
<1>2. HandlesOK'
  BY DEF Inv, HandlesOK, Mine, OfQuery
<1> QED  BY <1>1, <1>2 DEF Lost, Owners, OfQuery

LEMMA OpenCloseKeeps ==
  ASSUME Inv, Open \/ Close
  PROVE  Kept
<1>1. CASE Open
  <2>1. /\ UNCHANGED <<vdbe, data, result, query>> /\ handle' = TRUE /\ db' = "open"
    BY <1>1 DEF Open
  <2>2. OpenOK' /\ CloseSucceeds'
    BY <2>1 DEF OpenOK, CloseSucceeds
  <2> QED  BY <2>1, <2>2, ContentsSame DEF Kept, Inv
<1>2. CASE Close
  <2>1. /\ UNCHANGED <<vdbe, data, result, query>> /\ handle' = FALSE /\ db = "open"
        /\ DropConnection /\ ~Sending
    BY <1>2 DEF Close, Inv, OpenOK
  <2>2. /\ db' \in {"open", "closed", "busy"}
        /\ query' # NoQuery => db' = "open"
        /\ \A s \in Stmt : data'[s].alive => db' = "open"
        /\ CloseSucceeds'
    <3>1. \A s \in Stmt : data'[s].prepared => data'[s].alive
      BY <2>1, StatementType
    <3>2. query' = NoQuery \/ query'.pc # "none"
      BY <2>1, QueryTypes DEF Inv
    <3> QED  BY <2>1, <3>1, <3>2, DropIs
  <2>3. OpenOK'
    BY <2>1, <2>2 DEF OpenOK, Sending
  <2> QED  BY <2>1, <2>2, <2>3, ContentsSame DEF Kept, Inv
<1> QED  BY <1>1, <1>2

-----------------------------------------------------------------------------
(* The invariant.                                                          *)

LEMMA InitInv == Init => Inv
<1> SUFFICES ASSUME Init PROVE Inv
  OBVIOUS
<1>1. /\ data \in [Stmt -> DataType] /\ vdbe \in [Handle -> Phases]
      /\ \A s \in Stmt : ~data[s].alive /\ ~data[s].prepared /\ ~data[s].executed
      /\ \A s \in Stmt : result[s] = NULL
      /\ result = [s \in Stmt |-> result[s]]
  <2>1. PICK d \in DataType : d = NoData /\ ~d.alive /\ ~d.prepared /\ ~d.executed
    <3>1. /\ NoData \in DataType /\ NoData.alive = FALSE /\ NoData.prepared = FALSE
          /\ NoData.executed = FALSE
      BY DEF NoData, DataType
    <3> QED  BY <3>1
  <2>2. data = [s \in Stmt |-> d]
    BY <2>1 DEF Init
  <2>3. vdbe \in [Handle -> Phases]
    BY DEF Init, NoneLive, Phases
  <2> QED  BY <2>1, <2>2, <2>3 DEF Init
<1>2. query = NoQuery /\ NoQuery.pc = "none" /\ db = "closed" /\ handle = FALSE
  BY DEF Init, NoQuery
<1>3. TypeOK
  BY <1>1, <1>2 DEF TypeOK, DataType
<1>4. ResultsOK
  BY <1>1 DEF ResultsOK, ResultOK
<1>5. HandlesOK
  BY <1>1, <1>2 DEF HandlesOK, Mine
<1>6. OpenOK /\ CloseSucceeds /\ SingleOK
  BY <1>1, <1>2 DEF OpenOK, CloseSucceeds, SingleOK, Sending
<1> QED  BY <1>3, <1>4, <1>5, <1>6 DEF Inv

LEMMA StepKeeps ==
  ASSUME Inv, [Next]_vars
  PROVE  Inv' /\ (Single => \A h \in Handle : Lost(h)' => Lost(h) \/ FailedGone(h))
<1>1. ASSUME NEW s \in Stmt,
             \/ Create(s) \/ Prepare(s) \/ Bind(s) \/ Execute(s) \/ NextRecord(s)
             \/ Reset(s) \/ Finish(s)
      PROVE  Kept
  BY <1>1, CreateKeeps, PrepareKeeps, BindKeeps, ExecuteKeeps, NextRecordKeeps, FinishKeeps
<1>2. CASE \E s \in Stmt : Destroy(s)
  BY <1>2, DestroyKeeps
<1>3. CASE Kept
  BY <1>3 DEF Kept
<1>4. CASE QueryExecute \/ QueryLoop \/ DropQueryResult
  BY <1>4, QueryExecuteKeeps, QueryLoopKeeps, DropQueryResultKeeps
<1>5. CASE UNCHANGED vars
  <2>1. /\ UNCHANGED <<vdbe, data, result, query, db, handle>> /\ handle' \in BOOLEAN
        /\ db' \in {"open", "closed", "busy"}
    BY <1>5 DEF vars, Inv, TypeOK
  <2>2. OpenOK'
    BY <2>1 DEF Inv, OpenOK, Sending
  <2>3. \A h \in Handle : Lost(h)' <=> Lost(h)
    BY <2>1, ContentsSame
  <2>4. CloseSucceeds'
    BY <2>1, <2>3 DEF Inv, CloseSucceeds
  <2> QED  BY <2>1, <2>2, <2>3, <2>4, ContentsSame DEF Inv
<1>6. CASE Next
  <2>1. CASE \E s \in Stmt :
               \/ Create(s) \/ Prepare(s) \/ Bind(s) \/ Execute(s) \/ NextRecord(s)
               \/ Reset(s) \/ Finish(s)
    BY <1>1, <1>3, <2>1
  <2>2. CASE Open \/ Close \/ QueryPrepare \/ \E n \in QueryLengths : SendQuery(n)
    BY <1>3, <2>2, OpenCloseKeeps, QueryPrepareKeeps, SendQueryKeeps
  <2> QED  BY <1>2, <1>4, <1>6, <2>1, <2>2 DEF Next
<1> QED  BY <1>5, <1>6

(* However the calls of an application follow each other, and wherever an  *)
(* error cuts one short: the flags agree with the library, no statement of *)
(* the library has two owners, and whoever is left keeps the connection.   *)
THEOREM Invariance == Spec => []Inv
<1>1. Init => Inv
  BY InitInv
<1>2. Inv /\ [Next]_vars => Inv'
  BY StepKeeps
<1> QED  BY <1>1, <1>2, PTL DEF Spec

(* TypeOK, for any statements: what is marked as prepared has a statement  *)
(* of the library, and what has a result is marked as executed.            *)
THEOREM Typing == Spec => []TypeOK
<1>1. Inv => TypeOK
  BY DEF Inv
<1> QED  BY <1>1, Invariance, PTL

(* CloseSucceeds, for any statements, queries and errors: the destructor   *)
(* of the connection, which can do no more than report that the library    *)
(* refuses to close, is reached only when all statements are finalized, or *)
(* one has been lost.                                                      *)
THEOREM ClosesWhenLeft == Spec => []CloseSucceeds
<1>1. Inv => CloseSucceeds
  BY DEF Inv
<1> QED  BY <1>1, Invariance, PTL

(* RunsOnce, likewise, for results that are read behind their end as well: *)
(* the first step belongs to execute(), nextRecord() does not take it      *)
(* twice, and what runs the statement again is a call behind the end only. *)
THEOREM ReadsWithoutRunning == Spec => []RunsOnce
<1>1. Inv => RunsOnce
  BY DEF Inv, ResultsOK, ResultOK, RunsOnce
<1> QED  BY <1>1, Invariance, PTL

LEMMA OneOwnerAtMost == Inv => OneOwner
<1> SUFFICES ASSUME Inv, NEW h \in Live(vdbe)
             PROVE  Cardinality(Owners(h)) + (IF OfQuery(h) THEN 1 ELSE 0) <= 1
  BY DEF OneOwner
<1>1. h \in Handle
  BY DEF Live
<1>2. CASE Owners(h) = {}
  <2>1. Cardinality(Owners(h)) = 0
    BY <1>2, FS_EmptySet
  <2> QED  BY <2>1
<1>3. CASE Owners(h) # {}
  <2>1. PICK s : s \in Owners(h)
    BY <1>3
  <2>2. Owners(h) = {s}
    BY <2>1 DEF Owners, Inv, HandlesOK
  <2>3. Cardinality(Owners(h)) = 1
    BY <2>2, FS_Singleton
  <2>4. ~OfQuery(h)
    BY <1>1, <2>1 DEF Owners, Mine, Inv, HandlesOK
  <2> QED  BY <2>3, <2>4
<1> QED  BY <1>2, <1>3

(* NoLeak, for any statements, when a sent query holds one SQL statement   *)
(* and does not fail (the second result of a longer one, and an error of   *)
(* its steps, lose statements: MCSQLStatementQuery): of all the errors     *)
(* that may cut a call short, only that of reset() in the destruction of a *)
(* statement loses the library's.                                          *)
THEOREM LosesNoOther == Single => (Spec => NoLeak)
<1> SUFFICES ASSUME Single PROVE Spec => NoLeak
  OBVIOUS
<1>1. Inv /\ [Next]_vars =>
        [OneOwner' /\ \A h \in Handle : Lost(h)' => Lost(h) \/ FailedGone(h)]_vars
  <2> SUFFICES ASSUME Inv, [Next]_vars
               PROVE  OneOwner' /\ \A h \in Handle : Lost(h)' => Lost(h) \/ FailedGone(h)
    OBVIOUS
  <2>1. Inv'
    BY StepKeeps
  <2>2. Inv' => OneOwner'
    BY OneOwnerAtMost, PTL
  <2> QED  BY <2>1, <2>2, StepKeeps
<1> QED  BY <1>1, Invariance, PTL DEF Spec, NoLeak

=============================================================================
