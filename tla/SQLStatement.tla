---------------------------- MODULE SQLStatement ----------------------------
(***************************************************************************)
(* SQLPreparedStatement, SQLResult and SQLDatabase (sql/) on the SQLite    *)
(* driver (sql/driver/SQLite*.cpp).  A call of the facade is a sequence of *)
(* calls of the driver, which an exception cuts short; sendQuery() is      *)
(* taken apart into its steps.                                             *)
(*                                                                         *)
(* The caller executes only prepared statements and reads only the newest  *)
(* result of a statement.                                                  *)
(***************************************************************************)
EXTENDS SQLite

CONSTANTS Stmt, NULL,
          QueryLengths,   \* how many SQL statements a sent query may have
          UTF8,           \* whether it is sent by sendQueryUTF8()
          LateErrors,     \* whether a step after the first may fail
          QueryErrors     \* whether a sent query may fail

ASSUME LengthsAssumption == QueryLengths \subseteq Nat \ {0}

VARIABLES
    db,       \* the connection: "open", "closed", or "busy" when it failed to close
    handle,   \* whether the application holds an SQLDatabase
    vdbe,     \* by library statement: its phase
    data,     \* by statement: SQLPreparedStatement::Data, with the driver's stmt
    result,   \* by statement: its newest SQLResult
    query     \* the sendQuery() in progress, then its result

vars == <<db, handle, vdbe, data, result, query>>

NoData == [alive |-> FALSE, prepared |-> FALSE, executed |-> FALSE, stmt |-> NULL]
NoQuery == [pc |-> "none"]
Sending == query.pc \in {"prepare", "execute", "loop"}

(* The flags say what the library's statement has been through.            *)
TypeOK ==
    /\ db \in {"open", "closed", "busy"} /\ handle \in BOOLEAN
    /\ vdbe \in [Handle -> Phases]
    /\ data \in [Stmt -> [alive : BOOLEAN, prepared : BOOLEAN, executed : BOOLEAN,
                          stmt : Handle \cup {NULL}]]
    /\ \A s \in Stmt :
         /\ data[s].prepared => data[s].alive /\ data[s].stmt \in Live(vdbe)
         /\ data[s].executed => data[s].prepared
         /\ result[s] # NULL => data[s].executed
    /\ query.pc \in {"none", "prepare", "execute", "loop", "result"}

Init ==
    /\ db = "closed" /\ handle = FALSE
    /\ vdbe = NoneLive
    /\ data = [s \in Stmt |-> NoData]
    /\ result = [s \in Stmt |-> NULL]
    /\ query = NoQuery

\* Mutant: only the application's SQLDatabase keeps the connection.
ClosedWithHandle == db' = IF handle' THEN db ELSE Closed(vdbe')

(* Whoever drops the last reference to the connection closes it.           *)
DropConnection ==
    db' = IF handle' \/ (\E s \in Stmt : data'[s].alive) \/ query'.pc # "none"
          THEN db ELSE Closed(vdbe')

Open ==
    /\ db = "closed"
    /\ db' = "open" /\ handle' = TRUE
    /\ UNCHANGED <<vdbe, data, result, query>>

Close ==
    /\ handle /\ ~Sending
    /\ handle' = FALSE
    /\ UNCHANGED <<vdbe, data, result, query>>
    /\ DropConnection

-----------------------------------------------------------------------------
(* A call on statement s: the library's statements, the flags, and whether *)
(* an exception has ended it.                                              *)
Call(s) == [v |-> vdbe, d |-> data[s], throws |-> FALSE]

ResetExecuted(c) ==
    IF c.d.executed
    THEN [v |-> ResetStmt(c.v, c.d.stmt), d |-> [c.d EXCEPT !.executed = FALSE],
          throws |-> ResetFails(c.v, c.d.stmt)]
    ELSE c

\* Mutant: finish() leaves the statement marked as prepared.
StillPrepared(c) == IF c.d.prepared THEN [c EXCEPT !.v = FinalizeStmt(@, c.d.stmt)] ELSE c

\* Mutant: finish() clears the flags before it resets the statement.
ClearedFirst(d) == [d EXCEPT !.prepared = FALSE, !.executed = FALSE]

KeptByThrow(d) == d

(* If reset() throws, the flags stay and finish() can be called again.     *)
Finished(c) ==
    LET h == c.d.stmt IN
    IF ~c.d.prepared THEN c
    ELSE IF c.d.executed /\ ResetFails(c.v, h)
         THEN [v |-> ResetStmt(c.v, h), d |-> KeptByThrow(c.d), throws |-> TRUE]
         ELSE [c EXCEPT !.v = FinalizeStmt(@, h),
                        !.d = [@ EXCEPT !.prepared = FALSE, !.executed = FALSE]]

Ends(s, c, res) ==
    /\ vdbe' = c.v
    /\ data' = [data EXCEPT ![s] = c.d]
    /\ result' = [result EXCEPT ![s] = res]
    /\ UNCHANGED <<db, handle, query>>

Callable(s) == data[s].alive /\ ~Sending

Create(s) ==
    /\ handle /\ ~data[s].alive /\ ~Sending
    /\ Ends(s, [v |-> vdbe, d |-> [NoData EXCEPT !.alive = TRUE]], NULL)

(* The library refuses the SQL, or the driver because there is more than   *)
(* one statement; in both cases no statement is left.                      *)
Prepare(s) ==
    /\ Callable(s)
    /\ LET c == Finished(Call(s)) IN
         \/ Ends(s, IF c.throws THEN c ELSE [c EXCEPT !.d.stmt = NULL], NULL)
         \/ /\ ~c.throws
            /\ \E h \in Handle \ Live(c.v) :
                 Ends(s, [c EXCEPT !.v = PrepareV2(@, h), !.d.prepared = TRUE, !.d.stmt = h],
                      NULL)

(* ensureBindable(); the binding itself changes no state modelled here.    *)
Bind(s) ==
    /\ Callable(s) /\ data[s].prepared
    /\ Ends(s, ResetExecuted(Call(s)), NULL)

FlagExecuted(d, outcome) == [d EXCEPT !.executed = outcome # "failed"]

Execute(s) ==
    /\ Callable(s) /\ data[s].prepared
    /\ LET c == ResetExecuted(Call(s)) IN
         \/ c.throws /\ Ends(s, c, NULL)
         \/ /\ ~c.throws
            /\ \E outcome \in Outcomes :
                 Ends(s, [c EXCEPT !.v = Step(@, c.d.stmt, outcome),
                                   !.d = FlagExecuted(@, outcome)],
                      IF outcome = "failed" THEN NULL
                      ELSE [firstStep |-> TRUE, firstStepHasData |-> outcome = "row",
                            at |-> "begin", ended |-> FALSE, failed |-> FALSE, runs |-> 1])

\* Mutant: the first record is announced whether there is one or not.
AlwaysData(r) == TRUE

HasData(r) == r.firstStepHasData

\* What nextRecord() has returned.
Told(r, found) == [r EXCEPT !.at = IF found THEN "record" ELSE "end",
                            !.ended = @ \/ ~found]

(* The first step was taken by execute().  Later ones: what is not DONE    *)
(* counts as a record.  Nothing keeps a call from stepping a statement     *)
(* whose end nextRecord() has returned already.                            *)
NextRecord(s) ==
    /\ Callable(s) /\ result[s] # NULL
    /\ LET r == result[s]
           h == data[s].stmt
       IN
         IF r.firstStep
         THEN Ends(s, Call(s), [Told(r, HasData(r)) EXCEPT !.firstStep = FALSE])
         ELSE \E outcome \in Outcomes :
                /\ outcome = "failed" => LateErrors
                /\ Ends(s, [Call(s) EXCEPT !.v = Step(@, h, outcome)],
                        [Told(r, outcome # "done") EXCEPT
                            !.failed = @ \/ outcome = "failed",
                            !.runs = IF Runs(vdbe, h) THEN 2 ELSE @])

Reset(s) ==
    /\ Callable(s) /\ data[s].prepared /\ data[s].executed
    /\ Ends(s, ResetExecuted(Call(s)), NULL)

Finish(s) ==
    /\ Callable(s) /\ data[s].prepared
    /\ Ends(s, Finished(Call(s)), NULL)

(* ~Data(): an exception of reset() skips finalize().                      *)
Destroyed(c) == Finished(c).v

Destroy(s) ==
    /\ Callable(s)
    /\ vdbe' = Destroyed(Call(s))
    /\ data' = [data EXCEPT ![s] = NoData]
    /\ result' = [result EXCEPT ![s] = NULL]
    /\ UNCHANGED <<handle, query>>
    /\ DropConnection

-----------------------------------------------------------------------------
(* sendQuery() creates a driver statement `stmt', and gives it to the      *)
(* first result as its ownedStmt.                                          *)
SendQuery(n) ==
    /\ handle /\ query = NoQuery
    /\ query' = [pc |-> "prepare", length |-> n, left |-> n, stmt |-> NULL,
                 owned |-> FALSE, deleted |-> FALSE, usedDeleted |-> FALSE]
    /\ UNCHANGED <<db, handle, vdbe, data, result>>

Used(q) == [q EXCEPT !.usedDeleted = @ \/ q.deleted]

QueryPrepare ==
    /\ query.pc = "prepare"
    /\ \/ QueryErrors /\ query' = NoQuery /\ UNCHANGED vdbe
       \/ \E h \in Handle \ Live(vdbe) :
            /\ vdbe' = PrepareV2(vdbe, h)
            /\ query' = [Used(query) EXCEPT !.pc = "execute", !.stmt = h, !.left = @ - 1]
    /\ UNCHANGED <<db, handle, data, result>>

OwnsStmt(q) == q.left + 1 = q.length

(* An exception leaves `stmt' and the library's statement behind.          *)
QueryExecute ==
    /\ query.pc = "execute"
    /\ \E outcome \in Outcomes :
         /\ outcome = "failed" => QueryErrors
         /\ vdbe' = Step(vdbe, query.stmt, outcome)
         /\ query' = IF outcome = "failed" THEN NoQuery
                     ELSE [Used(query) EXCEPT !.pc = "loop", !.owned = OwnsStmt(query)]
    /\ UNCHANGED <<db, handle, data, result>>

\* Mutant: the loop looks at the pointer to the rest, not at the rest.
NeverEnds(q) == TRUE

CodeLeft(q) == UTF8 \/ q.left > 0

(* ~SQLiteResultImpl() finalizes and deletes the statement it owns.        *)
DeleteResult(v) == IF query.owned THEN FinalizeStmt(v, query.stmt) ELSE v

(* sendQueryUTF8() starts over with the whole query.                       *)
QueryLoop ==
    /\ query.pc = "loop"
    /\ IF CodeLeft(query)
       THEN /\ vdbe' = DeleteResult(vdbe)
            /\ query' = [query EXCEPT !.pc = "prepare", !.deleted = @ \/ query.owned,
                                      !.left = IF UTF8 THEN query.length ELSE @]
       ELSE query' = [query EXCEPT !.pc = "result"] /\ UNCHANGED vdbe
    /\ UNCHANGED <<db, handle, data, result>>

DropQueryResult ==
    /\ query.pc = "result"
    /\ vdbe' = DeleteResult(vdbe)
    /\ query' = NoQuery
    /\ UNCHANGED <<handle, data, result>>
    /\ DropConnection

Next ==
    \/ Open \/ Close
    \/ \E s \in Stmt :
         \/ Create(s) \/ Prepare(s) \/ Bind(s) \/ Execute(s) \/ NextRecord(s)
         \/ Reset(s) \/ Finish(s) \/ Destroy(s)
    \/ \E n \in QueryLengths : SendQuery(n)
    \/ QueryPrepare \/ QueryExecute \/ QueryLoop \/ DropQueryResult

Spec == Init /\ [][Next]_vars

-----------------------------------------------------------------------------
(* Every library statement belongs to a prepared statement of the facade   *)
(* or to a query, so that somebody is left to finalize it; no two share    *)
(* one.  Only the destruction of a statement whose last step failed may    *)
(* lose one, when the exception of reset() skips finalize().               *)
Owners(h) == {s \in Stmt : data[s].prepared /\ data[s].stmt = h}
OfQuery(h) ==
    query.pc \in {"execute", "loop", "result"} /\ query.stmt = h
    /\ (query.pc = "result" => query.owned)
Lost(h) == h \in Live(vdbe) /\ Owners(h) = {} /\ ~OfQuery(h)
FailedGone(h) == \E s \in Owners(h) : data[s].executed /\ vdbe[h] = "failed"
                                      /\ ~data'[s].alive
OneOwner == \A h \in Live(vdbe) : Cardinality(Owners(h)) + (IF OfQuery(h) THEN 1 ELSE 0) <= 1
NoLeak == [][OneOwner' /\ \A h \in Handle : Lost(h)' => Lost(h) \/ FailedGone(h)]_vars

(* The connection closes when the last reference to it is dropped: unless  *)
(* one was lost, the destructor's sqlite3_close() finds all statements     *)
(* finalized.                                                              *)
CloseSucceeds == db = "busy" => \E h \in Handle : Lost(h)

(* Until nextRecord() has returned false, a statement has run once since   *)
(* execute(), however its result is read; and whenever nextRecord() has    *)
(* returned true, at the end and behind it too, there is a record to read: *)
(* all that unless a later step failed.                                    *)
RunsOnce == \A s \in Stmt :
    result[s] # NULL /\ ~result[s].failed =>
        /\ result[s].runs = 1 \/ result[s].ended
        /\ result[s].at = "record" => vdbe[data[s].stmt] = "row"

(* A statement that has come to its end is not stepped again without a     *)
(* reset, as the library's header demands: its result does not run it.     *)
NeverRunsAgain == \A s \in Stmt : result[s] # NULL => result[s].runs = 1

(* After ensureBindable() the library accepts a bound value.               *)
Bindable == \A s \in Stmt :
    data[s].prepared /\ ~data[s].executed => ~BindFails(vdbe, data[s].stmt)

(* sendQuery() does not use the statement that it deleted with a result.   *)
NotDeleted == query # NoQuery => ~query.usedDeleted
=============================================================================
