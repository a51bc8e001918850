-------------------------- MODULE PSQLConnection --------------------------
(***************************************************************************)
(* A PostgreSQL connection (sql/driver/PSQL*.cpp, psqlutils.cpp): a call   *)
(* sends one or more requests, each of which is flushed, answered by       *)
(* results that arrive one by one, and fetched, with a timeout that        *)
(* select() counts down.  One prepared statement and queries; libpq, the   *)
(* network and the server are external.                                    *)
(*                                                                         *)
(* Transactions are left out: no command fails because of another.         *)
(***************************************************************************)
EXTENDS Integers, Sequences

CONSTANTS Timeouts,    \* what setTimeout() gets, in ticks; 0 for none
          MaxResults   \* bound: the SQL statements of one query

ASSUME PSQLAssumption == Timeouts \subseteq Nat /\ MaxResults \in Nat \ {0}

VARIABLES
    plan,       \* the requests of the call in progress, the current one first
    pc,
    last,       \* lastRes
    prepared,   \* SQLPreparedStatement::Data::prepared
    timeLeft,   \* what timeoutPtr points to
    conn,       \* libpq: [busy, in]: a request is under way; what it has read
    wire,       \* the socket: messages the server has sent, and how many are here
    server,     \* the request it has to answer, and whether it knows the name
    up,         \* the connection
    turn,       \* which request is the current one
    returned,   \* the result of the last call, or what it threw
    leaked      \* PGresults nobody clears (at most 2 are counted)

vars == <<plan, pc, last, prepared, timeLeft, conn, wire, server, up, turn, returned, leaked>>
outside == <<wire, server, up>>

None == -1    \* timeoutPtr == NULL
Nothing == "nothing"
NULL == [of |-> "null", turn |-> 0, final |-> FALSE, ok |-> FALSE]
\* What a call throws: an SQLException in general, a TimeoutException, and
\* the SQLException that select() has failed.
TimedOut == [NULL EXCEPT !.of = "timeout"]
SelectFailed == [NULL EXCEPT !.of = "select"]
Thrown == {NULL, TimedOut, SelectFailed}
\* ReadyForQuery: PQgetResult() returns NULL
End == [of |-> "end", turn |-> 0, final |-> FALSE, ok |-> TRUE]
Requests == {"query", "prepare", "describe", "execute", "dealloc"}
Ops == {"query", "prepare", "execute", "finish"}
Result == [of: Requests, turn: {0, 1}, final: BOOLEAN, ok: BOOLEAN]

Init ==
    /\ plan = <<>> /\ pc = "idle" /\ last = NULL /\ returned = NULL
    /\ prepared = FALSE /\ leaked = 0 /\ turn = 0
    /\ timeLeft \in {IF n = 0 THEN None ELSE n : n \in Timeouts}
    /\ conn = [busy |-> FALSE, in |-> <<>>]
    /\ wire = [sent |-> <<>>, here |-> 0]
    /\ server = [todo |-> Nothing, named |-> FALSE]
    /\ up = TRUE

----------------------------------------------------------------------------
(* The call ends with a result, or with an exception; an exception from    *)
(* FlushPSQL() or FetchAsyncPSQLResult() forgets lastRes.                  *)
Ends(res) == pc' = "idle" /\ plan' = <<>> /\ last' = NULL /\ returned' = res

Throws(exception, lost) ==
    /\ Ends(exception)
    /\ leaked' = IF lost # NULL /\ leaked < 2 THEN leaked + 1 ELSE leaked
    /\ UNCHANGED <<prepared, timeLeft, turn>>

(* PQsend*(): libpq refuses while a request is under way, and may have     *)
(* noticed that the connection is gone.                                    *)
Send(requests) ==
    \/ /\ ~conn.busy
       /\ plan' = requests /\ pc' = "flush" /\ last' = NULL
       /\ turn' = 1 - turn
       /\ conn' = [busy |-> TRUE, in |-> <<>>]
       /\ UNCHANGED <<timeLeft, returned, leaked>>
    \/ /\ conn.busy \/ ~up
       /\ Ends(NULL)
       /\ UNCHANGED <<timeLeft, turn, conn, leaked>>

\* Mutant: prepare() does not finish() the statement that is there.
PlanWithoutFinish(op) ==
    CASE op = "prepare" -> <<"prepare", "describe">>
      [] op = "finish" -> <<"dealloc">>
      [] OTHER -> <<op>>

Plan(op) ==
    CASE op = "prepare" /\ prepared -> <<"dealloc", "prepare", "describe">>
      [] op = "prepare" /\ ~prepared -> <<"prepare", "describe">>
      [] op = "finish" -> <<"dealloc">>
      [] OTHER -> <<op>>

(* finish(), which prepare() calls too, clears the flag before it calls    *)
(* the driver.                                                             *)
Call(op) ==
    /\ pc = "idle"
    /\ op \in {"execute", "finish"} => prepared
    /\ Send(Plan(op))
    /\ prepared' = (prepared /\ op \notin {"prepare", "finish"})
    /\ UNCHANGED outside

SetTimeout(n) ==
    /\ pc = "idle"
    /\ timeLeft' = IF n = 0 THEN None ELSE n
    /\ UNCHANGED <<plan, pc, last, prepared, conn, turn, returned, leaked, outside>>

----------------------------------------------------------------------------
(* FlushPSQL(): the request leaves, or PQflush() fails.                    *)
Flush ==
    /\ pc = "flush"
    /\ \/ /\ pc' = "fetch"
          /\ server' = IF up THEN [server EXCEPT !.todo = Head(plan)] ELSE server
          /\ UNCHANGED <<plan, last, prepared, timeLeft, conn, wire, up, turn, returned, leaked>>
       \/ ~up /\ Throws(NULL, last) /\ UNCHANGED <<conn, outside>>

Readable == wire.here > 0 \/ ~up

\* select() waits for room to write, or for something to read.
Blocked == pc = "flush" \/ (pc = "fetch" /\ conn.in = <<>> /\ ~Readable)

\* Mutants: select() never gives up; it counts down from no timeout.
Endless == FALSE
AlsoNone == Blocked /\ timeLeft # 0

Waiting == Blocked /\ timeLeft > 0

(* On Linux select() leaves the time that is left in the timeval, which    *)
(* belongs to the connection.                                              *)
Tick ==
    /\ Waiting
    /\ timeLeft' = timeLeft - 1
    /\ UNCHANGED <<plan, pc, last, prepared, conn, turn, returned, leaked, outside>>

OutOfTime == Blocked /\ timeLeft = 0

TimesOut == OutOfTime /\ Throws(TimedOut, last) /\ UNCHANGED <<conn, outside>>

(* select() may be interrupted by a signal, or fail, whenever it is called:*)
(* the request stays under way, or half sent.                              *)
SelectFails ==
    /\ pc = "flush" \/ (pc = "fetch" /\ conn.in = <<>>)
    /\ Throws(SelectFailed, last)
    /\ UNCHANGED <<conn, outside>>

(* PQconsumeInput(): everything that is here, or an error.                 *)
Consume ==
    /\ pc = "fetch" /\ conn.in = <<>> /\ Readable
    /\ \/ /\ wire.here > 0
          /\ conn' = [conn EXCEPT !.in = SubSeq(wire.sent, 1, wire.here)]
          /\ wire' = [sent |-> SubSeq(wire.sent, wire.here + 1, Len(wire.sent)), here |-> 0]
          /\ UNCHANGED <<plan, pc, last, prepared, timeLeft, server, up, turn, returned, leaked>>
       \/ wire.here = 0 /\ Throws(NULL, last) /\ UNCHANGED <<conn, outside>>

\* Mutants: the first result stays; the one before is not cleared; one
\* result is enough.
First(new) == IF last = NULL THEN new ELSE last
LeftBehind == IF last # NULL /\ leaked < 2 THEN leaked + 1 ELSE leaked
AnyResult == conn.in # <<>> /\ (Head(conn.in) = End \/ last # NULL)

Newest(new) == new
AfterClear == leaked    \* PQclear(lastRes)
NoMoreResults == conn.in # <<>> /\ Head(conn.in) = End

(* PQgetResult(), for as long as it has one.                               *)
GetResult ==
    /\ pc = "fetch" /\ conn.in # <<>> /\ ~NoMoreResults
    /\ last' = Newest(Head(conn.in))
    /\ leaked' = AfterClear
    /\ conn' = [conn EXCEPT !.in = Tail(@)]
    /\ UNCHANGED <<plan, pc, prepared, timeLeft, turn, returned, outside>>

(* The callers look at the status of the last result, except describe's;   *)
(* a query's and an execution's becomes the SQLResult.                     *)
Accepted == plan[1] = "describe" \/ (last # NULL /\ last.ok)

Fetched ==
    /\ pc = "fetch" /\ NoMoreResults
    /\ LET idle == [busy |-> Head(conn.in) # End, in |-> Tail(conn.in)] IN
         IF ~Accepted
         THEN Throws(NULL, NULL) /\ conn' = idle
         ELSE IF Len(plan) = 1
         THEN /\ Ends(last) /\ conn' = idle
              /\ prepared' = (prepared \/ plan[1] = "describe")
              /\ UNCHANGED <<timeLeft, turn, leaked>>
         ELSE \/ /\ plan' = Tail(plan) /\ pc' = "flush" /\ last' = NULL /\ turn' = 1 - turn
                 /\ conn' = [busy |-> TRUE, in |-> <<>>]
                 /\ UNCHANGED <<prepared, timeLeft, returned, leaked>>
              \/ ~up /\ Throws(NULL, NULL) /\ conn' = idle
    /\ UNCHANGED outside

----------------------------------------------------------------------------
(* The server: the results of a request, and the messages that stand for   *)
(* them; a name can be prepared once.                                      *)
Reply(req, ok, n) ==
    [k \in 1..n |-> [of |-> req, turn |-> turn, final |-> k = n, ok |-> k < n \/ ok]] \o <<End>>

MaySucceed(req) ==
    CASE req = "query" -> TRUE
      [] req = "prepare" -> ~server.named
      [] OTHER -> server.named
MayFail(req) == req \in {"query", "prepare", "execute"} \/ ~MaySucceed(req)

Serve ==
    /\ up /\ server.todo # Nothing
    /\ \E ok \in BOOLEAN, n \in 1..(IF server.todo = "query" THEN MaxResults ELSE 1) :
         /\ IF ok THEN MaySucceed(server.todo) ELSE MayFail(server.todo)
         /\ wire' = [wire EXCEPT !.sent = @ \o Reply(server.todo, ok, n)]
         /\ server' = [todo |-> Nothing,
                       named |-> IF ok /\ server.todo = "prepare" THEN TRUE
                                 ELSE IF ok /\ server.todo = "dealloc" THEN FALSE
                                 ELSE server.named]
    /\ UNCHANGED <<plan, pc, last, prepared, timeLeft, conn, up, turn, returned, leaked>>

Arrive ==
    /\ wire.here < Len(wire.sent)
    /\ wire' = [wire EXCEPT !.here = @ + 1]
    /\ UNCHANGED <<plan, pc, last, prepared, timeLeft, conn, server, up, turn, returned, leaked>>

(* The connection breaks: what is not here is lost, with the server's names. *)
Break ==
    /\ up /\ up' = FALSE
    /\ wire' = [wire EXCEPT !.sent = SubSeq(@, 1, wire.here)]
    /\ server' = [todo |-> Nothing, named |-> FALSE]
    /\ UNCHANGED <<plan, pc, last, prepared, timeLeft, conn, turn, returned, leaked>>

Client == Flush \/ TimesOut \/ SelectFails \/ Consume \/ GetResult \/ Fetched

Next ==
    \/ \E op \in Ops : Call(op)
    \/ \E n \in Timeouts : SetTimeout(n)
    \/ Client \/ Tick \/ Serve \/ Arrive \/ Break

(* The thread of the call runs on, and time passes for it.  Flush is the   *)
(* network's: it may never take the request.  That select() fails is left  *)
(* to chance.                                                              *)
Spec == Init /\ [][Next]_vars
        /\ WF_vars(TimesOut \/ Consume \/ GetResult \/ Fetched) /\ WF_vars(Tick)

----------------------------------------------------------------------------
TypeOK ==
    /\ plan \in Seq(Requests) /\ pc \in {"idle", "flush", "fetch"} /\ (pc = "idle" <=> plan = <<>>)
    /\ last \in Result \cup {NULL} /\ returned \in Result \cup Thrown
    /\ prepared \in BOOLEAN /\ timeLeft \in Nat \cup {None}
    /\ conn.busy \in BOOLEAN /\ wire.here \in 0..Len(wire.sent)

(* A call returns the last result of its own request, never an earlier one *)
(* nor the answer to a request that timed out (FetchAsyncPSQLResult()).    *)
OwnAnswer == pc = "idle" /\ returned \notin Thrown /\ ~conn.busy
    => returned.turn = turn /\ returned.final /\ returned.ok

(* A step that ends a call leaves the connection ready for the next one,   *)
(* whether it returns a result or throws what the server has answered.     *)
(* Only a TimeoutException, a failure of select(), or a connection that is *)
(* gone leave a request under way.                                         *)
ReadyAgain == [][ pc # "idle" /\ pc' = "idle" /\ up /\ returned' \notin {TimedOut, SelectFailed}
                    => ~conn'.busy ]_vars

(* While the connection can be used, the server knows the statement's name *)
(* if and only if the facade thinks it prepared: prepare() then does not   *)
(* run into "already exists", and execute() finds the name.                *)
NamesAgree == pc = "idle" /\ up /\ ~conn.busy => (prepared <=> server.named)

(* An exception of FlushPSQL() or FetchAsyncPSQLResult() loses at most one *)
(* PGresult, because nothing can be sent on the connection afterwards.     *)
LosesAtMostOne == leaked <= 1 /\ (leaked = 1 => conn.busy)

(* With a timeout every call ends, whatever the server does; without one,  *)
(* if the server and the network do their part.                            *)
CallsEnd ==
    /\ (pc # "idle" /\ timeLeft # None) ~> (pc = "idle")
    /\ WF_vars(Flush) /\ WF_vars(Serve) /\ WF_vars(Arrive) => (pc # "idle" ~> pc = "idle")
=============================================================================
