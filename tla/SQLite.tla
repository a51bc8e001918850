------------------------------- MODULE SQLite -------------------------------
(***************************************************************************)
(* The statements of one connection of the SQLite library (sql/driver/     *)
(* sqlite3.c): what the driver's calls do to a statement and when they     *)
(* fail.  A statement is "ready" to run, stands on a "row", is "done", has *)
(* "failed", or does not exist ("free").  The operators map the function   *)
(* from statements to phases, so that a caller can make several calls.     *)
(***************************************************************************)
EXTENDS Naturals, FiniteSets

CONSTANTS Handle   \* bound: the statements that exist at a time

Phases == {"free", "ready", "row", "done", "failed"}
Outcomes == {"row", "done", "failed"}

NoneLive == [h \in Handle |-> "free"]
Live(v) == {h \in Handle : v[h] # "free"}

(* sqlite3_prepare_v2() makes a statement of any free piece of memory.     *)
PrepareV2(v, h) == [v EXCEPT ![h] = "ready"]

(* sqlite3_step(): a statement that is done or has failed is reset first,  *)
(* so that it runs again from its beginning.                               *)
Step(v, h, outcome) == [v EXCEPT ![h] = outcome]
Runs(v, h) == v[h] # "row"

(* sqlite3_reset() always rewinds, and returns the error of the last step. *)
ResetStmt(v, h) == [v EXCEPT ![h] = "ready"]
ResetFails(v, h) == v[h] = "failed"

FinalizeStmt(v, h) == [v EXCEPT ![h] = "free"]

(* sqlite3_bind_*() refuse a statement that has been stepped (MISUSE).     *)
BindFails(v, h) == v[h] # "ready"

(* sqlite3_close() refuses while statements are left (BUSY).               *)
Closed(v) == IF Live(v) = {} THEN "closed" ELSE "busy"
=============================================================================
