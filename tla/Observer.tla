------------------------------ MODULE Observer ------------------------------
(***************************************************************************)
(* Observable and Observer (Observer.h): an observable keeps a list of its *)
(* observers under a mutex, an observer a pointer back to its observable.  *)
(* notify() copies the list and calls the observers outside the mutex, so  *)
(* that callbacks, and other threads, may attach, detach, notify and       *)
(* destroy meanwhile.                                                      *)
(*                                                                         *)
(* Sections that hold the mutex are one step each: no section contains     *)
(* another.  The back pointer is read and written outside of them, at      *)
(* steps of its own.                                                       *)
(*                                                                         *)
(* What the caller has to see to, because the code does not: an observer   *)
(* is not destroyed while a notification still has it to call, and no      *)
(* notification begins while its observer's destructor runs (notify()      *)
(* reads the observers it has copied); an observer is detached by one      *)
(* thread at a time; an observable is destroyed while no other thread is   *)
(* inside it.                                                              *)
(***************************************************************************)
EXTENDS Naturals, SequencesExt

CONSTANTS Thread, Observables, Observers,
          NULL,
          MaxDepth    \* bound: calls a thread may have in progress

ASSUME NullAssumption == NULL \notin Observables
ASSUME DisjointAssumption == Observables \cap Observers = {}

VARIABLES
    alive,      \* the objects that exist
    observers,  \* Observable::observers
    obsv,       \* Observer::obsv
    stack       \* by thread: the calls in progress, the innermost first

vars == <<alive, observers, obsv, stack>>

Notification == [call : {"notify"}, on : Observables, todo : Seq(Observers),
                 at : {"next", "callback", "called"}]
Change == [call : {"attach", "unlink", "clear"}, on : Observables,
           who : Observers, destroys : BOOLEAN]

(* Each array has its type, at every moment.                               *)
TypeOK ==
    /\ alive \subseteq Observables \cup Observers
    /\ observers \in [Observables -> Seq(Observers)]
    /\ obsv \in [Observers -> Observables \cup {NULL}]
    /\ stack \in [Thread -> Seq(Notification \cup Change)]

Frames(t) == ToSet(stack[t])
Changing(o) == \E t \in Thread : \E f \in Frames(t) :
                    f.call # "notify" /\ f.who = o
Dying(o) == \E t \in Thread : \E f \in Frames(t) :
                    f.call # "notify" /\ f.who = o /\ f.destroys
Awaited(o) == \E t \in Thread : \E f \in Frames(t) :
                    f.call = "notify" /\ o \in ToSet(f.todo)

(* Client code runs outside every call, or in a callback (which makes one  *)
(* call at most).                                                          *)
Client(t) == stack[t] # <<>> => LET f == Head(stack[t]) IN
                                f.call = "notify" /\ f.at = "callback"

Inner(t, call) == stack[t] # <<>> /\ Head(stack[t]).call = call

(* The stack of t while a call is made: the callback that makes it has had *)
(* its turn.                                                               *)
Calling(t) == IF stack[t] = <<>> THEN <<>>
              ELSE <<[Head(stack[t]) EXCEPT !.at = "called"]>> \o Tail(stack[t])
Called(t) == stack' = [stack EXCEPT ![t] = Calling(t)]
Push(t, f) == /\ Len(stack[t]) < MaxDepth
              /\ stack' = [stack EXCEPT ![t] = <<f>> \o Calling(t)]
Pop(t) == stack' = [stack EXCEPT ![t] = Tail(@)]
Step(t, f) == stack' = [stack EXCEPT ![t] = <<f>> \o Tail(@)]

Init ==
    /\ alive = Observables
    /\ observers = [x \in Observables |-> <<>>]
    /\ obsv = [o \in Observers |-> NULL]
    /\ stack = [t \in Thread |-> <<>>]

-----------------------------------------------------------------------------
(* Observer(ObservableType*, callback)                                     *)
Construct(t, o, x) ==
    /\ Client(t) /\ o \notin alive /\ x \in alive
    /\ alive' = alive \cup {o}
    /\ obsv' = [obsv EXCEPT ![o] = x]
    /\ Push(t, [call |-> "attach", on |-> x, who |-> o, destroys |-> FALSE])
    /\ UNCHANGED observers

AddObserver(t) ==
    /\ Inner(t, "attach")
    /\ LET f == Head(stack[t]) IN
         observers' = [observers EXCEPT ![f.on] = Append(@, f.who)]
    /\ Pop(t)
    /\ UNCHANGED <<alive, obsv>>

(* detach(), and the destructor, which calls it                            *)
\* Mutant: without the test of detach().
AlwaysAttached(o) == TRUE

Attached(o) == obsv[o] # NULL

Leave(t, o, destroys) ==
    /\ Client(t) /\ o \in alive /\ ~Changing(o)
    /\ destroys => ~Awaited(o)
    /\ IF Attached(o)
       THEN /\ Push(t, [call |-> "unlink", on |-> obsv[o], who |-> o,
                        destroys |-> destroys])
            /\ UNCHANGED alive
       ELSE /\ Called(t)
            /\ alive' = IF destroys THEN alive \ {o} ELSE alive
    /\ UNCHANGED <<observers, obsv>>

RemoveObserver(t) ==
    /\ Inner(t, "unlink")
    /\ LET f == Head(stack[t]) IN
         /\ observers' = [observers EXCEPT ![f.on] = RemoveFirst(@, f.who)]
         /\ Step(t, [f EXCEPT !.call = "clear"])
    /\ UNCHANGED <<alive, obsv>>

Left(t) ==
    /\ Inner(t, "clear")
    /\ LET f == Head(stack[t]) IN
         /\ obsv' = [obsv EXCEPT ![f.who] = NULL]
         /\ alive' = IF f.destroys THEN alive \ {f.who} ELSE alive
    /\ Pop(t)
    /\ UNCHANGED observers

-----------------------------------------------------------------------------
(* Observable::notify()                                                    *)
Notify(t, x) ==
    /\ Client(t) /\ x \in alive
    /\ ~\E o \in ToSet(observers[x]) : Dying(o)
    /\ Push(t, [call |-> "notify", on |-> x, todo |-> observers[x], at |-> "next"])
    /\ UNCHANGED <<alive, observers, obsv>>

(* The observer to call is looked at ...                                   *)
\* Mutant: notify() without looking at the back pointer.
CallsAll(f) == TRUE

Calls(f) == obsv[Head(f.todo)] = f.on

CheckObserver(t) ==
    /\ Inner(t, "notify")
    /\ LET f == Head(stack[t]) IN
         /\ f.at = "next" /\ f.todo # <<>>
         /\ Step(t, IF Calls(f) THEN [f EXCEPT !.at = "callback"]
                    ELSE [f EXCEPT !.todo = Tail(@)])
    /\ UNCHANGED <<alive, observers, obsv>>

(* ... and its callback has returned.                                      *)
\* Mutant: notify() begins again with the list as it is after a callback.
RemainingOfList(f) == observers[f.on]

\* Mutant: notify() does not go on to the next observer.
SameAgain(f) == f.todo

Remaining(f) == Tail(f.todo)

CallbackReturns(t) ==
    /\ Inner(t, "notify")
    /\ LET f == Head(stack[t]) IN
         /\ f.at # "next"
         /\ Step(t, [f EXCEPT !.at = "next", !.todo = Remaining(f)])
    /\ UNCHANGED <<alive, observers, obsv>>

NotifyReturns(t) ==
    /\ Inner(t, "notify")
    /\ Head(stack[t]).at = "next" /\ Head(stack[t]).todo = <<>>
    /\ Pop(t)
    /\ UNCHANGED <<alive, observers, obsv>>

(* ~Observable(), possibly in a callback of its own notification           *)
\* Mutants: only the first observer is told, or none.
OnlyFirst(x) == {o \in Observers : observers[x] # <<>> /\ o = Head(observers[x])}
Nobody(x) == {}

Forgotten(x) == {o \in Observers : o \in ToSet(observers[x])}

Destroy(t, x) ==
    /\ Client(t) /\ x \in alive
    /\ \A s \in Thread : \A f \in Frames(s) :
            f.on = x => s = t /\ f.call = "notify"
    /\ obsv' = [o \in Observers |-> IF o \in Forgotten(x) THEN NULL ELSE obsv[o]]
    /\ alive' = alive \ {x}
    /\ observers' = [observers EXCEPT ![x] = <<>>]
    /\ Called(t)

(* A new observable, possibly where a destroyed one was                    *)
Create(t, x) ==
    /\ Client(t) /\ x \in Observables \ alive
    /\ alive' = alive \cup {x}
    /\ Called(t)
    /\ UNCHANGED <<observers, obsv>>

Continue(t) == \/ AddObserver(t) \/ RemoveObserver(t) \/ Left(t)
               \/ CheckObserver(t) \/ CallbackReturns(t) \/ NotifyReturns(t)

Next == \E t \in Thread :
    \/ Continue(t)
    \/ \E o \in Observers, x \in Observables : Construct(t, o, x)
    \/ \E o \in Observers, d \in BOOLEAN : Leave(t, o, d)
    \/ \E x \in Observables : Notify(t, x) \/ Destroy(t, x) \/ Create(t, x)

(* A thread in a call goes on; callbacks return.                           *)
Spec == Init /\ [][Next]_vars /\ \A t \in Thread : WF_vars(Continue(t))

-----------------------------------------------------------------------------
(* The list and the back pointers agree: whoever is listed exists, is      *)
(* listed once and points back (or has just been told to go), and whoever  *)
(* points to an observable points to one that exists and lists it, but for *)
(* the moments in which it is attached or detached.                        *)
PointersAgree ==
    /\ \A x \in Observables :
         /\ IsInjective(observers[x])
         /\ \A o \in ToSet(observers[x]) : x \in alive /\ o \in alive /\ obsv[o] = x
    /\ \A o \in Observers : obsv[o] # NULL =>
         /\ o \in alive /\ obsv[o] \in alive
         /\ Contains(observers[obsv[o]], o) \/ Changing(o)

(* No step is about to use an object that is gone: an observable of an     *)
(* addObserver() or removeObserver(), or an observer of a notification,    *)
(* even of one whose observable was destroyed in a callback.               *)
NoDeadAccess == \A t \in Thread : \A f \in Frames(t) :
    /\ f.call \in {"attach", "unlink"} => f.on \in alive
    /\ f.call = "clear" => f.who \in alive
    /\ f.call = "notify" => ToSet(f.todo) \subseteq alive

\* o observes x, or is just being attached to it or detached from it.
Connected(x, o) ==
    /\ {x, o} \subseteq alive /\ obsv[o] = x
    /\ Contains(observers[x], o) \/ Changing(o)

(* A notification calls an observer only while the two are connected, and  *)
(* calls none twice: who has been called is not among those still to call, *)
(* and these are never more than they were.                                *)
CallsOnce(t) ==
    LET f == Head(stack[t])
        g == Head(stack'[t])
    IN  (/\ stack[t] # <<>> /\ Len(stack'[t]) = Len(stack[t])
         /\ f.call = "notify" /\ g.call = "notify")
        => /\ IsSuffix(g.todo, f.todo)
           /\ f.at # "next" /\ g.at = "next" => Head(f.todo) \notin ToSet(g.todo)
           /\ g.at = "callback" =>
                \/ g = f
                \/ f.at = "next" /\ g.todo = f.todo /\ Connected(f.on, Head(f.todo))

CalledOnce == [][\A t \in Thread : CallsOnce(t)]_vars

(* Every call returns to the client, whatever its callbacks attach, detach *)
(* or destroy.                                                             *)
CallsReturn == \A t \in Thread : stack[t] # <<>> ~> stack[t] = <<>>
=============================================================================
