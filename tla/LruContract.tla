---------------------------- MODULE LruContract ----------------------------
(***************************************************************************)
(* What nxcommon/Cache.h promises, without the linked list: a least        *)
(* recently used cache whose held (locked) entries are never dropped.      *)
(*                                                                         *)
(*  - Only the least recently used entry that is not held is evicted, and  *)
(*    only while the cache is larger than the goal of the call running.    *)
(*  - Such a call ends when its goal is reached or only held entries are   *)
(*    left (doc of Cache::free()).                                         *)
(*  - An entry is admitted only into the room there is, unless it is held: *)
(*    then everything that is not held has been evicted first.             *)
(*  - A lookup makes the entry it finds the most recently used one.        *)
(*  - Only the end of the cache drops held entries: those are left of it   *)
(*    that a call which frees everything could not remove.                 *)
(***************************************************************************)
EXTENDS Naturals, SequencesExt

CONSTANTS Key, Sizes, None

VARIABLES
    order,     \* the cached keys, most recently used first
    size,      \* their sizes
    held,      \* the locked ones
    capacity,
    goal,      \* the size the call in progress frees down to, or None
    hit,       \* the key the last call has looked up and found, or None
    alive      \* the cache has not been destroyed

vars == <<order, size, held, capacity, goal, hit, alive>>

Cached == Range(order)

Total == SumFunctionOnSet(size, Cached)

Without(k) == RemoveAt(order, CHOOSE i \in DOMAIN order : order[i] = k)

Forget(k) == size' = [j \in Cached \ {k} |-> size[j]]

Init ==
    /\ order = <<>>
    /\ size = <<>>
    /\ held = {}
    /\ capacity \in Sizes
    /\ goal = None
    /\ hit = None
    /\ alive = TRUE

\* A lookup that finds k.
Touch(k) ==
    /\ goal = None
    /\ k \in Cached
    /\ order' = <<k>> \o Without(k)
    /\ hit' = k
    /\ UNCHANGED <<size, held, capacity, goal>>

Drop(k) ==
    /\ goal = None
    /\ k \in Cached \ held
    /\ order' = Without(k)
    /\ Forget(k)
    /\ hit' = None
    /\ UNCHANGED <<held, capacity, goal>>

\* Any other call that changes nothing: a lookup that finds nothing, a refusal.
Ignore ==
    /\ goal = None
    /\ hit' = None
    /\ UNCHANGED <<order, size, held, capacity, goal>>

\* A call that makes room begins; lock() changes one held status with it.
Begin(g, h) ==
    /\ goal = None
    /\ goal' = g
    /\ hit' = None
    /\ held' = h
    /\ h \subseteq Cached
    /\ h = held \/ \E k \in Cached : h \cup {k} = held \cup {k}
    /\ UNCHANGED <<order, size, capacity>>

LeastRecent(k) ==
    \E i \in DOMAIN order :
        /\ order[i] = k
        /\ k \notin held
        /\ \A j \in DOMAIN order : j > i => order[j] \in held

Evict(k) ==
    /\ goal # None
    /\ Total > goal
    /\ LeastRecent(k)
    /\ order' = Without(k)
    /\ Forget(k)
    /\ UNCHANGED <<held, capacity, goal, hit>>

End ==
    /\ goal # None
    /\ Total <= goal \/ Cached \subseteq held
    /\ goal' = None
    /\ UNCHANGED hit

\* The call only frees (insert() of a value that does not fit, free(), ...).
EndFree == End /\ UNCHANGED <<order, size, held, capacity>>

\* resize(): the new capacity is what was freed down to.
EndResize == End /\ capacity' = goal /\ UNCHANGED <<order, size, held>>

\* insert(): whatever does not fit beside the new entry k is held.
EndAdmit(k, c, hold) ==
    /\ End
    /\ k \notin Cached
    /\ \/ Total + c <= capacity
       \/ hold /\ \A j \in Cached \ held : size[j] = 0
    /\ order' = <<k>> \o order
    /\ size' = [j \in Cached \cup {k} |-> IF j = k THEN c ELSE size[j]]
    /\ held' = IF hold THEN held \cup {k} ELSE held
    /\ UNCHANGED capacity

Destroy ==
    /\ End
    /\ goal = 0
    /\ alive' = FALSE
    /\ order' = <<>>
    /\ size' = <<>>
    /\ held' = {}
    /\ UNCHANGED capacity

Work ==
    \/ \E k \in Key : Touch(k) \/ Drop(k) \/ Evict(k)
    \/ \E g \in Sizes, h \in SUBSET Key : Begin(g, h)
    \/ Ignore \/ EndFree \/ EndResize
    \/ \E k \in Key, c \in Sizes, hold \in BOOLEAN : EndAdmit(k, c, hold)

Next == \/ alive /\ Work /\ UNCHANGED alive
        \/ alive /\ Destroy

Spec == Init /\ [][Next]_vars

=============================================================================
