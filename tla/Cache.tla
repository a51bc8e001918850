------------------------------- MODULE Cache -------------------------------
(***************************************************************************)
(* nxcommon/Cache.h: an LRU cache of owned values with lockable entries.   *)
(*                                                                         *)
(* The entries of the unordered_map are also the nodes of a doubly linked  *)
(* list, most recently used first.  The list is modelled by its pointers   *)
(* (first, last, and the fields prev and next of every entry), because the *)
(* order of the pointer assignments is what can go wrong here.             *)
(*                                                                         *)
(* free(), which insert(), lock(), resize(), clear() and the destructor    *)
(* call, is a loop: it runs as one step per iteration, with the call in    *)
(* progress and the loop's cursor in the variable `call'.  Nothing else    *)
(* runs while a call is in progress (the class is not thread-safe).        *)
(*                                                                         *)
(* A definition whose name starts with Bad is a fault that could have been *)
(* made in the definition below it; the specification does not use it.     *)
(***************************************************************************)
EXTENDS Integers, FiniteSets, Functions

CONSTANTS
    Key,         \* the keys of the map
    Value,       \* the objects a V* can point to
    NULL,        \* the null pointer
    Sizes,       \* the entry sizes and capacities callers use
    MaxSize      \* the largest cachesize_t (unsigned int)

ASSUME NullAssumption == NULL \notin Key /\ NULL \notin Value /\ NULL \notin 0..MaxSize
ASSUME SizesAssumption == MaxSize \in Nat /\ Sizes \subseteq 0..MaxSize

VARIABLES
    entries,     \* the keys that are in the map
    vPtr, cost, locked, prev, next,   \* the fields of Entry, by key
    first, last, \* the ends of the list
    capacity, occupied,
    live,        \* the values handed over to the cache and not yet deleted
    call,        \* the public call in progress and its locals
    ret          \* what the last public call returned

links    == <<prev, next, first, last>>
fields   == <<vPtr, cost, locked>>
contents == <<entries, fields, links, occupied>>
vars     == <<contents, capacity, live, call, ret>>

-----------------------------------------------------------------------------
(* Types.  A field of a key outside the map has its null value.            *)

KeyOrNull   == Key \cup {NULL}
ValueOrNull == Value \cup {NULL}
cachesize_t == 0..MaxSize

Functions == {"none", "insert", "free", "lock", "resize", "destroy", "gone"}

Call == [fn     : Functions,
         key    : KeyOrNull,      \* the arguments of the call ...
         value  : ValueOrNull,
         size   : cachesize_t,
         lock   : BOOLEAN,
         target : cachesize_t,    \* ... the argument of free() ...
         cur    : KeyOrNull,      \* ... its local `entry' ...
         over   : BOOLEAN]        \* ... and lock()'s local `wasOverfilled'

NoCall == [fn |-> "none", key |-> NULL, value |-> NULL, size |-> 0,
           lock |-> FALSE, target |-> 0, cur |-> NULL, over |-> FALSE]

Answer(f, k, r) == [fn |-> f, key |-> k, res |-> r]
NoAnswer        == Answer("none", NULL, NULL)

Init ==
    /\ entries = {}
    /\ vPtr = [k \in Key |-> NULL]
    /\ cost = [k \in Key |-> 0]
    /\ locked = [k \in Key |-> FALSE]
    /\ prev = [k \in Key |-> NULL]
    /\ next = [k \in Key |-> NULL]
    /\ first = NULL
    /\ last = NULL
    /\ capacity \in Sizes
    /\ occupied = 0
    /\ live = {}
    /\ call = NoCall
    /\ ret = NoAnswer

Idle  == call.fn = "none"
Alive == call.fn # "gone"

BadOverfilled == occupied >= capacity
Overfilled    == occupied > capacity

\* Unsigned arithmetic.
Wrapped(n) == n % (MaxSize + 1)

-----------------------------------------------------------------------------
(* The list: what the other entries' pointers are once k is unlinked.      *)

BadNextWithout(k) == next
NextWithout(k) ==
    IF prev[k] = NULL THEN next ELSE [next EXCEPT ![prev[k]] = next[k]]
PrevWithout(k) ==
    IF next[k] = NULL THEN prev ELSE [prev EXCEPT ![next[k]] = prev[k]]

\* access(): a hit makes k the most recently used entry.
BadMoveToFront(k) == UNCHANGED links
MoveToFront(k) ==
    IF k = first
    THEN UNCHANGED links
    ELSE /\ next'  = [NextWithout(k) EXCEPT ![k] = first]
         /\ prev'  = [PrevWithout(k) EXCEPT ![k] = NULL, ![first] = k]
         /\ last'  = IF k = last THEN prev[k] ELSE last
         /\ first' = k

\* remove(Entry&) of an unlocked entry: unlink it, delete its value, erase it.
BadRemovable(k) == TRUE
Removable(k)    == ~locked[k]

BadOccupiedWithout(k) == occupied
OccupiedWithout(k)    == Wrapped(occupied - cost[k])

BadDelete(v) == UNCHANGED live
Delete(v)    == live' = live \ {v}

Erase(k) ==
    /\ next'     = [NextWithout(k) EXCEPT ![k] = NULL]
    /\ prev'     = [PrevWithout(k) EXCEPT ![k] = NULL]
    /\ first'    = IF k = first THEN next[k] ELSE first
    /\ last'     = IF k = last THEN prev[k] ELSE last
    /\ occupied' = OccupiedWithout(k)
    /\ Delete(vPtr[k])
    /\ entries'  = entries \ {k}
    /\ vPtr'     = [vPtr EXCEPT ![k] = NULL]
    /\ cost'     = [cost EXCEPT ![k] = 0]
    /\ locked'   = [locked EXCEPT ![k] = FALSE]

\* The second half of insert().  The map keeps an entry it already has for k,
\* but the list and the occupied size are updated as if it were a new one.
Link(k, v, size, lock) ==
    /\ entries' = entries \cup {k}
    /\ IF k \in entries
       THEN UNCHANGED fields
       ELSE /\ vPtr'   = [vPtr EXCEPT ![k] = v]
            /\ cost'   = [cost EXCEPT ![k] = size]
            /\ locked' = [locked EXCEPT ![k] = lock]
    /\ next'  = IF first = NULL THEN next ELSE [next EXCEPT ![k] = first]
    /\ prev'  = IF first = NULL THEN prev ELSE [prev EXCEPT ![first] = k]
    /\ first' = k
    /\ last'  = IF last = NULL THEN k ELSE last
    /\ occupied' = Wrapped(occupied + size)

-----------------------------------------------------------------------------
(* free(target): the loop, from the least recently used entry on.          *)

EnterFree(f, k, v, size, lock, target) ==
    /\ call' = [fn |-> f, key |-> k, value |-> v, size |-> size,
                lock |-> lock, target |-> target, cur |-> last,
                over |-> Overfilled]
    /\ ret' = NoAnswer

Freeing  == call.fn \notin {"none", "gone"}
LoopOn   == Freeing /\ call.cur # NULL /\ occupied > call.target
LoopDone == Freeing /\ ~(call.cur # NULL /\ occupied > call.target)

BadAdvance == IF locked[call.cur] THEN call ELSE [call EXCEPT !.cur = prev[call.cur]]
Advance    == [call EXCEPT !.cur = prev[call.cur]]

Skip ==
    /\ LoopOn
    /\ ~Removable(call.cur)
    /\ call' = Advance
    /\ UNCHANGED <<contents, capacity, live, ret>>

Evict ==
    /\ LoopOn
    /\ Removable(call.cur)
    /\ call' = Advance
    /\ Erase(call.cur)
    /\ UNCHANGED <<capacity, ret>>

Return(answer) == call' = NoCall /\ ret' = answer

-----------------------------------------------------------------------------
(* The public operations.                                                  *)

\* insert(), early return: the value can never fit and is deleted at once.
InsertTooBig(k, v, size) ==
    /\ Idle
    /\ v \notin live
    /\ size > capacity
    /\ Return(Answer("insert", k, FALSE))
    /\ UNCHANGED <<contents, capacity, live>>

\* What free() has to get down to for an entry of the given size to fit.
SignedRoomFor(size) == capacity - size
BadRoomFor(size)    == Wrapped(capacity - size)
RoomFor(size)       == IF size > capacity THEN 0 ELSE capacity - size

InsertCall(k, v, size, lock) ==
    /\ Idle
    /\ v \notin live
    /\ size <= capacity \/ lock
    /\ EnterFree("insert", k, v, size, lock, RoomFor(size))
    /\ live' = live \cup {v}
    /\ UNCHANGED <<contents, capacity>>

InsertRefused ==
    /\ LoopDone
    /\ call.fn = "insert"
    /\ occupied > call.target
    /\ ~call.lock
    /\ Delete(call.value)
    /\ Return(Answer("insert", call.key, FALSE))
    /\ UNCHANGED <<contents, capacity>>

InsertDone ==
    /\ LoopDone
    /\ call.fn = "insert"
    /\ occupied <= call.target \/ call.lock
    /\ Link(call.key, call.value, call.size, call.lock)
    /\ Return(Answer("insert", call.key, TRUE))
    /\ UNCHANGED <<capacity, live>>

\* item(), operator[]: both are access().
Item(k) ==
    /\ Idle
    /\ IF k \in entries THEN MoveToFront(k) ELSE UNCHANGED links
    /\ Return(Answer("item", k, vPtr[k]))
    /\ UNCHANGED <<entries, fields, occupied, capacity, live>>

\* remove(key).  The key has to be in the map.
Remove(k) ==
    /\ Idle
    /\ k \in entries
    /\ Return(Answer("remove", k, Removable(k)))
    /\ UNCHANGED capacity
    /\ \/ ~Removable(k) /\ UNCHANGED <<contents, live>>
       \/ Removable(k) /\ Erase(k)

\* lock() and unlock().
LockMissing(k) ==
    /\ Idle
    /\ k \notin entries
    /\ Return(Answer("lock", k, NULL))
    /\ UNCHANGED <<contents, capacity, live>>

LockCall(k, lock) ==
    /\ Idle
    /\ k \in entries
    /\ locked' = [locked EXCEPT ![k] = lock]
    /\ EnterFree("lock", k, NULL, 0, lock, capacity)
    /\ UNCHANGED <<entries, vPtr, cost, links, occupied, capacity, live>>

\* lock() returns entry.vPtr, unless it takes the entry to have been deleted.
BadReadsEntry == TRUE
ReadsEntry    == call.lock \/ ~call.over

LockDone ==
    /\ LoopDone
    /\ call.fn = "lock"
    /\ Return(Answer("lock", call.key, IF ReadsEntry THEN vPtr[call.key] ELSE NULL))
    /\ UNCHANGED <<contents, capacity, live>>

\* free(target), and clear(), which is free(0).
FreeCall(target) ==
    /\ Idle
    /\ EnterFree("free", NULL, NULL, 0, FALSE, target)
    /\ UNCHANGED <<contents, capacity, live>>

FreeDone ==
    /\ LoopDone
    /\ call.fn = "free"
    /\ Return(Answer(IF call.target = 0 THEN "clear" ELSE "free", NULL,
                     occupied <= call.target))
    /\ UNCHANGED <<contents, capacity, live>>

\* resize(): frees first, and only then lowers or raises the capacity.
ResizeCall(size) ==
    /\ Idle
    /\ EnterFree("resize", NULL, NULL, size, FALSE, size)
    /\ UNCHANGED <<contents, capacity, live>>

ResizeDone ==
    /\ LoopDone
    /\ call.fn = "resize"
    /\ capacity' = call.size
    /\ Return(NoAnswer)
    /\ UNCHANGED <<contents, live>>

\* The end of the map, and of the entries it still has.  Nothing deletes the
\* values that these point to.
DropMap ==
    /\ entries' = {}
    /\ vPtr' = [k \in Key |-> NULL]
    /\ cost' = [k \in Key |-> 0]
    /\ locked' = [k \in Key |-> FALSE]
    /\ prev' = [k \in Key |-> NULL]
    /\ next' = [k \in Key |-> NULL]
    /\ first' = NULL
    /\ last' = NULL
    /\ occupied' = 0

\* ~Cache(): clear(), a message if that failed, and the members.
DestroyCall ==
    /\ Idle
    /\ EnterFree("destroy", NULL, NULL, 0, FALSE, 0)
    /\ UNCHANGED <<contents, capacity, live>>

DestroyDone ==
    /\ LoopDone
    /\ call.fn = "destroy"
    /\ DropMap
    /\ call' = [NoCall EXCEPT !.fn = "gone"]
    /\ UNCHANGED <<capacity, live, ret>>

-----------------------------------------------------------------------------
(* One caller.  Continue is the rest of a call that has begun; Begin is    *)
(* the calls a caller may make: a key is inserted only when it is absent   *)
(* (ResourceCache looks it up first), and the sizes of all entries         *)
(* together fit into a cachesize_t.  BeginAny drops both restrictions.     *)

Continue ==
    \/ Skip \/ Evict
    \/ InsertRefused \/ InsertDone \/ LockDone \/ FreeDone
    \/ ResizeDone \/ DestroyDone

BeginInsert(k, size) ==
    \E v \in Value : \/ InsertTooBig(k, v, size)
                     \/ \E lock \in BOOLEAN : InsertCall(k, v, size, lock)

BeginOther ==
    \/ \E k \in Key : \/ Item(k) \/ Remove(k) \/ LockMissing(k)
                      \/ \E lock \in BOOLEAN : LockCall(k, lock)
    \/ \E size \in Sizes : FreeCall(size) \/ ResizeCall(size)
    \/ DestroyCall

Begin ==
    \/ BeginOther
    \/ \E k \in Key \ entries, size \in Sizes :
          occupied + size <= MaxSize /\ BeginInsert(k, size)

BeginAny ==
    \/ BeginOther
    \/ \E k \in Key, size \in Sizes : BeginInsert(k, size)

Next    == Begin \/ Continue
NextAny == BeginAny \/ Continue

Spec     == Init /\ [][Next]_vars /\ WF_vars(Continue)
AnySpec  == Init /\ [][NextAny]_vars

-----------------------------------------------------------------------------
(* What has to hold.                                                       *)

TypeOK ==
    /\ entries \subseteq Key
    /\ vPtr \in [Key -> ValueOrNull]
    /\ cost \in [Key -> cachesize_t]
    /\ locked \in [Key -> BOOLEAN]
    /\ prev \in [Key -> KeyOrNull]
    /\ next \in [Key -> KeyOrNull]
    /\ first \in KeyOrNull
    /\ last \in KeyOrNull
    /\ capacity \in cachesize_t
    /\ occupied \in cachesize_t
    /\ live \subseteq Value
    /\ call \in Call
    /\ ret \in [fn  : {"none", "insert", "item", "remove", "lock", "free", "clear"},
               key : KeyOrNull,
               res : ValueOrNull \cup BOOLEAN]

\* The pointers hold together the n entries in s, most recently used first.
IsList(n, s) ==
    /\ \A i, j \in 1..n : s[i] = s[j] => i = j
    /\ first = IF n = 0 THEN NULL ELSE s[1]
    /\ last  = IF n = 0 THEN NULL ELSE s[n]
    /\ \A i \in 1..n : /\ next[s[i]] = IF i = n THEN NULL ELSE s[i + 1]
                       /\ prev[s[i]] = IF i = 1 THEN NULL ELSE s[i - 1]

Lists == LET n == Cardinality(entries) IN {s \in [1..n -> entries] : IsList(n, s)}

\* The list and the map always agree: the pointers of the entries, followed
\* from either end, visit every entry of the map exactly once (insert(),
\* access() and remove() re-link them in three different ways).
ListOK == Lists # {}

\* "The occupied size [...] is the sum of the sizes of all currently cached
\* entries" (class doc), through every insertion, eviction and re-linking.
Accounted == occupied = SumFunctionOnSet(cost, entries)

\* Between calls the cache is overfilled only because of locked entries
\* (class doc: "if all entries in the cache are locked"); entries of size 0
\* free() has no reason to remove.  It is what makes lock() right to report
\* an entry unlocked in an overfilled cache as deleted.
OverfilledByLocks ==
    Idle /\ Overfilled => \A k \in entries : locked[k] \/ cost[k] = 0

\* As long as there is a cache, the values it owns are those of its entries
\* and the one being inserted: none is leaked, deleted twice, or deleted under
\* its entry.  What the destructor leaves behind is DestructorDeletes' matter.
Owned ==
    /\ Alive => live = {vPtr[k] : k \in entries}
                        \cup (IF call.fn = "insert" THEN {call.value} ELSE {})
    /\ \A j, k \in entries : vPtr[j] = vPtr[k] => j = k
    /\ call.fn = "insert" => \A k \in entries : vPtr[k] # call.value

\* lock() reads its entry after a free() that may have erased it: it does so
\* only when the entry is still there.
LockReadsLive ==
    LoopDone /\ call.fn = "lock" /\ ReadsEntry => call.key \in entries

\* The answers are true: lock() returns the entry's value, or NULL exactly
\* when the entry is gone, and insert() returns whether the key is cached.
Answers ==
    /\ ret.fn = "lock" => /\ ret.res = vPtr[ret.key]
                          /\ ret.res # NULL <=> ret.key \in entries
    /\ ret.fn = "insert" => (ret.res <=> ret.key \in entries)

\* A locked entry stays, with its value, until it is unlocked: no other call
\* of a cache (an insertion short of room, resize(), clear(), remove()) drops it.
LockedStays ==
    [][Alive' => \A k \in entries : locked[k] => k \in entries' /\ vPtr'[k] = vPtr[k]]_vars

\* Every call returns: free() follows the list to its end even though it
\* erases the entries it is standing on.
CallsReturn == Freeing ~> ~Freeing

\* The cache is an LRU cache: every step is one LruContract allows.
Order == CHOOSE s \in Lists : TRUE

Contract == INSTANCE LruContract WITH
    Sizes <- cachesize_t,
    None  <- NULL,
    order <- Order,
    size  <- [k \in entries |-> cost[k]],
    held  <- {k \in entries : locked[k]},
    goal  <- IF Freeing THEN call.target ELSE NULL,
    hit   <- IF ret.fn = "item" /\ ret.res # NULL THEN ret.key ELSE NULL,
    alive <- Alive

ImplementsContract == Contract!Spec

\* Cache.h:185 and ResourceCache.h:350 say clear() removes all entries, and
\* returns true when the cache was completely cleared.
ClearRemovesAll == ret.fn = "clear" /\ ret.res => entries = {}

\* Cache.h:94: the destructor "removes and therefore deletes all cache
\* entries"; it is to throw if entries are still locked (Cache.h:96-98).
DestructorDeletes == ~Alive => live = {}

=============================================================================
