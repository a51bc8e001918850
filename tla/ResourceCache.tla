--------------------------- MODULE ResourceCache ---------------------------
(***************************************************************************)
(* nxcommon/ResourceCache.h: a Cache whose entries are loaded on demand    *)
(* and reached through Pointers.  All Pointers to a key share one          *)
(* SharedPointer, which counts how many of them hold the entry locked and  *)
(* keeps a direct pointer to the entry while it is cached: the entry is    *)
(* told its SharedPointer when it is first returned, and its destructor    *)
(* (run by Cache wherever it deletes a value) clears that pointer.         *)
(*                                                                         *)
(* The module extends Cache: every step that reaches the cache is one of   *)
(* Cache's actions and what this class does before or after it.  Calls     *)
(* nest, because a loader may use the cache for other keys while it loads  *)
(* its entry, so the calls in progress are a stack.                        *)
(***************************************************************************)
EXTENDS Cache, Sequences

CONSTANTS
    Pointer,     \* the client's Pointer objects
    MaxCount     \* the largest unsigned int

ASSUME MaxCountAssumption == MaxCount \in Nat /\ MaxCount > 0
\* No program has room for more Pointers than an unsigned int can count.
ASSUME PointersAssumption == IsFiniteSet(Pointer) /\ Cardinality(Pointer) <= MaxCount
\* clear() asks the cache to get down to 0.
ASSUME ClearAssumption == 0 \in Sizes

VARIABLES
    ptrs,        \* the Pointers: key (NULL if invalid) and locked
    entry,       \* the fields of the SharedPointers, by key: the direct
    lockCount,   \*   pointer and the number of Pointers that hold a lock
    sharedPtr,   \* the field of an Entry, by value: the key of a SharedPointer
    stack        \* the calls in progress, the innermost last

resourceVars == <<vars, ptrs, entry, lockCount, sharedPtr, stack>>

ResourceInit ==
    /\ Init
    /\ ptrs = [p \in Pointer |-> [key |-> NULL, locked |-> FALSE]]
    /\ entry = [k \in Key |-> NULL]
    /\ lockCount = [k \in Key |-> 0]
    /\ sharedPtr = [v \in Value |-> NULL]
    /\ stack = <<>>

\* A call in progress waits for the cache or for the loader.
Frame(fn, k, lock, at) == [fn |-> fn, key |-> k, lock |-> lock, at |-> at]

Top     == stack[Len(stack)]
BadPop  == UNCHANGED stack
Pop     == stack' = SubSeq(stack, 1, Len(stack) - 1)
Push(f) == stack' = Append(stack, f)

InCache(fn) == stack # <<>> /\ Top.fn = fn /\ Top.at = "cache"
InLoader    == stack # <<>> /\ Top.at = "loader"
WaitsForLoader(k, lock) == [stack EXCEPT ![Len(stack)] = Frame("getEntry", k, lock, "loader")]

\* The client's code runs: outside all calls, or as part of a loader.
ClientRuns == Idle /\ (stack = <<>> \/ InLoader)

-----------------------------------------------------------------------------
(* What SharedPointer and Entry remember.                                  *)

\* SharedPointer::getEntry() returns v, and registers with it if it is new.
Returned(k, v) ==
    /\ entry' = [entry EXCEPT ![k] = v]
    /\ sharedPtr' = IF v = NULL \/ entry[k] # NULL THEN sharedPtr
                  ELSE [sharedPtr EXCEPT ![v] = k]

\* ~Entry() of v calls SharedPointer::entryDeleted().
BadEntryDeleted(v) == UNCHANGED entry
EntryDeleted(v) ==
    entry' = IF sharedPtr[v] = NULL THEN entry ELSE [entry EXCEPT ![sharedPtr[v]] = NULL]

EntryDestroyed(v) == EntryDeleted(v) /\ sharedPtr' = [sharedPtr EXCEPT ![v] = NULL]

Count(n) == n % (MaxCount + 1)

-----------------------------------------------------------------------------
(* Pointers.                                                               *)

\* getEntryPointer(), the result assigned to p.
GetEntryPointer(p, k) ==
    /\ ClientRuns
    /\ ptrs' = [ptrs EXCEPT ![p] = [key |-> k, locked |-> FALSE]]
    /\ UNCHANGED <<vars, entry, lockCount, sharedPtr, stack>>

\* The copy constructor: the copy of a Pointer that holds a lock holds none.
CopyPointer(p, q) ==
    /\ ClientRuns
    /\ ptrs' = [ptrs EXCEPT ![p] = [key |-> ptrs[q].key, locked |-> FALSE]]
    /\ UNCHANGED <<vars, entry, lockCount, sharedPtr, stack>>

\* p = q, with the assignment operator that the compiler generates.
Assign(p, q) ==
    /\ ClientRuns
    /\ ptrs' = [ptrs EXCEPT ![p] = ptrs[q]]
    /\ UNCHANGED <<vars, entry, lockCount, sharedPtr, stack>>

\* No loader asks for the key it is loading.
Valid(p)  == ClientRuns /\ ptrs[p].key \in Key
Usable(p) == Valid(p) /\ ptrs[p].key \notin {stack[i].key : i \in 1..Len(stack)}

\* The counting that getEntry(lock) starts with.
CountLock(p, lock) ==
    IF lock /\ ~ptrs[p].locked
    THEN /\ ptrs' = [ptrs EXCEPT ![p].locked = TRUE]
         /\ lockCount' = [lockCount EXCEPT ![ptrs[p].key] = Count(@ + 1)]
    ELSE UNCHANGED <<ptrs, lockCount>>

FirstLock(p, lock) == lock /\ ~ptrs[p].locked /\ lockCount[ptrs[p].key] = 0

\* getEntry(true), first lock of all: cache->lock(), and doCache() if that
\* finds nothing.
GetEntryLock(p) ==
    LET k == ptrs[p].key IN
    /\ Usable(p)
    /\ FirstLock(p, TRUE)
    /\ CountLock(p, TRUE)
    /\ \/ LockCall(k, TRUE) /\ Push(Frame("lock", k, TRUE, "cache"))
       \/ LockMissing(k) /\ Push(Frame("getEntry", k, TRUE, "loader"))
    /\ UNCHANGED <<entry, sharedPtr>>

\* getEntry() otherwise: the direct pointer, without asking the cache ...
GetEntryDirect(p, lock) ==
    /\ Usable(p)
    /\ ~FirstLock(p, lock)
    /\ CountLock(p, lock)
    /\ entry[ptrs[p].key] # NULL
    /\ UNCHANGED <<vars, entry, sharedPtr, stack>>

\* ... or if there is none, cache->getEntry(): doCache() unless it is cached.
GetEntryLookup(p, lock) ==
    LET k == ptrs[p].key IN
    /\ Usable(p)
    /\ ~FirstLock(p, lock)
    /\ CountLock(p, lock)
    /\ entry[k] = NULL
    /\ Item(k)
    /\ IF ret'.res = NULL
       THEN /\ Push(Frame("getEntry", k, FALSE, "loader"))
            /\ UNCHANGED <<entry, sharedPtr>>
       ELSE /\ Returned(k, ret'.res)
            /\ UNCHANGED stack

\* release(): the last one of all unlocks the entry, if it is cached: a loader
\* may release a Pointer to the very key that it is loading.
BadLastLock(k)   == TRUE
StaleLastLock(k) == lockCount[k] = 0
LastLock(k)      == lockCount[k] = 1

BadUnlocked(p) == ptrs
Unlocked(p)    == [ptrs EXCEPT ![p].locked = FALSE]

Release(p) ==
    LET k == ptrs[p].key IN
    /\ Valid(p)
    /\ ptrs[p].locked
    /\ ptrs' = Unlocked(p)
    /\ lockCount' = [lockCount EXCEPT ![k] = Count(@ - 1)]
    /\ \/ ~LastLock(k) /\ UNCHANGED <<vars, stack>>
       \/ LastLock(k) /\ LockMissing(k) /\ UNCHANGED stack
       \/ LastLock(k) /\ LockCall(k, FALSE) /\ Push(Frame("release", k, FALSE, "cache"))
    /\ UNCHANGED <<entry, sharedPtr>>

-----------------------------------------------------------------------------
(* doCache(), once the loader has returned.                                *)

\* It found nothing.
LoadFails ==
    /\ Idle
    /\ InLoader
    /\ Returned(Top.key, NULL)
    /\ Pop
    /\ UNCHANGED <<vars, ptrs, lockCount>>

\* The entry it returned can never fit, and is not to be locked.
LoadTooBig(v, size) ==
    /\ InLoader
    /\ ~Top.lock
    /\ InsertTooBig(Top.key, v, size)
    /\ Returned(Top.key, NULL)
    /\ Pop
    /\ UNCHANGED <<ptrs, lockCount>>

LoadInserts(v, size) ==
    /\ InLoader
    /\ InsertCall(Top.key, v, size, Top.lock)
    /\ stack' = [stack EXCEPT ![Len(stack)].at = "cache"]
    /\ UNCHANGED <<ptrs, entry, lockCount, sharedPtr>>

DoCacheDone ==
    /\ InCache("getEntry")
    /\ Pop
    /\ UNCHANGED <<ptrs, lockCount>>
    /\ \/ /\ InsertDone
          /\ Returned(call.key, call.value)
       \/ /\ InsertRefused
          /\ Returned(call.key, NULL)

-----------------------------------------------------------------------------
(* What the cache does while a call waits for it.                          *)

CacheSkips == Skip /\ UNCHANGED <<ptrs, entry, lockCount, sharedPtr, stack>>

CacheEvicts ==
    /\ Evict
    /\ EntryDestroyed(vPtr[call.cur])
    /\ UNCHANGED <<ptrs, lockCount, stack>>

\* ResourceCache::lock() with its lock argument set.
BadFound(v) == FALSE
Found(v)    == v # NULL

LockReturns ==
    /\ InCache("lock")
    /\ LockDone
    /\ UNCHANGED <<ptrs, lockCount>>
    /\ IF Found(ret'.res)
       THEN Returned(Top.key, ret'.res) /\ Pop
       ELSE /\ stack' = WaitsForLoader(Top.key, TRUE)
            /\ UNCHANGED <<entry, sharedPtr>>

ReleaseReturns ==
    /\ InCache("release")
    /\ LockDone
    /\ Pop
    /\ UNCHANGED <<ptrs, entry, lockCount, sharedPtr>>

-----------------------------------------------------------------------------
(* The cache as a whole.                                                   *)

ResizeResourceCache(size) ==
    /\ ClientRuns
    /\ ResizeCall(size)
    /\ Push(Frame("resize", NULL, FALSE, "cache"))
    /\ UNCHANGED <<ptrs, entry, lockCount, sharedPtr>>

ResizeReturns ==
    /\ InCache("resize")
    /\ ResizeDone
    /\ Pop
    /\ UNCHANGED <<ptrs, entry, lockCount, sharedPtr>>

Clear ==
    /\ ClientRuns
    /\ FreeCall(0)
    /\ Push(Frame("clear", NULL, FALSE, "cache"))
    /\ UNCHANGED <<ptrs, entry, lockCount, sharedPtr>>

ClearReturns ==
    /\ InCache("clear")
    /\ FreeDone
    /\ Pop
    /\ UNCHANGED <<ptrs, entry, lockCount, sharedPtr>>

\* ~ResourceCache(): clear(), then the members, and with them ~Cache().
Destroy ==
    /\ Idle /\ stack = <<>>
    /\ FreeCall(0)
    /\ Push(Frame("destroy", NULL, FALSE, "cache"))
    /\ UNCHANGED <<ptrs, entry, lockCount, sharedPtr>>

DestroyClears ==
    /\ InCache("destroy")
    /\ FreeDone
    /\ stack' = [stack EXCEPT ![Len(stack)].at = "members"]
    /\ UNCHANGED <<ptrs, entry, lockCount, sharedPtr>>

DestroyMembers ==
    /\ stack # <<>> /\ Top.at = "members"
    /\ DestroyCall \/ DestroyDone
    /\ UNCHANGED <<ptrs, entry, lockCount, sharedPtr, stack>>

-----------------------------------------------------------------------------
(* One client.  It releases a Pointer before it assigns to it; AssignNext  *)
(* also assigns Pointers that hold a lock.  All entries fit together into  *)
(* a cachesize_t.                                                          *)

PointerCalls ==
    \E p \in Pointer :
       \/ /\ ~ptrs[p].locked
          /\ \/ \E k \in Key : GetEntryPointer(p, k)
             \/ \E q \in Pointer \ {p} : CopyPointer(p, q)
       \/ GetEntryLock(p)
       \/ \E lock \in BOOLEAN : GetEntryDirect(p, lock) \/ GetEntryLookup(p, lock)
       \/ Release(p)

Loads ==
    \/ LoadFails
    \/ \E v \in Value, size \in Sizes :
          occupied + size <= MaxSize /\ (LoadTooBig(v, size) \/ LoadInserts(v, size))

CacheCalls ==
    \/ \E size \in Sizes : ResizeResourceCache(size)
    \/ Clear \/ Destroy

Returns ==
    \/ CacheSkips \/ CacheEvicts
    \/ DoCacheDone \/ LockReturns \/ ReleaseReturns
    \/ ResizeReturns \/ ClearReturns \/ DestroyClears \/ DestroyMembers

ResourceNext == PointerCalls \/ Loads \/ CacheCalls \/ Returns
AssignNext   == ResourceNext \/ \E p, q \in Pointer : Assign(p, q)

ResourceSpec == ResourceInit /\ [][ResourceNext]_resourceVars
AssignSpec   == ResourceInit /\ [][AssignNext]_resourceVars

-----------------------------------------------------------------------------
(* What has to hold.                                                       *)

ResourceTypeOK ==
    /\ ptrs \in [Pointer -> [key : KeyOrNull, locked : BOOLEAN]]
    /\ entry \in [Key -> ValueOrNull]
    /\ lockCount \in [Key -> 0..MaxCount]
    /\ sharedPtr \in [Value -> KeyOrNull]
    /\ \A i \in DOMAIN stack : stack[i] \in
          [fn   : {"getEntry", "lock", "release", "resize", "clear", "destroy"},
           key  : KeyOrNull,
           lock : BOOLEAN,
           at   : {"cache", "loader", "members"}]
    \* Only the innermost call can wait for the cache, and does if that runs.
    /\ \A i \in 1..(Len(stack) - 1) : stack[i].at = "loader"
    /\ (stack # <<>> /\ Top.at = "cache") <=> (Freeing /\ call.fn # "destroy")

\* The direct pointer never dangles and never misses: it is the value that
\* the cache has for the key, through evictions, nested loads and re-loads.
\* Whenever it is set, the entry will tell its SharedPointer of its end.
DirectPointers ==
    Alive => \A k \in Key : /\ entry[k] = vPtr[k]
                            /\ entry[k] # NULL => sharedPtr[entry[k]] = k

\* The lock count is the number of Pointers that count as holding the entry
\* locked, however their calls nest and whether or not the loads succeed.
Holders(k) == {p \in Pointer : ptrs[p].key = k /\ ptrs[p].locked}
LockCounts == \A k \in Key : lockCount[k] = Cardinality(Holders(k))

\* The last release of a cached entry unlocks it, and none is locked but for a
\* Pointer: an entry that stays in the cache is locked without a holder only if
\* it was already (LockedIsHeld is about those that begin so).
ReleasedUnlocks ==
    [][\A k \in entries \cap entries' :
          locked'[k] /\ Holders(k)' = {} => locked[k] /\ Holders(k) = {}]_resourceVars

\* "A locked entry is only unlocked if all pointers referring to it are
\* unlocked (released)" (class doc).
UnlockedByLast ==
    [][\A k \in entries : locked[k] /\ k \in entries' /\ ~locked'[k]
           => \A p \in Pointer : ptrs'[p].key = k => ~ptrs'[p].locked]_resourceVars

\* The cache is used the way it has to be: in particular, a key is inserted
\* only when it is absent, whatever the loader did after the lookup.
UsesCache == Init /\ [][Next]_vars

\* Doc of Pointer::getEntry(lock): "If true, the entry will be locked so that
\* it won't be deleted until release() is called."
LockedUntilReleased ==
    \A p \in Pointer : ptrs[p].locked /\ ptrs[p].key \in entries => locked[ptrs[p].key]

\* Doc of Pointer::release(): "Only when the lock count reaches 0, the entry is
\* actually unlocked", so an entry that no Pointer holds is not locked.
LockedIsHeld == \A k \in entries : locked[k] => Holders(k) # {}

=============================================================================
