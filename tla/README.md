# A verification development for nxcommon

nxcommon is a C/C++ library of utilities. This directory holds TLA+ models of
its stateful parts, TLC configurations that check them on small instances, and
theorems that the TLA+ proof system (TLAPS) checks for every instance. Every
definition is translated from the source; `PROJECT.json` (`map`) gives its
lines. Paths below are relative to `src/src/libnxcommon/nxcommon/`.

## 1. Inventory

| Component | State | Operations | What makes it correct |
|---|---|---|---|
| **Cache** (`Cache.h`) | map of entries, which are also the nodes of a doubly linked LRU list; capacity, occupied size | insert, item, remove, lock/unlock, free, clear, resize, destruction | list and map agree; the occupied size is the sum of the sizes; LRU eviction; locked entries stay; values are deleted exactly once |
| **ResourceCache** (`ResourceCache.h`) | a Cache; per key a SharedPointer (direct pointer, lock count); client Pointers; a loader | getEntryPointer, getEntry, lock, release, clear, resize | direct pointers never dangle; locks are counted; the last release unlocks |
| **RingBuffer** (`RingBuffer.h`, `ringbuf.c`) | slots, two offsets, one atomic count | write, advanceWrite, read, advanceRead, peek, clear | with one writer and one reader it is a queue, and no slot is raced for |
| **Observer** (`Observer.h`) | list of observers under a mutex, back pointers | attach, detach, notify, destruction of both sides | no call to a detached or dead observer |
| **Shared buffers** (`AbstractSharedBuffer.h` and the strings on top) | reference-counted storage, aliases, capacity | copy, grow, append, prepend, insert, aliasing | a write never shows in another buffer; terminator and size agree |
| **Log** (`log.c`) | log file, time format, lock, multi-part message | message, multi, open file, set format | messages whole and in order; no use of a closed file or freed format |
| **SQL facade** (`sql/`) | databases, statements, results, their owners | prepare, bind, execute, reset, finalize, sendQuery, destruction | each statement is finalised once, after its results, before its database |
| **SQLite / MySQL / PostgreSQL drivers** (`sql/driver/`) | the library's statement, first-step flag, placeholders, sockets and timeouts | the same, translated | each execution runs once; no statement is lost; answers belong to their requests; an answer that comes after a timeout is never taken for another's |
| **Ranged streams** (`stream/RangedStreambuf.h`) | window, read and write position | seek, read, write, put back | never leaves the window; positions agree with the backend's |
| **streamutil** | chunk positions | move data inside one stream | overlapping moves copy the old contents |
| **Files** (`file/`) | paths, shared iterators | normalise, parent, iterate a directory | normalisation idempotent; iterators independent |
| **CLIParser** | option table, mode of the scan | parse | each argument consumed once |
| ConfigFile, encodings, CRC32, ErrorLog, exceptions, debug, archives, Lua bindings, math, OpenGL, images | little or no state | | pure functions, I/O or bindings |
| SQLite, tinyxml2, rapidjson | | | third-party, left aside |

### How the components interact

* ResourceCache *uses* Cache: `item`, `insert`, `lock`, `clear`, `resize`. Cache
  calls back: wherever it deletes a value, `~Entry` tells the SharedPointer.
  The loader is a callback of the client and may call back into the cache.
* RingBuffer's two threads share `mcount` (atomic) and the slots (not atomic).
* Observers and observables call each other, under and outside a mutex.
* The SQL facade delegates to one of three drivers; statements and results keep
  their database alive through reference counts.
* The log is shared by all threads of a program.

### Hard behaviours

Concurrency: RingBuffer (lock-free), Observer and Log (mutexes that do not cover
everything). Re-entrancy: ResourceCache's loader, Observer's callbacks. Stale
state: `Cache::lock()` reading an entry after `free()`, direct pointers,
aliased buffers. Partial failure: failed insertions and loads, statements whose
reset throws. Timeouts: only PostgreSQL. Nothing is persisted by the library's
own code, so there is no crash recovery. `PROJECT.json` (`hazards`) lists them
at their lines with the property that covers each.

## 2. Modules

| Module | What it is |
|---|---|
| `Cache` | Cache.h in detail |
| `LruContract` | what Cache promises, without the list |
| `CacheProofs` | lemmas about the list of Cache, theorems about Cache, the refinement included, and on top of them theorems about ResourceCache |
| `ResourceCache` | ResourceCache.h, extending Cache: every step that reaches the cache is one of Cache's actions conjoined with what the class does around it |
| `RingBuffer` | RingBuffer.h and ringbuf.c |
| `BoundedFifo` | what RingBuffer promises |
| `RingBufferProofs` | theorems about RingBuffer, the refinement included |
| `Observer` | Observer.h: observers and observables used by several threads |
| `ObserverProofs` | theorems about Observer |
| `Log` | log.c |
| `LogProofs` | theorems about Log |
| `SQLite` | the statements of the SQLite library, as the driver uses them (operators, no state) |
| `SQLStatement` | the SQL facade on the SQLite driver, extending `SQLite` |
| `SQLStatementProofs` | theorems about SQLStatement |
| `PSQLConnection` | the PostgreSQL driver's calls on one connection |
| `PSQLConnectionProofs` | theorems about PSQLConnection and Placeholders |
| `Placeholders` | the PostgreSQL driver's conversion of placeholders |
| `SharedBuffer` | AbstractSharedBuffer.h, AbstractSharedString.h, CString.h, ByteArray.h |
| `BufferValues` | what copy-on-write promises |
| `SharedBufferProofs` | theorems about SharedBuffer, the refinement included |
| `StreamMove` | stream/streamutil.cpp |
| `RangedStreambuf` | stream/RangedStreambuf.h |
| `InputStream` | what a window on a stream promises its reader |
| `StreamProofs` | theorems about StreamMove and RangedStreambuf, the refinement included |
| `MCCache`, `MCResourceCache`, `MCRingBuffer`, `MCSharedBuffer` | symmetry sets and inputs for TLC |

### Cache

`entries` is the set of cached keys; `vPtr`, `cost`, `locked`, `prev`, `next` are
the fields of `Entry`, by key; `first`, `last`, `capacity`, `occupied` are the
class's. `live` is the set of values the cache owns (handed over, not deleted).
`free()` is a loop that everything else calls, so it is a step per iteration
(`Skip`, `Evict`); `call` holds the public call that is waiting for it and its
locals. `InsertCall ... InsertDone/InsertRefused`, `LockCall ... LockDone`,
`ResizeCall ... ResizeDone`, `DestroyCall ... DestroyDone` and
`FreeCall ... FreeDone` are the two ends of such calls; the destructor drops the map
with what `clear()` has left in it (`DropMap`), and what it has not deleted stays in
`live`; `InsertTooBig`, `Item`,
`Remove` and `LockMissing` are calls that never enter the loop. Unsigned
arithmetic wraps (`Wrapped`).

`Next` makes two assumptions about the caller, both true of ResourceCache and
neither checked by the code: a key is inserted only when it is absent, and the
sizes together fit into a `cachesize_t`. `NextAny` drops them.

The values and the order in which `free()` visits are data; the list is *not*
abstracted to a sequence, because the pointer assignments are where this code
can go wrong. The sequence appears in the refinement (`Order`) and, as a
witness, in the proofs.

### ResourceCache

`ptrs` are the client's Pointer objects, `entry` and `lockCount` the fields of
SharedPointers, `sharedPtr` the field of entries. `getSharedPointer()` inserts
into a map of strong pointers that is never erased from while the cache lives,
so a SharedPointer exists for every key from the start on, without a difference
to anyone. `stack` holds the calls in progress, because a loader may use the
cache while its `load()` runs; a frame waits for the cache (`"cache"`), for the
loader (`"loader"`) or for the destruction of members. The one thing excluded is
a loader that asks for a key being loaded (`Usable`, which the code would answer
with endless recursion). A loader may release any Pointer, that of the key being
loaded included. A client releases a Pointer before it assigns to it or destroys
it; `AssignNext` drops that.

### RingBuffer

Every element copied, every offset assigned and every access to `mcount` is a
step of its own. A load of `mcount` need not return the newest value: `wLag`
and `rLag` are how much of the other thread's publications a thread may still
miss, and a load picks any lag up to that. A thread's own `fetch_add` acts on
the newest value, after which its loads return nothing older. Release and
acquire then make visible what was done before the publication; that the slots
accessed are only such slots is the invariant `NoRace`. The capacity 0 stands
for a null RingBuffer. Contents are `Elem` and `Junk` (never written).

### Observer

`observers` and `observable` are the two ends of an attachment, each in the other
class; a thread's calls in progress form a stack, since a callback may attach,
detach, notify and destroy. A notification's frame holds the part of its copy that
it has yet to go through (`todo`), from which each observer is taken before it is
called, and is looked at again (`obsv->obsv == this`) at that moment. A section under the mutex is one step (no section
contains another); what the code does outside of it, the copy that `notify()`
works through included, is done at steps of its own. The caller's duties the code
relies on, and does not check, are in the module's comment.

### Log

A message takes the time format and the log file first and the mutex later, once
for each stream it goes to; a multi-part message holds it until its end. Every
stdio call between is a step, so that threads mix wherever the mutex lets them.

### SQL facade and SQLite driver

A call of the facade is one step that makes the driver's calls in their order and
stops where one of them throws; `sendQuery()`, which owns objects between its
steps, is taken apart. `vdbe` is the library's view of each statement, `data` and
`result` the facade's, with the driver's object in it. An exception leaves
behind what the code leaves behind: a destructor that swallows the error of
`reset()` and skips `finalize()` loses the statement (`Lost`). A result may be read
behind its end, where the library resets the statement by itself and runs it again;
`ended` remembers that `nextRecord()` has said so.

### PostgreSQL driver

`plan` is what the call in progress still has to send; a request is flushed, the
socket watched with `select()` and the time left, and results are fetched one by
one until libpq has no more. `wire`, `server` and `up` are the network and the
server: they may be slow, refuse, or go away. `turn` counts requests so that an
answer can be told from one that an earlier, timed out request left behind. A call
ends with a result or by one of three kinds of exception (`Thrown`): an error of libpq
or of the server, a timeout, and a `select()` that fails (`SelectFails`, at every call
of it: a signal suffices).
`Placeholders` is the text conversion, one character per step, with the modes of
the code as variables; `Tokens`, `Marks` and `Numbered` are the reference, SQL's
tokens by where each one ends. (`TextSpec`, `WindowSpec` and `ResourceSpec` have names of
their own because a module of theorems extends two components.)

### Shared buffers

`mem` are the blocks (the heap's, the static empty array, an array the program
lends for reading and one for writing), `buf` the objects' fields. Every
operation is one step, composed of the functions it calls (`Realloc`, `Grow`,
`EnsureUniqueness`, ...), each a function from memory to memory. `wild` records an
access out of a block's bounds. Cells behind the data and the terminator are
forgotten (`Forget`): the documentation calls them uninitialized, and no
operation may depend on them. A string object's capacity leaves out its
terminator, which is where the conversions between strings and arrays have to
take care.

### Streams

`StreamMove` moves chunk by chunk, a read and a write per step, and a character
is the place where it stood at first, so that an overlap that overwrites its own
source shows. `RangedStreambuf` keeps the window's own position and the
backend's, and the backend is a file buffer with one position for both. A relative
seek takes its position from the backend's answer, as the code does.

## 3. Runs

| Run | Question | Bounds |
|---|---|---|
| `cache` | list, sizes, ownership, locked entries, LRU contract; does every call return? | 3 keys, 3 values, sizes and capacities 0..2, width 0..6 |
| `resource` | direct pointers, lock counts, is the last release the one that unlocks, and does it; use of the cache | 2 keys, 3 values, 3 Pointers, sizes and capacities 0..2 |
| `resource_load` | is an entry locked by a Pointer locked? (violated) | as `resource` |
| `ring` | no race, offsets agree, it is a queue | 2 elements, capacities 0..3, calls of up to 3 elements |
| `observer` | do both ends agree, is nothing dead used, is each observer called at most once, and while it is attached; does every call return? | 2 threads, an observable, 2 observers, 3 nested calls |
| `log` | are messages whole on each stream and complete; do they end? | 2 threads of 2 messages of up to 2 lines, a file and stderr |
| `sqlite` | which statements are lost, when does a connection close, how often does a statement run before its end is reported? | 2 prepared statements and a sent query, 3 library statements, errors at every step |
| `stream_move` | is the target the old source, and nothing else changed? | buffer of 2, streams of up to 7, moves of up to 6 characters, file and string streams |
| `ranged_stream` | do the positions agree, does the window hold, is it a stream? | files of up to 5, reads and writes of up to 4 characters |
| `shared_buffer` | are buffers values, within their blocks, terminated? | 2 strings and 2 byte arrays, 2 of them in use, values of up to 2 elements |
| `psql` | do answers belong to their requests, names agree, is the connection ready again; do calls end? | timeouts none and 2 ticks, `select()` may fail, queries of up to 2 SQL statements |
| `placeholders` | are the placeholders numbered those of SQL's grammar, and the rest copied? | all texts of up to 6 of 7 characters |

Why the bounds are enough. *Cache*: three keys give a list an inner node, two
ends and an eviction that has to skip a locked entry between two others; sizes 0,
1, 2 against capacities 0, 1, 2 give entries that never fit, fit alone, fit
together and do not count; the largest legal total is the width 6; every key may
have its value. *ResourceCache*: three Pointers on two keys share one
SharedPointer in every combination, with lock counts up to three, while a loader
for one key uses the other; nesting is bounded by the number of keys. *Ring
buffer*: capacity 3 and calls of up to 3 wrap around at every offset, and calls
exceed smaller capacities; two element values tell a swapped or repeated element
from the right one; `MaxSize = 5` is the smallest width for which offset + length
cannot wrap at capacity 3 (and its properties are proved for all). *Observer*: a
race is between two threads, and a list of two observers lets one go while the
other is called; three nested calls are a notification, its callback, and what
that calls. *Log*: two messages per thread and two lines interleave at each stdio
call; files change between messages. *SQL*: a statement of each kind beside a
query, and one library statement more. *StreamMove*: up to three buffers with a
shorter last one, overlaps of every length, ends behind the stream. *Ranged
stream*: windows at the beginning, inside, at the end and of length 0.
*Shared buffers*: sharing is between two objects at a time; four handles give
every pair of kinds; values of 0, 1 and 2 elements meet, fill and exceed the
capacities 0 to 3. *PostgreSQL*: a query of two statements has a result left over
when a call gives up; a timeout of 2 ticks can run out in either of two waits.
*Placeholders*: six characters hold a comment with another inside, or two
delimiters with a placeholder between and behind.

What restricts the environment, by constants whose other value leads to a known
disagreement (section 4): `QueryLengths = {1}`, `UTF8 = FALSE`, `QueryErrors =
FALSE` (SQL); `NegativeSeeks = FALSE` (ranged streams); `SelfArgument = {}`,
`StringInsert = FALSE`, `EmptyToString = FALSE` (shared buffers). SQL callers
execute only prepared statements and read only the newest result, as often as they like.

Each module also has a `TypeOK` and smaller invariants (`Answers`, `Allocated`,
`NotDeleted`, `Bindable`, `FitsBuffer`, `LocksHeld` within `LockCounts`, ...);
they are not among the runs' properties, which are those that say most.

### Fairness and liveness

* `cache`: `WF(Continue)`: the rest of a call that has begun goes on. A single
  thread executes it and nothing else can run meanwhile, so that is the fairness
  of a running program and no scheduler is involved. `CallsReturn`.
* `observer`, `log`: `WF(Continue(t))` for every thread: a thread inside a call is
  scheduled if it can go on. Nothing is assumed of callers, nor that a mutex is
  fair; `CallsReturn` and `MessagesEnd` hold because holders always let go and
  there is an end to what others do (bounded calls and messages).
* `stream_move`: `WF(Next)`, a single thread.
* `psql`: weak fairness of the calling thread's own steps (`TimesOut`, `Consume`,
  `GetResult`, `Fetched`) and of the clock (`Tick`). A call with a timeout ends
  under these alone; `SelectFails` has no fairness, a failing `select()` is left to
  chance. The server's and the network's fairness is a hypothesis of
  the second half of `CallsEnd` only: without a timeout a call waits for them.

### Refinement

`ImplementsContract` maps the linked list to a sequence and the loop to a call
with a goal; `LruContract` then allows the eviction of the least recently used
entry only, and drops what is held, or counts nothing, at the end of the cache only
(`alive`). It implies `LockedStays`: no other call drops a locked entry. `ImplementsFifo` maps the slots between the oldest element and the
first free slot to a queue; the step that publishes a count is where elements
enter or leave. `UsesCache` says that every step of ResourceCache is a step, or
a stutter, of Cache under its assumptions about callers: it discharges "a key
is inserted only when absent". `ValueSemantics` maps each object to its elements:
blocks, sharing and capacities disappear, and an operation on one object that
shows in another is not a step of `BufferValues`. `ReadsWindow` maps the window to
a stream of its own.

Deadlock is not checked where the program may stop: after the cache's
destructor, after a division by zero, when the threads have logged all the
messages their bound allows, and when a connection could not be closed.

## 4. Disagreements between the code and its documentation

`resource_load` is a run of the project, with its finding in `PROJECT.json`. The
others were met while modelling; a configuration that lets the environment do
what leads there is kept, and `tlc -config X.cfg M` shows the steps. For three of
them (`MCCacheDestroy`, `MCResourceCacheRelease`, `MCSQLStatementAgain`) the model is that of the passing run: the call that leads
there is allowed in it, and its properties say what holds nevertheless.

| Configuration, module | Property | What the code does, and what is said of it |
|---|---|---|
| `MCCacheReinsert`, MCCache | `Accounted` | insert() of a cached key (Cache.h:312) keeps the old entry in the map and counts the new one; Cache.h:173 speaks of the sum of the sizes |
| `MCCacheClear`, MCCache | `ClearRemovesAll` | free(0) stops at occupied 0 and leaves entries of size 0 (Cache.h:333); Cache.h:185: "Removes all cache entries." |
| `MCCacheDestroy`, MCCache | `DestructorDeletes` | the destructor drops locked entries and those of size 0 without deleting their values (Cache.h:102), and only prints a message; Cache.h:94: "This removes and therefore deletes all cache entries", 95-96: with locked ones it "will throw an InvalidStateException" |
| `MCResourceCacheLoad`, MCResourceCache | `LockedUntilReleased` | a lock is counted before the load, and stays counted when the load fails: the next load inserts the entry unlocked (ResourceCache.h:632); ResourceCache.h:188-189 |
| `MCResourceCacheRelease`, MCResourceCache | `LockedIsHeld` | a loader releases the Pointer whose locking getEntry() it serves: the entry is then inserted locked (ResourceCache.h:541) and nobody will unlock it; ResourceCache.h:196-197: "Only when the lock count reaches 0, the entry is actually unlocked" |
| `MCResourceCacheAssign`, MCResourceCache | `UnlockedByLast` | the implicit operator= copies `locked` without counting it (ResourceCache.h:217); ResourceCache.h:90-91: "only unlocked if all pointers referring to it are unlocked" |
| `MCRingBufferNull`, MCRingBuffer | `NullIsNoOp` | `% mcapacity` divides by zero (RingBuffer.h:229, 245, 260, 275); RingBuffer.h:124-126: modifying members are no-ops |
| `MCRingBufferNull` (`-continue`), MCRingBuffer | `NullStaysNull` | clear() turns isNull() false (RingBuffer.h:313); the same comment |
| `MCSQLStatementBind`, SQLStatement | `Bindable` | after a failed execute() the statement is not reset before a bind (SQLPreparedStatement.cpp:204); sqlite3.h:3371-3374: SQLITE_MISUSE |
| `MCSQLStatementAgain`, SQLStatement | `NeverRunsAgain` | nextRecord() steps a statement whose end it has reported (SQLiteResultImpl.cpp:59), which runs it again; sqlite3.h:3624-3626: "should not be called again ... without first calling sqlite3_reset()" |
| `MCSQLStatementMulti`, SQLStatement | `NotDeleted` | sendQuery() of two statements deletes the result that owns `stmt` and uses it (SQLiteDatabaseImpl.cpp:75); the test nxcommon-test/src/sql.cpp:275 sends such queries |
| `MCSQLStatementUTF8`, SQLStatement | `NotDeleted` | sendQueryUTF8() goes round its loop after the last statement (SQLiteDatabaseImpl.cpp:97): codeLeft is never null, see sqlite3.h:3099-3102 |
| `MCSQLStatementQuery`, SQLStatement | `NoLeak` | a sent query that fails leaves its statement (SQLiteDatabaseImpl.cpp:63); SQLiteResultImpl.h:77-79: "we have to do that ourselves" |
| `MCRangedStreambufNegative`, RangedStreambuf | `InWindow` | seekpos() accepts negative positions (RangedStreambuf.h:173); RangedStreambuf.h:135, 141: "Attempt to seek out of bounds!" |
| `MCSharedBufferInsert`, MCSharedBuffer | `InBounds` | reallocWithSplit() forgets the terminator's place (AbstractSharedBuffer.h:706); AbstractSharedBuffer.h:57-59: "capacity+1" units are allocated |
| `MCSharedBufferEmpty`, MCSharedBuffer | `InBounds` | a string made from an array of capacity 0 gets capacity SIZE_MAX (AbstractSharedString.h:178); 178-179: "otherwise we would access the buffer out of bounds" |
| `MCSharedBufferPrepend`, MCSharedBuffer | `ValueSemantics` | prepend() of a buffer to itself reads it after it has moved (AbstractSharedBuffer.h:857); AbstractSharedBuffer.h:287 |
| `MCSharedBufferReserve`, MCSharedBuffer | `ReserveDecreases` | reserve() never reallocates to less (AbstractSharedBuffer.h:755); AbstractSharedBuffer.h:204: "increase or decrease the capacity" |
| `MCPlaceholdersTen`, Placeholders | `FitsBuffer` | ten placeholders and little else exceed the buffer (psqlutils.cpp:166); psqlutils.cpp:162-163 on the worst case |
| `MCPlaceholdersNumber`, Placeholders | `Rewrites` | the digits of a number come out reversed (psqlutils.cpp:227) |

Three more show inside the passing run `sqlite`, whose properties name them as
their exceptions: `nextRecord()` returns true when a step after the first fails
(SQLiteResultImpl.cpp:59), destroying such a statement loses the library's
(SQLPreparedStatement.cpp:54), and the connection then cannot be closed. `psql`'s `ReadyAgain` names another: a call that meets
a timeout or a failing `select()` (psqlutils.cpp:88, 120) leaves a connection that is up
and refuses every call ever after. And one
follows from the model of string streams: a move towards the end of a string
stream that reaches more than one buffer behind that end fails, because a string
stream refuses positions behind its end (streamutil.cpp:50).

## 5. Proofs

All safety and action properties of the passing runs, and all refinements, are proved
for every value of the constants; the runs show them on small instances. No proof
assumes more of the constants than the named assumptions of the modules, which every
run evaluates. Where the code goes wrong for some calls (section 4), a theorem has a
hypothesis that leaves these calls out, and the table names the configuration that
shows what happens with them:

| Theorems | Hypothesis | Without it |
|---|---|---|
| `LosesNoOther` | `Single`: a sent query holds one SQL statement and does not fail | `MCSQLStatementQuery`, `MCSQLStatementMulti` |
| those of `SharedBufferProofs` | `Legal`: no object is its own argument, no `insert()` into a string, no string from an array of capacity 0 | `MCSharedBufferPrepend`, `MCSharedBufferInsert`, `MCSharedBufferEmpty` |
| `MovesTogether`, `StaysInWindow`, `ReadsOwnStream` | `~NegativeSeeks`: no positions before the window are sought | `MCRangedStreambufNegative` |
| `PlaceholdersNumbered`, `ResultFits` | `paramPosCounter <= 10`: up to nine placeholders so far | `MCPlaceholdersTen`, `MCPlaceholdersNumber` |

Every module proves an inductive invariant first, which TLC has checked on the bounds
of the run before: none of the properties is inductive by itself.

### CacheProofs

For every set of keys, values, sizes and every width, `Spec` implies: `TypeOK`
(`Typing`), `ListOK` (`ListCorrect`), `OverfilledByLocks`
(`OverfilledOnlyByLocks`), `Owned` (`Ownership`), `LockReadsLive`
(`NoStaleEntryRead`), `Answers` (`AnswersTrue`) and the action property
`LockedStays` (`LockedEntriesStay`), `Accounted` (`SizesAddUp`) and the whole refinement
`ImplementsContract` (`ContractImplemented`).

Assumptions: `NULL` is neither a key nor a value nor a size (`lru` and `goal` of the
contract hold one or the other); sizes and capacities lie in a `cachesize_t`
(`NullAssumption`, `SizesAssumption`).

The argument. The invariant `Inv` says that
there are a number n and a sequence s of all entries such that the pointers hold
s together (`Chain`), *and* running totals t along s whose last element is
`occupied` (`IsTotal`); and that in a call the entries behind the cursor of
`free()` are locked or have size 0, the call's key is absent, and the
values are owned as `Owned` says (as long as the cache lives: the destructor leaves
nothing to say of them). The totals are needed because a loop that has
reached the head of the list leaves an overfilled cache only if the sizes of the
entries it skipped account for everything: without a sum over the list, nothing
bounds `occupied` from what is in it, not even its subtraction from wrapping.
The first part of the module shows how unlinking, moving to the front and pushing
transform s and t; then there is one lemma per action, and `StepInv` combines
them.

For `Accounted` the last total has to be the sum over the set of entries
(`TotalIsSum`), an induction along the list. For the refinement, `Order` is the
sequence s of the invariant: there is one only (the pointers determine it), so
what is known of s is known of the contract's state, and each step has a lemma that
says what it is to the contract. An eviction is the one that takes work: that the
cursor's entry is the least recently used one that is not locked follows from the
part of `Inv` about the entries behind the cursor.

The second part is about `ResourceCache`. For every set of Pointers, `ResourceSpec`
implies `UsesCache` (`CacheIsUsedRight`), `DirectPointers` (`NeverDangles`),
`LockCounts` (`CountsHolders`) and the action properties `UnlockedByLast`
(`OnlyLastUnlocks`) and `ReleasedUnlocks` (`LastReleaseUnlocks`).

Further assumptions: there are no more Pointers than an `unsigned int` can
count (`PointersAssumption`: memory ends long before; without it `lockCount`
wraps and an entry in use is unlocked); 0 is among the sizes (`ClearAssumption`:
`clear()` calls `free(0)`).

The argument. A step of a ResourceCache is a step of the cache and something
around it, so the cache's `Inv` is kept by the lemmas of the first part, provided
that keys are inserted only when absent. That in turn needs to know of the stack
(`LoadersOK`): the key being loaded stays out of the cache for as long as its
loader runs, since no two frames have the same key and only the top frame
reaches the cache. `TopOK` ties the top frame to the cache's call it waits for.
`LockCounts` is part of the invariant: each operation moves the holders of one key by
one Pointer and the count by one. That the last release unlocks, and no other, is
then about single steps: the cache locks and unlocks entries in its `LockDone` only,
which belongs to the frame on top, and `release()` has that frame only when the
count has come to 0. It is not an invariant that a locked entry has a holder: a
release during the entry's own load breaks it (`MCResourceCacheRelease`), and
`ReleasedUnlocks` says what is left, that only an insertion can make such an entry.
The invariant is the conjunction `ResInv`.

### RingBufferProofs

For every set of elements, every set of capacities that a `SizeType` can double,
and every length of calls, `Spec` implies `OffsetsAgree` (`OffsetsAlwaysAgree`),
`NoRace` (`NeverRaces`) and the whole refinement `ImplementsFifo` (`IsFifo`).

Assumptions: the sum of an offset and a length fits into a `SizeType`
(`CapacitiesAssumption`), `MaxLen` is a number, `Junk` is no element.

The argument. `At(i)` is the place i elements behind the oldest. The inductive
invariant `Inv` joins the types, what either thread's call in progress may still
do in terms of what it has seen (`WriterOK`: count, unseen reads and the call
together fit the capacity; `ReaderOK`: unseen writes and the call are within the
count), `Offsets` (the first free place is `At(count)`) and `Contents` (what the
writer has copied lies from `At(count)` on, what the reader has copied is what
lies from `At(0)` on). The offsets agree by arithmetic modulo the capacity, of
which `ModPlus` to `ModInjective` are all that is used. `NoRace` then is: the
writer's places have numbers from count to capacity - wLag - 1, the reader's are
below count - rLag, the freed and unseen ones the last wLag; and places with
different numbers are different (`Distinct`). For the refinement, each step has a
lemma that says what it is to the queue: publishing appends what was copied
(`JoinIs`), the reader's publication takes a prefix (`Published`: every remaining
element moves up by the number read), everything else stutters or only begins.

### StreamProofs

Of `StreamMove`, for every buffer, stream and length, `Spec` implies `OnlyTarget`
(`WritesOnlyTarget`), `Moved` (`MovesAll`) and `SourceIntact`
(`SourceStaysIntact`): that a move of overlapping regions goes the right way
does not depend on how the length relates to the buffer, which the code's 32768
is far beyond TLC's reach for. Assumption: the buffer is not empty
(`BufferAssumption`).

The argument. `Gone` is the set of distances that have been moved: a prefix of
the region, or a suffix if the move goes towards the end. `Inv` says that the
buffer holds the chunk that is written next (`Buffered`), that what is still to
be read is untouched (`Intact`), that what is gone has arrived (`Arrived`) and
that every other place is as it was, or a hole inside the target (`Elsewhere`).
The one step that matters is `WriteInv`: every place still to be read lies
before, or behind, all places of the chunk (`Directions`), and only a move
towards the end can leave a hole, which then lies behind all of the source.

Of `RangedStreambuf`, for every window on every file and reads and writes of any
length, `WindowSpec` implies `Synced` (`MovesTogether`), `InWindow` (`StaysInWindow`)
and the refinement `ReadsWindow` (`ReadsOwnStream`), unless positions before the window
are sought. Assumption: bounds are numbers and something can be read
(`BoundsAssumption`).

The argument. `Window` joins the types, `Synced` and what has been written to the
places of the window. What a step needs is that the position stays between 0 and the
window's length, and each seek of the code bounds it from above by itself and from
below only if the position sought is not negative. For the refinement, the
characters that the backend returns at its position are those that the stream of
`InputStream` has at the window's (`AvailableIs`), because the two positions agree.

### ObserverProofs

For any threads, objects and depth of calls, `Spec` implies `TypeOK`,
`PointersAgree` (`PointersAlwaysAgree`), `NoDeadAccess` (`NeverDead`) and the action
property `CalledOnce` (`NobodyTwice`). Assumptions: an observable is neither `NULL`
(`NullAssumption`) nor an observer (`DisjointAssumption`: the SWIG macros derive
one class from each, and the model has one set `alive` for both).

The argument. Between the two ends of an attachment there is always a moment when
one is set and the other not. `ChangesOK` says which, by the kind of the call in
progress; `OneChange`, that no observer is in two such calls (the caller's duty,
which every step preserves); `ListsOK` and `BackPointersOK` then state the agreement
with those calls as the only exceptions. For `NoDeadAccess` the calls that wait
matter: whoever a notification still has to call is alive, and nobody destroys it
meanwhile (`TodosOK`). `CalledOnce` needs more: the copy holds each observer once,
because the list does (`TodosOnce`), and loses its head with each call, whatever is
attached meanwhile; and whoever has a back pointer to the observable at the moment of
the call is in its list, or is in the middle of joining or leaving it
(`BackPointersOK`), which is what `Connected` says.

### LogProofs

For any threads, files and bounds, `Spec` implies `TypeOK`, `Whole` (`StaysWhole`) and
`Complete` (`ArrivesComplete`). Assumptions: the streams are different and none is
`NULL` (`StreamsAssumption`), nor is a thread (`ThreadsAssumption`: the owner of a free
mutex); bounds are numbers (`BoundsAssumption`).

The argument. `Whole` is about neighbours on a stream; appending keeps it if the
last piece is the end of a message or the piece before (`EndsOK`). The second can
only be so for the owner of the mutex, and for it `LatestOK` says that it is so
once it has written anything. `Complete` needs to know which streams a message is
through with while it is under way: all but those it has still in `outs`, each with
its last piece (`ThroughOK`). `MessagesOK` carries the counters, of which the
important one is `newlines`: the text is edited while it goes to one stream, and has
to have all its newlines back when the loop goes over it for the next.

### SQLStatementProofs

For any number of statements of either side and any queries, with errors wherever
the model has them, `Spec` implies `TypeOK`, `CloseSucceeds` (`ClosesWhenLeft`) and
`RunsOnce` (`ReadsWithoutRunning`). `NoLeak` (`LosesNoOther`) has a hypothesis, `Single`:
a sent query holds one SQL statement and does not fail. The code does not see to
that, and without it the property is false (`MCSQLStatementQuery` and
`MCSQLStatementMulti` show how); prepared statements, and all their errors, are not
restricted.

The argument. The invariant says that the flags mirror the library (`TypeOK`), that
statements of the library have one owner each (`HandlesOK`), that a result knows where
its statement stands unless a later step failed, also when it is read behind its end,
where the statement runs anew (`ResultsOK`), that references keep
the connection open (`OpenOK`) and, under `Single`, that a query's result owns its
statement (`SingleOK`). A call of the facade is a record (`Call`); `ResetIs`, `FinishIs`
and `Stepped` say what the driver's calls make of it, and `CallOK` that it changes
nothing but its own statement of the library and a free one. `EndsKeeps` does the
rest for all calls at once.

### PSQLConnectionProofs

For any timeouts and lengths of queries, `Spec` implies `TypeOK`, `OwnAnswer`
(`AnswersItself`), `NamesAgree` (`NamesAlwaysAgree`), `LosesAtMostOne` (`LosesOne`) and the
action property `ReadyAgain` (`ReadyAfterCall`). Assumption: timeouts are natural
numbers and a query has a result (`PSQLAssumption`).

The argument is about `Coming`, what the client has read and what is on its way,
in this order. While results are fetched it holds answers to the request in
progress only, an end right after the final one and nothing behind it (`ComingOK`);
when the connection is free there is nothing, and the server has nothing to do
(`IdleOK`), which is why a request that follows cannot meet what another left. A
call that gave up leaves the connection busy, and a busy connection accepts no
request: that is the whole protection of the code, after a timeout as after a failing
`select()`, and `LostOK` that a result is lost
there once. What the server knows of the name is stated request by request
(`NamesOK`), because `prepare()` first makes it forget, then know, then describe. `PlanOK`
lists the six sequences of requests that a call may have left.

The second part is about `Placeholders`. For every text over any characters, with up
to nine placeholders before it, `TextSpec` implies `Rewrites` (`PlaceholdersNumbered`)
and `FitsBuffer` (`ResultFits`). Assumption: `MaxLen` is a number (`LengthAssumption`).

The argument. The reference is defined by recursive functions on the text; the first
lemmas unfold them (`PairsAre`, `TokensAre`, `NumberedIs`), so that nothing after them
is an induction. Tokens do not overlap (`TokensApart`), hence what is inside of one is no
placeholder (`InsideIsCopied`). The invariant `TextInv` says where the loop is: between
tokens if it is in none of its modes, and otherwise inside of a token of the mode's
kind whose end it has not passed (`Within`); for comments that nest, the depth is the
difference between the pairs that have opened and closed, and it was never 0 before
(`Nested`, `CommentGoesOn`). `Progress` says that what has been written is what the
reference makes of the characters read, and how long it is.

### SharedBufferProofs

For any finite set of strings and byte arrays, any elements, sizes and capacities, and
under `Legal`, `Spec` implies `TypeOK` (`TypeCorrect`), `Allocated` (`BlocksSuffice`),
`InBounds` (`NeverOutOfBounds`), `Terminated` (`StringsTerminated`), `ReadOnly`
(`StaticsKept`) and the whole refinement `ValueSemantics` (`ValuesImplemented`).

Assumptions: an object is a string or an array, some character is not trimmed, and
what is put into an object is not longer than `MaxSize` (`BufferAssumption`); a `size_t`
holds a power of two that no request exceeds, and a terminator behind it
(`PowerAssumption`: capacities are rounded up to powers of two, and a request above
the largest of them is rounded to 0, util.h:365); and 2^k is twice 2^(k-1)
(`DoublingAssumption`, arithmetic that the provers do not know).

The argument. An operation of the model is a composition of functions from memory to
memory, so the invariant `Fine` is one of such a state. It says of each object that
what it believes of its block is true (`Sound`: size, capacity and terminator fit; the
read-only blocks are recognised as such) and that objects that share a block agree on
its size: whoever changes the size must own the block first. An operation that writes
goes through three stages, and each function it calls has a lemma about them: it makes
the block its object's own (`Owns`), it builds the value there (`Holds`), and it sets size
and terminator (`Done`). `DoneFine` then gives `Fine` back, and `Effect`: the object's value
is the one asked for and nobody else's has changed. That the capacity suffices for
what is about to be written (`Grow`, by doubling) is where
`PowerAssumption` is used. The refinement is `Effect`, operation by operation: what a
splice, a trim or a replacement is to a sequence.

### What is only model-checked

* Liveness: `CallsReturn` (of `cache` and of `observer`), `MessagesEnd`, `CallsEnd`. The
  prover has neither fairness nor ENABLED.
* What the configurations of section 4 show, and the run `resource_load`.

Induction over data is used in three places: sums over the entries of a cache, lists
linked by pointers, and the functions that define the placeholders' reference. The
library's induction theorems take an operator as a parameter, which none of the
provers instantiates; `SubsetInduction` and `IntervalInduction` state induction for a set
instead, from the well-foundedness of the strict subset ordering of a finite set. The
modules that are reasoned about have recursive functions or the library's folds in place
of recursive operators.

## 6. Not modelled

* Of Cache: `remove(key)` of a key that is not cached (undefined behaviour),
  read-only accessors, the public field `first` used from outside.
* Of ResourceCache: `uncacheEntry()` and `getEntryIfCached()` (private, never
  called; the second does not compile), use of a Pointer after the cache's
  destruction, a loader that asks for the key it is loading.
* Of RingBuffer: moves (the move constructor does not compile), `T& peek()`,
  builds without atomics, and size types so narrow that offset + length wraps.
* Of Observer: what its callers must not do (module comment); the SWIG macros.
* Of Log: changing the time format or the file during a message (undefined); on
  Windows, the mutex is created by the first call that finds none (log.c:40), without
  any synchronisation, so that two threads may each make one: `LockMutex` is the POSIX
  mutex, which exists from the start.
* Of the SQL parts: column values and bound parameters (data), the life of bound
  memory, transactions that have failed, the MySQL driver (the same facade on
  another library, whose behaviour the source does not show).
* Of shared buffers: `UString` (two-byte elements, conversions through ICU or
  iconv), `join()` and `split()`, `from()` with a deleter, characters that are 0.
  `operator=(DerivedT)` is never called: the implicit assignment is.
* Of ranged streams: a window both read and written, a backend that fails, `unget()`
  (`pbackfail()` with eof); `overflow()` with eof, which `sputc()` never passes.
* Components without state that a model could say something about: files,
  archives, configuration files, the command line parser, encodings, CRC32, error
  logs, Lua bindings, math, graphics. Path normalisation and the option parser are
  text algorithms on one thread that unit tests reach.
* Third-party code: sqlite3.c and .h (three quarters of the lines in src/),
  tinyxml2, rapidjson, the OpenGL loaders. The share of the lines modelled is
  small for that reason: the library's own stateful code is a few thousand lines.

## 7. What could follow

1. A window that is both read and written, and a backend that fails.
2. `UString`'s conversions, once their element sizes matter to a property.
3. The MySQL driver on a model of the client library.
