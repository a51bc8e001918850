--------------------------- MODULE SharedBuffer ---------------------------
(***************************************************************************)
(* AbstractSharedBuffer (AbstractSharedBuffer.h) and what CString and      *)
(* ByteArray add to it: objects share blocks of memory and copy a block    *)
(* before they write to it if its use_count() is not 1.                    *)
(*                                                                         *)
(* An operation is a composition of the class's internal functions, each   *)
(* from a state [mem, buf, wild] to the next.  Indices are the code's.     *)
(***************************************************************************)
EXTENDS Integers, Sequences, FiniteSets, FiniteSetsExt

CONSTANTS Strings, Bytes,       \* the CStrings (terminated) and the ByteArrays
          Elem, Trimmed, Sources,
          MaxSize,              \* bounds: the longest value,
          Capacities,           \*   what is asked of reserve() and the constructor,
          MaxObjects,           \*   the objects that are not null at a time
          Wrap,                 \* size_t is modulo Wrap
          SelfArgument,         \* the operations that may get their own object
          StringInsert,         \* insert() may be called on a string
          EmptyToString         \* a ByteArray of capacity 0 may become a CString

Handles == Strings \cup Bytes

ASSUME BufferAssumption ==
    /\ IsFiniteSet(Handles) /\ Strings \cap Bytes = {}
    /\ Trimmed \subseteq Elem /\ Trimmed # Elem /\ Sources \subseteq Seq(Elem)
    /\ SelfArgument \subseteq {"append", "prepend", "insert"}
    /\ MaxSize \in Nat \ {0} /\ \A src \in Sources: Len(src) <= MaxSize
    /\ Capacities \subseteq Nat /\ Wrap \in Nat

\* A size_t holds a power of two that no request exceeds, and a terminator on top.
ASSUME PowerAssumption == \E k \in 0..Wrap:
    2^k + 1 < Wrap /\ 2^k >= 3 /\ 2^k > MaxSize /\ \A n \in Capacities: n <= 2^k

\* Arithmetic, named because the provers do not know it.
ASSUME DoublingAssumption == \A k \in 1..Wrap: 2^k = 2 * 2^(k - 1)

VARIABLES mem,    \* block -> its cells; <<>> if it is not allocated
          buf,    \* object -> its fields
          wild    \* an access was out of the bounds of its block

vars == <<mem, buf, wild>>
now == [mem |-> mem, buf |-> buf, wild |-> wild]

Term == "term"
Junk == "junk"    \* uninitialised
Cell == Elem \cup {Term, Junk}

\* The static empty array, an array the program may only read, one it lends,
\* and the heap: one block for every object and one for the next.
Empty == 0
Rom == -1
Ram == -2
Heap == 1..(Cardinality(Handles) + 1)
RomCells == <<CHOOSE u \in Elem: u \notin Trimmed, Term>>

TermLen(h) == IF h \in Strings THEN 1 ELSE 0

Null == [d |-> Empty, size |-> 0, cap |-> 0, isnull |-> TRUE, dummy |-> FALSE]

Init ==
    /\ mem = [b \in Heap \cup {Empty, Rom, Ram} |->
                CASE b = Empty -> <<Term>> [] b = Rom -> RomCells [] OTHER -> <<>>]
    /\ buf = [h \in Handles |-> Null]
    /\ wild = FALSE

----------------------------------------------------------------------------
UsersOf(s, b) == {h \in Handles: s.buf[h].d = b}

\* Mutants: only the objects count; nothing does.
UsersOnly(s, b) == Cardinality(UsersOf(s, b))
Unshared(s, b) == 1

\* readAliasDummy and the static pointer are references too.
UseCount(s, b) == Cardinality(UsersOf(s, b))
    + Cardinality({h \in UsersOf(s, b): s.buf[h].dummy}) + (IF b = Empty THEN 1 ELSE 0)

Free(s) == CHOOSE b \in Heap: UsersOf(s, b) = {}

GetGrownCapacity(n) == IF n = 0 THEN 0 ELSE Min({p \in {2^k: k \in 0..n}: p >= n})

Fits(s, b, at, n) == at + n <= Len(s.mem[b])

\* d.get()[at...] = cells
Put(s, b, at, cells) ==
    [s EXCEPT !.mem[b] = [i \in DOMAIN @ |-> IF i - at \in DOMAIN cells THEN cells[i - at] ELSE @[i]],
              !.wild = @ \/ ~Fits(s, b, at, Len(cells))]

Cells(s, b, at, n) ==
    [i \in 1..n |-> IF at + i <= Len(s.mem[b]) THEN s.mem[b][at + i] ELSE Junk]

\* memcpy(dest + to, src + from, n)
Memcpy(s, dest, to, src, from, n) ==
    [Put(s, dest, to, Cells(s, src, from, n)) EXCEPT !.wild = @ \/ ~Fits(s, src, from, n)]

\* Mutant: the new block inherits the reference that marks read-only memory.
KeepsDummy(s, h, n) ==
    LET b == Free(s) IN
    [s EXCEPT !.mem[b] = [i \in 1..(n % Wrap) |-> Junk],
              !.buf[h] = [@ EXCEPT !.d = b, !.isnull = FALSE]]

\* new UnitT[n] for h, which keeps its other fields.
NewBlock(s, h, n) ==
    LET b == Free(s) IN
    [s EXCEPT !.mem[b] = [i \in 1..(n % Wrap) |-> Junk],
              !.buf[h] = [@ EXCEPT !.d = b, !.isnull = FALSE, !.dummy = FALSE]]

\* Mutant: no terminator is written.
NoTerminator(s, h) == s

\* if (terminated) d[msize] = term
Terminate(s, h) == IF h \in Strings THEN Put(s, s.buf[h].d, s.buf[h].size, <<Term>>) ELSE s

\* realloc(), reallocWithOffset(): from srcOffset on, the elements move to destOffset.
Realloc(s, h, newCap, srcOffset, destOffset) ==
    LET old == s.buf[h]
        new == NewBlock(s, h, newCap + TermLen(h))
        copied == Memcpy(new, new.buf[h].d, destOffset, old.d, srcOffset, old.size - srcOffset)
    IN  Terminate([copied EXCEPT !.buf[h].size = @ + destOffset - srcOffset, !.buf[h].cap = newCap], h)

\* reallocWithSplit(newCapacity, 0, 0, index, index, index + gap)
ReallocWithSplit(s, h, newCap, index, gap) ==
    LET old == s.buf[h]
        new == NewBlock(s, h, newCap)
        d == new.buf[h].d
        low == Memcpy(new, d, 0, old.d, 0, index)
        both == Memcpy(low, d, index + gap, old.d, index, old.size - index)
    IN  Terminate([both EXCEPT !.buf[h].size = @ + gap, !.buf[h].cap = newCap], h)

EnsureUniqueness(s, h) ==
    IF UseCount(s, s.buf[h].d) # 1 THEN Realloc(s, h, s.buf[h].cap, 0, 0)
    ELSE [s EXCEPT !.buf[h].isnull = FALSE]

\* Mutant: off by one.
GrowTooLate(s, h, n) ==
    IF n > s.buf[h].cap + 1 THEN Realloc(s, h, GetGrownCapacity(n), 0, 0) ELSE EnsureUniqueness(s, h)

\* growExactly(), grow()
GrowExactly(s, h, n) ==
    IF n > s.buf[h].cap THEN Realloc(s, h, n, 0, 0) ELSE EnsureUniqueness(s, h)
Grow(s, h, n) ==
    IF n > s.buf[h].cap THEN Realloc(s, h, GetGrownCapacity(n), 0, 0) ELSE EnsureUniqueness(s, h)

LargerCap(h, n) == Max({GetGrownCapacity(n), buf[h].cap})

\* What the users of a block may know of it: their data and terminators.  The
\* cells behind are "uninitialized memory" (AbstractSharedBuffer.h:185-186).
Known(s, b) == Max({s.buf[h].size + TermLen(h): h \in UsersOf(s, b)} \cup {0})
Forget(s, b) == [i \in DOMAIN s.mem[b] |-> IF i <= Known(s, b) THEN s.mem[b][i] ELSE Junk]

\* The step to s; the deleters free what nobody refers to.
Becomes(s) ==
    /\ Cardinality({h \in Handles: s.buf[h] # Null}) <= MaxObjects
    /\ mem' = [b \in DOMAIN mem |->
                 CASE b \in Heap /\ UsersOf(s, b) = {} -> <<>>
                   [] b \in {Empty, Rom} -> s.mem[b]
                   [] OTHER -> Forget(s, b)]
    /\ buf' = s.buf
    /\ wild' = s.wild

----------------------------------------------------------------------------
\* Construction.  An object that gets a new value drops its old one first.
Default(h) == buf[h] # Null /\ Becomes([now EXCEPT !.buf[h] = Null])

FromData(h) == buf[h] = Null /\ \E src \in Sources, spare \in {0, 1}:
    LET new == NewBlock(now, h, Len(src) + spare + TermLen(h))
        filled == Put(new, new.buf[h].d, 0, src)
    IN  /\ h \in Bytes \/ spare = 0
        /\ Becomes(Terminate([filled EXCEPT !.buf[h].size = Len(src), !.buf[h].cap = Len(src) + spare], h))

\* The constructor with a capacity only.
WithCapacity(h) == buf[h] = Null /\ \E n \in Capacities:
    LET new == NewBlock(now, h, n + TermLen(h))
    IN  Becomes(Terminate([new EXCEPT !.buf[h].cap = n], h))

ReadAlias(h) ==
    /\ buf[h] = Null
    /\ Becomes([now EXCEPT !.buf[h] = [d |-> Rom, size |-> 1, cap |-> 1, isnull |-> FALSE, dummy |-> TRUE]])

\* An array for one more element than it has; two such aliases of one array
\* would not know of each other.
WriteAlias(h) ==
    /\ buf[h] = Null /\ UsersOf(now, Ram) = {}
    /\ Becomes([now EXCEPT !.mem[Ram] = RomCells \o <<Junk>>,
            !.buf[h] = [d |-> Ram, size |-> 1, cap |-> 3 - TermLen(h), isnull |-> FALSE, dummy |-> FALSE]])

\* The implicit assignment, as the copy constructor, copies every field.
Assign(h, g) == Becomes([now EXCEPT !.buf[h] = buf[g]])

ToByteArray(h, g) == Assign(h, g)

\* Mutant: forgets the terminator.
SameCap(g) == buf[g].cap

\* The capacity of a string made from the array g, less one for the terminator.
StringCap(g) == (buf[g].cap + Wrap - 1) % Wrap

ToCString(h, g) ==
    LET shared == [now EXCEPT !.buf[h] = [buf[g] EXCEPT !.cap = StringCap(g)]]
    IN  /\ EmptyToString \/ buf[g].cap > 0
        /\ Becomes(IF StringCap(g) < buf[g].size THEN Realloc(shared, h, buf[g].size, 0, 0)
                   ELSE Terminate(shared, h))

----------------------------------------------------------------------------
\* Operations.
Enlarge(s, h, n) == [s EXCEPT !.buf[h].size = @ + n]

AppendUnit(h, u) == buf[h].size < MaxSize /\
    LET grown == Grow(now, h, buf[h].size + 1)
    IN  Becomes(Terminate(Enlarge(Put(grown, grown.buf[h].d, buf[h].size, <<u>>), h, 1), h))

\* The terminator comes with the argument; with the object itself as the
\* argument the two areas overlap by it, and memcpy() may overwrite it first.
AppendBuffer(h, g) == buf[h].size + buf[g].size <= MaxSize /\
    LET grown == Grow(now, h, buf[h].size + buf[g].size)
        d == grown.buf[h].d
        n == buf[g].size
        copied == Enlarge(Memcpy(grown, d, buf[h].size, grown.buf[g].d, 0, n + TermLen(h)), h, n)
    IN  IF g = h /\ h \in Strings
        THEN "append" \in SelfArgument /\ (Becomes(copied)
                \/ Becomes(Put(copied, d, 2 * n, Cells(copied, d, 0, 1))))
        ELSE Becomes(copied)

\* prepend(), for the element u and for a buffer, whose fields are read when
\* the object has grown.
PrependUnit(h, u) == buf[h].size < MaxSize /\
    LET grown == Realloc(now, h, LargerCap(h, buf[h].size + 1), 0, 1)
    IN  Becomes(Put(grown, grown.buf[h].d, 0, <<u>>))

PrependBuffer(h, g) ==
    /\ buf[h].size + buf[g].size <= MaxSize
    /\ g # h \/ "prepend" \in SelfArgument
    /\ LET grown == Realloc(now, h, LargerCap(h, buf[h].size + buf[g].size), 0, buf[g].size)
       IN  Becomes(Memcpy(grown, grown.buf[h].d, 0, grown.buf[g].d, 0, grown.buf[g].size))

Room(h, n) ==
    /\ buf[h].size + n <= MaxSize
    /\ h \in Bytes \/ StringInsert

InsertUnit(h, i, u) == Room(h, 1) /\
    LET grown == ReallocWithSplit(now, h, LargerCap(h, buf[h].size + 1), i, 1)
    IN  Becomes(Put(grown, grown.buf[h].d, i, <<u>>))

InsertBuffer(h, i, g) ==
    /\ Room(h, buf[g].size)
    /\ g # h \/ "insert" \in SelfArgument
    /\ LET n == buf[g].size
           grown == ReallocWithSplit(now, h, LargerCap(h, buf[h].size + n), i, n)
       IN  Becomes(Memcpy(grown, grown.buf[h].d, i, grown.buf[g].d, 0, grown.buf[g].size))

\* resize(n), after which the program fills the elements that are new with u.
Resize(h, n, u) ==
    LET grown == Grow(now, h, n)
        new == n - buf[h].size
        resized == Terminate([grown EXCEPT !.buf[h].size = n], h)
    IN  Becomes(IF new <= 0 THEN resized
                ELSE Put(resized, resized.buf[h].d, buf[h].size, [i \in 1..new |-> u]))

Reserve(h, n) ==
    IF GetGrownCapacity(n) >= buf[h].size THEN Becomes(GrowExactly(now, h, GetGrownCapacity(n)))
    ELSE UNCHANGED vars

Squeeze(h) == Becomes(Realloc(now, h, buf[h].size, 0, 0))

\* mget(), and a write through the pointer.
Store(h, i, u) == LET unique == EnsureUniqueness(now, h) IN Becomes(Put(unique, unique.buf[h].d, i, <<u>>))

Content(h) == Cells(now, buf[h].d, 0, buf[h].size)
Kept(h) == {i \in 1..buf[h].size: Content(h)[i] \notin Trimmed}

LTrim(h) ==
    LET k == IF Kept(h) = {} THEN buf[h].size ELSE Min(Kept(h)) - 1
    IN  Becomes(Realloc(now, h, LargerCap(h, buf[h].cap), k, 0))

RTrim(h) == Becomes(Terminate([EnsureUniqueness(now, h) EXCEPT !.buf[h].size = Max(Kept(h) \cup {0})], h))

Next ==
    \/ \E h \in Handles:
        \/ Default(h) \/ FromData(h) \/ WithCapacity(h) \/ ReadAlias(h) \/ WriteAlias(h)
        \/ Squeeze(h)
        \/ \E n \in Capacities: Reserve(h, n)
        \/ \E n \in 0..MaxSize, u \in Elem: Resize(h, n, u)
        \/ \E u \in Elem: AppendUnit(h, u) \/ PrependUnit(h, u)
        \/ \E i \in 0..buf[h].size, u \in Elem: InsertUnit(h, i, u)
        \/ \E i \in 0..(buf[h].size - 1), u \in Elem: Store(h, i, u)
    \/ \E h \in Strings: LTrim(h) \/ RTrim(h) \/ \E g \in Bytes: ToCString(h, g) \/ ToByteArray(g, h)
    \/ \E T \in {Strings, Bytes}: \E h, g \in T:
        \/ AppendBuffer(h, g) \/ PrependBuffer(h, g)
        \/ \E i \in 0..buf[h].size: InsertBuffer(h, i, g)
        \/ h # g /\ Assign(h, g)

Spec == Init /\ [][Next]_vars

----------------------------------------------------------------------------
\* Only an object that aliases read-only memory holds the second reference.
TypeOK ==
    /\ mem \in [Heap \cup {Empty, Rom, Ram} -> Seq(Cell)]
    /\ \A h \in Handles:
        /\ buf[h].d \in DOMAIN mem
        /\ buf[h].size \in 0..MaxSize /\ buf[h].cap \in 0..(Wrap - 1)
        /\ buf[h].isnull \in BOOLEAN /\ (buf[h].dummy <=> buf[h].d = Rom)
    /\ wild \in BOOLEAN

\* The block holds as much as the object believes: its capacity, and the
\* terminator of a string (AbstractSharedBuffer.h:57-59).
Allocated == \A h \in Handles:
    /\ buf[h].size <= buf[h].cap
    /\ buf[h].cap + TermLen(h) <= Len(mem[buf[h].d])

\* No operation reads or writes outside of a block.
InBounds == ~wild

\* The data of a string are followed by the terminator, whoever wrote to the
\* block last, a ByteArray that shares it included.
Terminated == \A h \in Strings: Cells(now, buf[h].d, buf[h].size, 1) = <<Term>>

\* Read-aliased memory, and the array all null buffers share, are never written.
ReadOnly == mem[Rom] = RomCells /\ mem[Empty] = <<Term>>

\* Copy-on-write is invisible: the objects behave as independent values.
Values == INSTANCE BufferValues WITH
    val <- [h \in Handles |-> Content(h)],
    isnull <- [h \in Handles |-> buf[h].isnull]
ValueSemantics == Values!Spec

\* reserve() decreases a capacity that is greater than what it is asked for
\* (AbstractSharedBuffer.h:204).
ReserveDecreases == [][\A h \in Handles, n \in Capacities:
    Reserve(h, n) /\ GetGrownCapacity(n) \in buf[h].size..(buf[h].cap - 1) => buf'[h].cap < buf[h].cap]_vars
=============================================================================
