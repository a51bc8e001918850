---------------------- MODULE SharedBufferProofs ----------------------
(***************************************************************************)
(* Theorems about SharedBuffer, for any finite set of objects, any data    *)
(* and any sizes: what the objects believe of their memory is true, no     *)
(* operation leaves its block, and sharing is not observable.              *)
(*                                                                         *)
(* The invariant, Fine, is stated of a state s rather than of the          *)
(* variables, because an operation is a composition of changes of a state  *)
(* (SharedBuffer has `now', and Becomes at the end). An operation that     *)
(* writes first makes h the owner of its block (Owns), builds the value    *)
(* (Holds) and completes it (Done); Done implies Fine, and its effect on   *)
(* the values is Effect(h, v).                                             *)
(***************************************************************************)
EXTENDS SharedBuffer, FiniteSetTheorems, SequenceTheorems,
        WellFoundedInduction, TLAPS

\* Induction over the subsets of a finite set.
LEMMA SubsetInduction ==
  ASSUME NEW S, IsFiniteSet(S), NEW G,
         \A T \in SUBSET S : (\A U \in SUBSET T : U # T => U \in G) => T \in G
  PROVE  \A T \in SUBSET S : T \in G
<1>1. IsWellFoundedOn(StrictSubsetOrdering(S), SUBSET S)
  BY FS_StrictSubsetOrderingWellFounded, FS_FiniteSubsetsOfFinite
<1>2. SUFFICES ASSUME (SUBSET S) \ G # {} PROVE FALSE
  OBVIOUS
<1>3. PICK T \in (SUBSET S) \ G : \A U \in (SUBSET S) \ G : ~(<<U, T>> \in StrictSubsetOrdering(S))
  <2> DEFINE R == StrictSubsetOrdering(S)
             A == SUBSET S
             D == (SUBSET S) \ G
  <2>1. IsWellFoundedOn(R, A) /\ D \subseteq A /\ D # {}
    BY <1>1, <1>2
  <2>2. ASSUME IsWellFoundedOn(R, A), D \subseteq A, D # {}
        PROVE  \E x \in D : \A y \in D : ~ (<<y, x>> \in R)
    <3> HIDE DEF R, A, D
    <3> QED  BY <2>2, WFMin
  <2> QED  BY <2>1, <2>2
<1>4. ASSUME NEW U \in SUBSET T, U # T PROVE U \in G
  <2>1. <<U, T>> \in StrictSubsetOrdering(S)
    BY <1>4 DEF StrictSubsetOrdering
  <2> QED  BY <2>1, <1>3
<1> QED  BY <1>3, <1>4

\* Induction up to a number.
LEMMA IntervalInduction ==
  ASSUME NEW n \in Nat, NEW G, 0 \in G, \A i \in 1..n : i - 1 \in G => i \in G
  PROVE  \A i \in 0..n : i \in G
<1> DEFINE S == 1..n
           H == {T \in SUBSET S : \A i \in 0..n : T = 1..i => i \in G}
<1>1. ASSUME NEW T \in SUBSET S, \A U \in SUBSET T : U # T => U \in H
      PROVE  T \in H
  <2> SUFFICES ASSUME NEW i \in 1..n, T = 1..i PROVE i \in G
    OBVIOUS
  <2>1. 1..(i - 1) \in SUBSET T /\ i \in T /\ i \notin 1..(i - 1)
    OBVIOUS
  <2>2. 1..(i - 1) \in H
    BY <1>1, <2>1
  <2> QED  BY <2>2
<1>2. IsFiniteSet(S)
  BY FS_Interval
<1>3. \A T \in SUBSET S : T \in H
  <2> HIDE DEF S, H
  <2> QED  BY <1>1, <1>2, SubsetInduction
<1>4. ASSUME NEW i \in 0..n PROVE i \in G
  <2>1. 1..i \in SUBSET S
    OBVIOUS
  <2>2. 1..i \in H
    BY <1>3, <2>1
  <2> QED  BY <2>2
<1> QED  BY <1>4


\* Every set of natural numbers has a least element.
LEMMA Least ==
  ASSUME NEW S \in SUBSET Nat, S # {}
  PROVE  \E m \in S : \A n \in S : m <= n
<1> SUFFICES ASSUME \A m \in S : \E n \in S : n < m PROVE FALSE
  OBVIOUS
<1> PICK top \in S : TRUE
  OBVIOUS
<1> DEFINE G == {i \in Nat : \A j \in 0..i : j \notin S}
<1>1. 0 \in G
  OBVIOUS
<1>2. ASSUME NEW i \in 1..top, i - 1 \in G PROVE i \in G
  <2>1. \A n \in S : ~(n < i)
    BY <1>2
  <2> QED  BY <2>1
<1>3. \A i \in 0..top : i \in G
  <2> HIDE DEF G
  <2> QED  BY <1>1, <1>2, IntervalInduction
<1> QED  BY <1>3

\* What the library's Min and Max choose.
LEMMA MinIs ==
  ASSUME NEW S \in SUBSET Nat, S # {}
  PROVE  Min(S) \in S /\ \A n \in S : Min(S) <= n
BY Least DEF Min

\* The greatest element of a finite, non-empty set of naturals.
LEMMA MaxIs ==
  ASSUME NEW S, NEW n \in Nat, S \subseteq 0..n, S # {}
  PROVE  Max(S) \in S /\ \A i \in S : i <= Max(S)
<1> DEFINE T == {n - i : i \in S}
<1>1. PICK m \in T : \A t \in T : m <= t
  <2>1. T \subseteq Nat /\ T # {}
    <3>1. \A i \in S : n - i \in Nat
      OBVIOUS
    <3>2. PICK i \in S : TRUE
      OBVIOUS
    <3> QED  BY <3>1, <3>2
  <2> HIDE DEF T
  <2> QED  BY <2>1, Least
<1>2. n - m \in S /\ \A i \in S : n - m >= i
  BY <1>1
<1> QED  BY <1>2 DEF Max

(***************************************************************************)
(* The largest power of two the capacities are rounded up to.              *)
(***************************************************************************)
Suffices(k) == 2^k + 1 < Wrap /\ 2^k >= 3 /\ 2^k > MaxSize /\ \A n \in Capacities: n <= 2^k

\* The power of two that PowerAssumption promises bounds every capacity.
Exponent == CHOOSE k \in 0..Wrap: Suffices(k)

Largest == 2^Exponent

\* The powers of two grow with their exponents, and are not exceeded by them.
LEMMA PowersGrow ==
  \A i \in 0..Wrap : 2^i \in Nat /\ 2^i > i /\ \A j \in 0..i : 2^j \in Nat /\ 2^j <= 2^i
<1> Wrap \in Nat
  BY BufferAssumption
<1> DEFINE G == {i \in Nat : 2^i \in Nat /\ 2^i > i /\ \A j \in 0..i : 2^j \in Nat /\ 2^j <= 2^i}
<1>1. 0 \in G
  <2>1. 2^0 = 1
    OBVIOUS
  <2>2. 2^0 \in Nat /\ 2^0 > 0
    BY <2>1
  <2>3. ASSUME NEW j \in 0..0 PROVE 2^j \in Nat /\ 2^j <= 2^0
    <3>1. j = 0
      OBVIOUS
    <3> QED  BY <3>1, <2>2
  <2> QED  BY <2>2, <2>3
<1>2. ASSUME NEW i \in 1..Wrap, i - 1 \in G PROVE i \in G
  <2>1. 2^i = 2 * 2^(i - 1) /\ i \in Nat
    BY DoublingAssumption
  <2>2. 2^(i - 1) \in Nat /\ 2^(i - 1) > i - 1 /\ \A j \in 0..(i - 1) : 2^j \in Nat /\ 2^j <= 2^(i - 1)
    BY <1>2
  <2>3. 2^i \in Nat /\ 2^i > i /\ 2^(i - 1) <= 2^i
    BY <2>1, <2>2
  <2>4. \A j \in 0..i : j = i \/ j \in 0..(i - 1)
    OBVIOUS
  <2>5. \A j \in 0..i : 2^j \in Nat /\ 2^j <= 2^i
    BY <2>2, <2>3, <2>4
  <2> QED  BY <2>1, <2>3, <2>5
<1>3. \A i \in 0..Wrap : i \in G
  <2> HIDE DEF G
  <2> QED  BY <1>1, <1>2, IntervalInduction
<1> QED  BY <1>3

LEMMA LargestIs ==
  /\ Exponent \in 0..Wrap /\ Wrap \in Nat /\ Largest \in Nat
  /\ Largest + 1 < Wrap /\ Largest >= 3 /\ Largest > MaxSize
  /\ \A n \in Capacities: n <= Largest
  /\ MaxSize \in Nat /\ MaxSize >= 1
<1>1. \E k \in 0..Wrap : Suffices(k)
  BY PowerAssumption DEF Suffices
<1>2. Exponent \in 0..Wrap /\ Suffices(Exponent)
  BY <1>1, Zenon DEF Exponent
<1> QED  BY <1>2, PowersGrow, BufferAssumption DEF Largest, Suffices

\* getGrownCapacity() returns what it is asked for or more, and no more than
\* the largest power.
LEMMA GrownIs ==
  ASSUME NEW n \in 0..Largest
  PROVE  GetGrownCapacity(n) \in n..Largest
<1> USE LargestIs
<1>1. CASE n = 0
  BY <1>1 DEF GetGrownCapacity
<1>2. CASE n # 0
  <2> DEFINE S == {p \in {2^k: k \in 0..n}: p >= n}
  <2>1. \A k \in 0..n : k \in 0..Wrap /\ 2^k \in Nat
    BY PowersGrow
  <2>2. S \subseteq Nat
    BY <2>1
  <2>3. PICK e \in 0..n : 2^e >= n /\ 2^e <= Largest
    <3>1. CASE n <= Exponent
      <4>1. 2^n <= 2^Exponent /\ 2^n > n
        BY <3>1, PowersGrow
      <4> QED  BY <4>1 DEF Largest
    <3>2. CASE n > Exponent
      BY <3>2 DEF Largest
    <3> QED  BY <3>1, <3>2
  <2>4. 2^e \in S
    BY <2>3
  <2>5. Min(S) \in S /\ \A p \in S : Min(S) <= p
    <3> HIDE DEF S
    <3> QED  BY <2>2, <2>4, MinIs
  <2>6. Min(S) \in Nat /\ Min(S) >= n /\ Min(S) <= Largest
    <3>1. Min(S) <= 2^e /\ 2^e \in Nat /\ Min(S) \in Nat
      BY <2>1, <2>2, <2>4, <2>5, Zenon
    <3>2. Min(S) >= n
      BY <2>5
    <3> HIDE DEF S
    <3> QED  BY <3>1, <3>2, <2>3
  <2>7. GetGrownCapacity(n) = Min(S)
    BY <1>2 DEF GetGrownCapacity
  <2> HIDE DEF S
  <2> QED  BY <2>6, <2>7
<1> QED  BY <1>1, <1>2

(***************************************************************************)
(* The states of the memory and of the objects that operations go through. *)
(***************************************************************************)
Blocks == Heap \cup {Empty, Rom, Ram}
\* What an object is, and what a state is.
Object == [d: Blocks, size: Nat, cap: Nat, isnull: BOOLEAN, dummy: BOOLEAN]
State == [mem: [Blocks -> Seq(Cell)], buf: [Handles -> Object], wild: BOOLEAN]

LEMMA HandlesFinite == IsFiniteSet(Handles) /\ Cardinality(Handles) \in Nat
BY BufferAssumption, FS_CardinalityType

\* The static blocks are none of the allocated ones, nor each other.
LEMMA BlocksIs ==
  /\ Heap \subseteq Nat /\ Empty \notin Heap /\ Rom \notin Heap /\ Ram \notin Heap
  /\ Empty # Rom /\ Empty # Ram /\ Rom # Ram
BY HandlesFinite DEF Heap, Empty, Rom, Ram

\* The types of the parts of a state.
LEMMA StateParts ==
  ASSUME NEW s \in State
  PROVE  /\ s.mem \in [Blocks -> Seq(Cell)] /\ s.wild \in BOOLEAN
         /\ s.buf \in [Handles -> Object]
         /\ s = [mem |-> s.mem, buf |-> s.buf, wild |-> s.wild]
         /\ \A h \in Handles : /\ s.buf[h].d \in Blocks
                               /\ s.buf[h].size \in Nat /\ s.buf[h].cap \in Nat
                               /\ s.buf[h].isnull \in BOOLEAN /\ s.buf[h].dummy \in BOOLEAN
         /\ \A b \in Blocks : s.mem[b] \in Seq(Cell) /\ Len(s.mem[b]) \in Nat
BY DEF State, Object

\* There is a block for the next object.
LEMMA FreeIs ==
  ASSUME NEW s \in State
  PROVE  Free(s) \in Heap /\ \A h \in Handles : s.buf[h].d # Free(s)
<1> DEFINE N == Cardinality(Handles)
           D == {s.buf[h].d : h \in Handles}
<1>1. IsFiniteSet(D) /\ Cardinality(D) <= N
  <2> PICK f : f = [h \in Handles |-> s.buf[h].d]
    OBVIOUS
  <2>1. f \in Surjection(Handles, D)
    BY DEF Surjection
  <2> HIDE DEF D
  <2> QED  BY <2>1, HandlesFinite, FS_Surjection DEF N
<1>2. IsFiniteSet(Heap) /\ Cardinality(Heap) = N + 1
  BY HandlesFinite, FS_Interval DEF Heap
<1>3. ~(Heap \subseteq D)
  <2>1. Cardinality(D) \in Nat
    BY <1>1, FS_CardinalityType
  <2> HIDE DEF D, N
  <2>2. N \in Nat
    BY HandlesFinite DEF N
  <2> QED  BY <1>1, <1>2, <2>1, <2>2, FS_Subset
<1>4. \E b \in Heap : UsersOf(s, b) = {}
  BY <1>3 DEF UsersOf
<1>5. Free(s) \in Heap /\ UsersOf(s, Free(s)) = {}
  BY <1>4, Zenon DEF Free
<1> QED  BY <1>5 DEF UsersOf

LEMMA TermLenIs == \A h \in Handles : /\ h \in Strings => TermLen(h) = 1
                                      /\ h \notin Strings => TermLen(h) = 0
                                      /\ TermLen(h) \in {0, 1}
BY DEF TermLen

\* Writing cells[1 ...] at the place `at' of the block b.
Written(s, t, b, at, cells) ==
  /\ t \in State /\ t.buf = s.buf /\ t.wild = s.wild
  /\ \A c \in Blocks : c # b => t.mem[c] = s.mem[c]
  /\ Len(t.mem[b]) = Len(s.mem[b])
  /\ \A i \in 1..Len(cells) : t.mem[b][at + i] = cells[i]
  /\ \A i \in 1..Len(s.mem[b]) : i <= at \/ i > at + Len(cells) => t.mem[b][i] = s.mem[b][i]

\* Writing cells writes them, and nothing else, if they fit.
LEMMA PutIs ==
  ASSUME NEW s \in State, NEW b \in Blocks, NEW at \in Nat, NEW cells \in Seq(Cell),
         at + Len(cells) <= Len(s.mem[b])
  PROVE  Written(s, Put(s, b, at, cells), b, at, cells)
<1> PICK new : new = [i \in DOMAIN s.mem[b] |-> IF i - at \in DOMAIN cells THEN cells[i - at] ELSE s.mem[b][i]]
  OBVIOUS
<1> USE StateParts
<1>1. DOMAIN s.mem[b] = 1..Len(s.mem[b]) /\ DOMAIN cells = 1..Len(cells) /\ Len(s.mem[b]) \in Nat /\ Len(cells) \in Nat
  OBVIOUS
<1>2. \A i \in 1..Len(s.mem[b]) : new[i] = IF i - at \in 1..Len(cells) THEN cells[i - at] ELSE s.mem[b][i]
  BY <1>1
<1>3. \A i \in 1..Len(s.mem[b]) : new[i] \in Cell
  BY <1>1, <1>2
<1>4. new \in Seq(Cell) /\ Len(new) = Len(s.mem[b])
  <2>1. new \in [1..Len(s.mem[b]) -> Cell]
    BY <1>1, <1>3
  <2> QED  BY <2>1, <1>1
<1> PICK t : t = Put(s, b, at, cells)
  OBVIOUS
<1>5. t = [mem |-> [s.mem EXCEPT ![b] = new], buf |-> s.buf, wild |-> s.wild]
  <2>1. Fits(s, b, at, Len(cells))
    BY DEF Fits
  <2>2. Put(s, b, at, cells) = [[s EXCEPT !.mem[b] = new] EXCEPT !.wild = s.wild]
    BY <2>1 DEF Put, State
  <2> QED  BY <2>2 DEF State
<1>6. t.mem = [s.mem EXCEPT ![b] = new] /\ t.buf = s.buf /\ t.wild = s.wild
  BY <1>5
<1>7. t.mem \in [Blocks -> Seq(Cell)] /\ t.mem[b] = new /\ \A c \in Blocks : c # b => t.mem[c] = s.mem[c]
  BY <1>6, <1>4
<1>8. t \in State
  BY <1>5, <1>6, <1>7 DEF State
<1>9. \A i \in 1..Len(cells) : new[at + i] = cells[i]
  BY <1>1, <1>2
<1>10. \A i \in 1..Len(s.mem[b]) : i <= at \/ i > at + Len(cells) => new[i] = s.mem[b][i]
  BY <1>1, <1>2
<1> QED  BY <1>4, <1>6, <1>7, <1>8, <1>9, <1>10 DEF Written

\* What is read from a block is what is there, as far as it goes.
LEMMA CellsIs ==
  ASSUME NEW s \in State, NEW b \in Blocks, NEW at \in Nat, NEW n \in Nat
  PROVE  /\ Cells(s, b, at, n) \in Seq(Cell) /\ Len(Cells(s, b, at, n)) = n
         /\ \A i \in 1..n : at + i <= Len(s.mem[b]) => Cells(s, b, at, n)[i] = s.mem[b][at + i]
<1> USE StateParts
<1>1. \A i \in 1..n : (IF at + i <= Len(s.mem[b]) THEN s.mem[b][at + i] ELSE Junk) \in Cell
  BY DEF Cell
<1>2. Cells(s, b, at, n) \in [1..n -> Cell]
  BY <1>1 DEF Cells
<1> QED  BY <1>2 DEF Cells

\* Copying n cells.
LEMMA MemcpyIs ==
  ASSUME NEW s \in State, NEW b \in Blocks, NEW to \in Nat, NEW c \in Blocks, NEW from \in Nat, NEW n \in Nat,
         to + n <= Len(s.mem[b]), from + n <= Len(s.mem[c])
  PROVE  \E cells \in Seq(Cell) :
           /\ Len(cells) = n /\ \A i \in 1..n : cells[i] = s.mem[c][from + i]
           /\ Written(s, Memcpy(s, b, to, c, from, n), b, to, cells)
<1> PICK cells : cells = Cells(s, c, from, n)
  OBVIOUS
<1>1. cells \in Seq(Cell) /\ Len(cells) = n /\ \A i \in 1..n : cells[i] = s.mem[c][from + i]
  <2>1. Len(s.mem[c]) \in Nat
    BY StateParts
  <2>2. \A i \in 1..n : from + i <= Len(s.mem[c])
    BY <2>1
  <2>3. Cells(s, c, from, n) \in Seq(Cell) /\ Len(Cells(s, c, from, n)) = n
        /\ \A i \in 1..n : from + i <= Len(s.mem[c]) => Cells(s, c, from, n)[i] = s.mem[c][from + i]
    BY CellsIs
  <2> QED  BY <2>2, <2>3
<1> PICK t : t = Put(s, b, to, cells)
  OBVIOUS
<1>2. Written(s, t, b, to, cells)
  BY <1>1, PutIs
<1>3. Memcpy(s, b, to, c, from, n) = [t EXCEPT !.wild = t.wild \/ ~Fits(s, c, from, n)]
  BY DEF Memcpy
<1>4. Memcpy(s, b, to, c, from, n) = t
  <2>1. t \in State
    BY <1>2 DEF Written
  <2>2. Fits(s, c, from, n)
    BY DEF Fits
  <2>3. (t.wild \/ ~Fits(s, c, from, n)) = t.wild
    BY <2>1, <2>2 DEF State
  <2> QED  BY <1>3, <2>1, <2>3 DEF State
<1> QED  BY <1>1, <1>2, <1>4

(***************************************************************************)
(* The inductive invariant, of any state s; it is the one of `now'.        *)
(***************************************************************************)
Sound(s, h) ==
  /\ s.buf[h].size <= MaxSize /\ s.buf[h].size <= s.buf[h].cap /\ s.buf[h].cap <= Largest
  /\ s.buf[h].cap + TermLen(h) <= Len(s.mem[s.buf[h].d])
  /\ s.buf[h].dummy <=> s.buf[h].d = Rom
  /\ s.buf[h].d = Empty => s.buf[h].cap = 0
  /\ s.buf[h].isnull => s.buf[h].d = Empty
  /\ s.buf[h].d = Rom => s.buf[h].cap = 1 /\ s.buf[h].size = 1
  /\ h \in Strings => s.mem[s.buf[h].d][s.buf[h].size + 1] = Term

\* Objects that share a block agree on the size: whoever changes it owns the block.
Fine(s) ==
  /\ s \in State /\ s.wild = FALSE
  /\ s.mem[Rom] = RomCells /\ s.mem[Empty] = <<Term>>
  /\ \A h \in Handles : Sound(s, h)
  /\ \A g, h \in Handles : s.buf[g].d = s.buf[h].d => s.buf[g].size = s.buf[h].size

\* A bound on the capacity is one on the size.
LEMMA BelowCapacity ==
  ASSUME NEW size \in Int, NEW cap \in Int, NEW one \in Int, NEW len \in Int, size <= cap, cap + one <= len
  PROVE  size + one <= len
OBVIOUS

\* The data and the terminator are in the block.
LEMMA FitsBlock ==
  ASSUME NEW s, Fine(s), NEW h \in Handles
  PROVE  /\ s.buf[h].size \in Nat /\ Len(s.mem[s.buf[h].d]) \in Nat
         /\ s.buf[h].size + TermLen(h) <= Len(s.mem[s.buf[h].d])
<1>1. /\ s.buf[h].size \in Nat /\ s.buf[h].cap \in Nat /\ Len(s.mem[s.buf[h].d]) \in Nat
  <2>1. s \in State
    BY DEF Fine
  <2> QED  BY <2>1, StateParts
<1>2. s.buf[h].size <= s.buf[h].cap /\ s.buf[h].cap + TermLen(h) <= Len(s.mem[s.buf[h].d])
  BY DEF Fine, Sound
<1>3. TermLen(h) \in Int
  BY TermLenIs
<1>4. s.buf[h].size + TermLen(h) <= Len(s.mem[s.buf[h].d])
  <2>1. s.buf[h].size \in Int /\ s.buf[h].cap \in Int /\ Len(s.mem[s.buf[h].d]) \in Int
    BY <1>1
  <2> QED  BY <2>1, <1>2, <1>3, BelowCapacity, Zenon
<1> QED  BY <1>1, <1>4

\* What an object holds.
Value(s, h) == Cells(s, s.buf[h].d, 0, s.buf[h].size)

LEMMA ValueIs ==
  ASSUME NEW s, Fine(s), NEW h \in Handles
  PROVE  /\ Value(s, h) \in Seq(Cell) /\ Len(Value(s, h)) = s.buf[h].size
         /\ \A i \in 1..s.buf[h].size : Value(s, h)[i] = s.mem[s.buf[h].d][i]
<1> s \in State /\ Sound(s, h)
  BY DEF Fine
<1>1. s.buf[h].d \in Blocks /\ s.buf[h].size \in Nat /\ s.buf[h].cap \in Nat /\ Len(s.mem[s.buf[h].d]) \in Nat
  BY StateParts
<1> PICK zero \in Nat : zero = 0
  OBVIOUS
<1> PICK v : v = Cells(s, s.buf[h].d, zero, s.buf[h].size)
  OBVIOUS
<1>2. /\ v \in Seq(Cell) /\ Len(v) = s.buf[h].size
      /\ \A i \in 1..s.buf[h].size : zero + i <= Len(s.mem[s.buf[h].d]) => v[i] = s.mem[s.buf[h].d][zero + i]
  BY <1>1, CellsIs, ZenonT(30)
<1>3. \A i \in 1..s.buf[h].size : zero + i = i /\ i <= Len(s.mem[s.buf[h].d])
  BY <1>1, TermLenIs, SMTT(30) DEF Sound
<1>4. Value(s, h) = v
  BY DEF Value
<1>5. \A i \in 1..s.buf[h].size : v[i] = s.mem[s.buf[h].d][i]
  BY <1>2, <1>3
<1> QED  BY <1>2, <1>4, <1>5

\* What the users of a block know of it is not forgotten.
LEMMA KnownIs ==
  ASSUME NEW s, Fine(s), NEW h \in Handles
  PROVE  Known(s, s.buf[h].d) \in Nat /\ s.buf[h].size + TermLen(h) <= Known(s, s.buf[h].d)
<1> DEFINE S == {s.buf[g].size + TermLen(g): g \in UsersOf(s, s.buf[h].d)} \cup {0}
<1> s \in State
  BY DEF Fine
<1>1. \A g \in Handles : s.buf[g].size + TermLen(g) \in 0..(MaxSize + 1)
  BY StateParts, TermLenIs, LargestIs DEF Fine, Sound
<1>2. S \subseteq 0..(MaxSize + 1)
  BY <1>1, LargestIs DEF UsersOf
<1>3. Max(S) \in S /\ \A i \in S : i <= Max(S)
  <2>1. S # {} /\ MaxSize + 1 \in Nat
    BY LargestIs
  <2> HIDE DEF S
  <2> QED  BY <1>2, <2>1, MaxIs
<1>4. s.buf[h].size + TermLen(h) \in S
  BY DEF UsersOf
<1>5. Known(s, s.buf[h].d) = Max(S)
  BY DEF Known
<1>6. Max(S) \in 0..(MaxSize + 1)
  <2> HIDE DEF S
  <2> QED  BY <1>2, <1>3
<1>7. s.buf[h].size + TermLen(h) <= Max(S)
  <2> HIDE DEF S
  <2> QED  BY <1>3, <1>4
<1> HIDE DEF S
<1> QED  BY <1>5, <1>6, <1>7

\* What nobody can know of a block is forgotten, and only that.
LEMMA ForgetIs ==
  ASSUME NEW s \in State, NEW b \in Blocks
  PROVE  /\ Forget(s, b) \in Seq(Cell) /\ Len(Forget(s, b)) = Len(s.mem[b])
         /\ \A i \in 1..Len(s.mem[b]) : i <= Known(s, b) => Forget(s, b)[i] = s.mem[b][i]
<1> USE StateParts
<1>1. DOMAIN s.mem[b] = 1..Len(s.mem[b]) /\ Len(s.mem[b]) \in Nat
  OBVIOUS
<1>2. \A i \in 1..Len(s.mem[b]) : (IF i <= Known(s, b) THEN s.mem[b][i] ELSE Junk) \in Cell
  BY <1>1 DEF Cell
<1>3. Forget(s, b) \in [1..Len(s.mem[b]) -> Cell]
  BY <1>1, <1>2 DEF Forget
<1>4. \A i \in 1..Len(s.mem[b]) : Forget(s, b)[i] = IF i <= Known(s, b) THEN s.mem[b][i] ELSE Junk
  BY <1>1 DEF Forget
<1> QED  BY <1>1, <1>3, <1>4

\* The end of an operation: the objects keep what they have.
LEMMA BecomesFine ==
  ASSUME now \in State, NEW t, Fine(t), Becomes(t)
  PROVE  Fine(now)' /\ buf' = t.buf /\ \A h \in Handles : Content(h)' = Value(t, h)
<1> USE BlocksIs
<1> PICK r : r = now'
  OBVIOUS
<1> t \in State
  BY DEF Fine
<1>1. r.mem = mem' /\ r.buf = buf' /\ r.wild = wild' /\ r = [mem |-> mem', buf |-> buf', wild |-> wild']
  BY DEF now
<1>2. DOMAIN mem = Blocks
  BY StateParts DEF now
<1>3. r.buf = t.buf /\ r.wild = t.wild
  BY <1>1 DEF Becomes
<1>4. r.mem = [b \in Blocks |-> CASE b \in Heap /\ UsersOf(t, b) = {} -> <<>>
                   [] b \in {Empty, Rom} -> t.mem[b]
                   [] OTHER -> Forget(t, b)]
  BY <1>1, <1>2 DEF Becomes
<1>5. ASSUME NEW b \in Blocks
      PROVE  \/ b \in Heap /\ UsersOf(t, b) = {} /\ r.mem[b] = <<>>
             \/ b \in {Empty, Rom} /\ r.mem[b] = t.mem[b]
             \/ b \notin {Empty, Rom} /\ r.mem[b] = Forget(t, b)
  <2>1. r.mem[b] = CASE b \in Heap /\ UsersOf(t, b) = {} -> <<>>
                   [] b \in {Empty, Rom} -> t.mem[b]
                   [] OTHER -> Forget(t, b)
    BY <1>4
  <2>2. CASE b \in {Empty, Rom}
    BY <2>1, <2>2
  <2>3. CASE b \in Heap /\ UsersOf(t, b) = {}
    BY <2>1, <2>3
  <2>4. CASE b \notin {Empty, Rom} /\ ~(b \in Heap /\ UsersOf(t, b) = {})
    BY <2>1, <2>4
  <2> QED  BY <2>2, <2>3, <2>4
<1>6. \A b \in Blocks : r.mem[b] \in Seq(Cell)
  <2>1. <<>> \in Seq(Cell)
    OBVIOUS
  <2> QED  BY <1>5, <2>1, StateParts, ForgetIs
<1>7. r \in State
  <2>1. r.mem \in [Blocks -> Seq(Cell)]
    BY <1>4, <1>6
  <2>2. r.buf \in [Handles -> Object] /\ r.wild \in BOOLEAN
    BY <1>3, StateParts
  <2> QED  BY <1>1, <2>1, <2>2 DEF State
<1>8. ASSUME NEW h \in Handles
      PROVE  /\ r.buf[h] = t.buf[h] /\ r.buf[h].d \in Blocks
             /\ Len(r.mem[r.buf[h].d]) = Len(t.mem[t.buf[h].d])
             /\ \A i \in 1..(t.buf[h].size + TermLen(h)) : r.mem[r.buf[h].d][i] = t.mem[t.buf[h].d][i]
  <2> PICK b : b = t.buf[h].d
    OBVIOUS
  <2>1. b \in Blocks /\ UsersOf(t, b) # {}
    BY StateParts DEF UsersOf
  <2>2. CASE b \in {Empty, Rom}
    BY <1>3, <1>5, <2>1, <2>2
  <2>3. CASE b \notin {Empty, Rom}
    <3>1. r.mem[b] = Forget(t, b)
      BY <1>5, <2>1, <2>3
    <3>2. Known(t, b) \in Nat /\ t.buf[h].size + TermLen(h) <= Known(t, b)
      BY KnownIs
    <3>3. t.buf[h].size + TermLen(h) <= Len(t.mem[b]) /\ Len(t.mem[b]) \in Nat /\ t.buf[h].size \in Nat
      BY <2>1, FitsBlock
    <3>4. \A i \in 1..(t.buf[h].size + TermLen(h)) : i \in 1..Len(t.mem[b]) /\ i <= Known(t, b)
      <4>1. TermLen(h) \in Nat
        BY TermLenIs
      <4>2. t.buf[h].size + TermLen(h) \in Nat
        BY <3>3, <4>1
      <4>3. PICK z \in Nat : z = t.buf[h].size + TermLen(h)
        BY <4>2
      <4>4. PICK len \in Nat : len = Len(t.mem[b])
        BY <3>3
      <4>5. PICK known \in Nat : known = Known(t, b)
        BY <3>2
      <4>6. z <= len /\ z <= known
        BY <3>2, <3>3, <4>3, <4>4, <4>5
      <4>7. \A i \in 1..z : i \in 1..len /\ i <= known
        BY <4>6
      <4> QED  BY <4>3, <4>4, <4>5, <4>7
    <3> QED  BY <1>3, <2>1, <3>1, <3>4, ForgetIs
  <2> QED  BY <2>2, <2>3
<1>9. \A h \in Handles : Sound(r, h)
  <2> SUFFICES ASSUME NEW h \in Handles PROVE Sound(r, h)
    OBVIOUS
  <2>1. Sound(t, h) /\ t.buf[h].size \in Nat
    BY StateParts DEF Fine
  <2>2. h \in Strings => t.buf[h].size + 1 \in 1..(t.buf[h].size + TermLen(h))
    BY <2>1, TermLenIs
  <2>3. /\ r.buf[h] = t.buf[h] /\ Len(r.mem[r.buf[h].d]) = Len(t.mem[t.buf[h].d])
        /\ h \in Strings => r.mem[r.buf[h].d][t.buf[h].size + 1] = t.mem[t.buf[h].d][t.buf[h].size + 1]
    BY <1>8, <2>2
  <2>4. /\ r.buf[h].size <= MaxSize /\ r.buf[h].size <= r.buf[h].cap /\ r.buf[h].cap <= Largest
        /\ r.buf[h].cap + TermLen(h) <= Len(r.mem[r.buf[h].d])
    BY <2>1, <2>3 DEF Sound
  <2>5. /\ r.buf[h].dummy <=> r.buf[h].d = Rom
        /\ r.buf[h].d = Empty => r.buf[h].cap = 0
        /\ r.buf[h].isnull => r.buf[h].d = Empty
        /\ r.buf[h].d = Rom => r.buf[h].cap = 1 /\ r.buf[h].size = 1
    BY <2>1, <2>3 DEF Sound
  <2>6. h \in Strings => r.mem[r.buf[h].d][r.buf[h].size + 1] = Term
    BY <2>1, <2>3 DEF Sound
  <2> QED  BY <2>4, <2>5, <2>6 DEF Sound
<1>10. r.mem[Rom] = RomCells /\ r.mem[Empty] = <<Term>>
  <2>1. Rom \in Blocks /\ Empty \in Blocks
    BY DEF Blocks
  <2> QED  BY <1>5, <2>1 DEF Fine
<1>11. Fine(r)
  BY <1>3, <1>7, <1>9, <1>10 DEF Fine
<1>12. ASSUME NEW h \in Handles PROVE Value(r, h) = Value(t, h)
  <2>1. /\ Value(r, h) \in Seq(Cell) /\ Len(Value(r, h)) = r.buf[h].size
        /\ \A i \in 1..r.buf[h].size : Value(r, h)[i] = r.mem[r.buf[h].d][i]
    BY <1>11, ValueIs
  <2>2. /\ Value(t, h) \in Seq(Cell) /\ Len(Value(t, h)) = t.buf[h].size
        /\ \A i \in 1..t.buf[h].size : Value(t, h)[i] = t.mem[t.buf[h].d][i]
    BY ValueIs
  <2>3. \A i \in 1..t.buf[h].size : i \in 1..(t.buf[h].size + TermLen(h))
    BY TermLenIs, StateParts
  <2> QED  BY <2>1, <2>2, <2>3, <1>8
<1>13. \A h \in Handles : Content(h)' = Value(r, h)
  BY <1>1 DEF Content, Value
<1> QED  BY <1>3, <1>1, <1>11, <1>12, <1>13

(***************************************************************************)
(* What an operation on h may have done to the state of the variables when *)
(* it has a block of its own: the other objects have not noticed.          *)
(***************************************************************************)
Owns(t, h) ==
  /\ t \in State /\ t.wild = FALSE
  /\ \A g \in Handles : g # h => t.buf[g] = buf[g] /\ buf[g].d # t.buf[h].d /\ t.mem[buf[g].d] = mem[buf[g].d]
  /\ t.mem[Empty] = mem[Empty] /\ t.mem[Rom] = mem[Rom]
  /\ t.buf[h].d # Empty /\ t.buf[h].d # Rom
  /\ t.buf[h].dummy = FALSE /\ t.buf[h].isnull = FALSE
  /\ t.buf[h].cap <= Largest /\ t.buf[h].cap + TermLen(h) <= Len(t.mem[t.buf[h].d])

\* ... and there the value v so far.
Holds(t, h, v) ==
  /\ Owns(t, h) /\ v \in Seq(Cell) /\ Len(v) <= t.buf[h].cap
  /\ \A i \in 1..Len(v) : t.mem[t.buf[h].d][i] = v[i]

\* The operation is complete: h has the value v.
Done(t, h, v) ==
  /\ Holds(t, h, v) /\ t.buf[h].size = Len(v) /\ Len(v) <= MaxSize
  /\ h \in Strings => t.mem[t.buf[h].d][Len(v) + 1] = Term

\* Such a state satisfies the invariant, and only h has changed.
LEMMA DoneFine ==
  ASSUME Fine(now), NEW h \in Handles, NEW t, NEW v, Done(t, h, v)
  PROVE  /\ Fine(t) /\ Value(t, h) = v /\ t.buf[h].isnull = FALSE
         /\ \A g \in Handles : g # h => t.buf[g] = buf[g] /\ Value(t, g) = Content(g)
<1> Holds(t, h, v) /\ Owns(t, h) /\ t \in State /\ now \in State
  BY DEF Done, Holds, Owns, Fine
<1>1. now.buf = buf /\ now.mem = mem
  BY DEF now
<1>2. ASSUME NEW g \in Handles, g # h
      PROVE  t.buf[g] = now.buf[g] /\ t.mem[t.buf[g].d] = now.mem[now.buf[g].d] /\ t.buf[g].d # t.buf[h].d
  BY <1>1, <1>2 DEF Owns
<1>3. Sound(t, h)
  <2>1. Len(v) \in Nat
    BY DEF Holds
  <2> QED  BY <2>1 DEF Done, Holds, Owns, Sound
<1>4. ASSUME NEW g \in Handles, g # h PROVE Sound(t, g)
  <2>1. Sound(now, g)
    BY DEF Fine
  <2> QED  BY <2>1, <1>2, <1>4 DEF Sound
<1>5. t.mem[Rom] = RomCells /\ t.mem[Empty] = <<Term>>
  BY <1>1 DEF Owns, Fine
<1>6. \A f, g \in Handles : t.buf[f].d = t.buf[g].d => t.buf[f].size = t.buf[g].size
  BY <1>2 DEF Fine
<1>7. Fine(t)
  BY <1>3, <1>4, <1>5, <1>6 DEF Fine, Owns
<1>8. Value(t, h) = v
  <2>1. Value(t, h) \in Seq(Cell) /\ Len(Value(t, h)) = t.buf[h].size
        /\ \A i \in 1..t.buf[h].size : Value(t, h)[i] = t.mem[t.buf[h].d][i]
    BY <1>7, ValueIs
  <2> QED  BY <2>1 DEF Done, Holds
<1>9. ASSUME NEW g \in Handles, g # h PROVE Value(t, g) = Content(g)
  <2>1. Value(t, g) \in Seq(Cell) /\ Len(Value(t, g)) = t.buf[g].size
        /\ \A i \in 1..t.buf[g].size : Value(t, g)[i] = t.mem[t.buf[g].d][i]
    BY <1>7, ValueIs
  <2>2. Value(now, g) \in Seq(Cell) /\ Len(Value(now, g)) = now.buf[g].size
        /\ \A i \in 1..now.buf[g].size : Value(now, g)[i] = now.mem[now.buf[g].d][i]
    BY ValueIs
  <2>3. Value(now, g) = Content(g)
    BY <1>1 DEF Value, Content
  <2> QED  BY <2>1, <2>2, <2>3, <1>2, <1>9
<1> QED  BY <1>7, <1>8, <1>9 DEF Owns

\* A write to the block of h.
LEMMA WriteHolds ==
  ASSUME NEW h \in Handles, NEW s, NEW t, Owns(s, h), NEW at \in Nat, NEW cells \in Seq(Cell),
         at + Len(cells) <= Len(s.mem[s.buf[h].d]), Written(s, t, s.buf[h].d, at, cells)
  PROVE  Owns(t, h) /\ t.buf = s.buf
<1>1. s \in State /\ t \in State /\ t.buf = s.buf /\ t.wild = FALSE /\ Len(t.mem[t.buf[h].d]) = Len(s.mem[s.buf[h].d])
      /\ \A c \in Blocks : c # s.buf[h].d => t.mem[c] = s.mem[c]
  BY DEF Written, Owns
<1>2. Empty \in Blocks /\ Rom \in Blocks
  BY DEF Blocks
<1>3. \A g \in Handles : g # h => t.buf[g] = buf[g] /\ buf[g].d # t.buf[h].d /\ t.mem[buf[g].d] = mem[buf[g].d]
  BY <1>1, StateParts DEF Owns
<1>4. t.mem[Empty] = mem[Empty] /\ t.mem[Rom] = mem[Rom]
  BY <1>1, <1>2 DEF Owns
<1> QED  BY <1>1, <1>3, <1>4 DEF Owns

\* The terminator ends an operation.
LEMMA TerminateDone ==
  ASSUME NEW h \in Handles, NEW s, NEW v, Holds(s, h, v), s.buf[h].size = Len(v), Len(v) <= MaxSize
  PROVE  Done(Terminate(s, h), h, v) /\ Terminate(s, h).buf = s.buf
<1> Owns(s, h) /\ s \in State /\ v \in Seq(Cell)
  BY DEF Holds, Owns
<1>1. CASE h \notin Strings
  BY <1>1 DEF Terminate, Done
<1>2. CASE h \in Strings
  <2> PICK t : t = Terminate(s, h)
    OBVIOUS
  <2> PICK cells : cells = <<Term>>
    OBVIOUS
  <2> PICK b : b = s.buf[h].d
    OBVIOUS
  <2>1. cells \in Seq(Cell) /\ Len(cells) = 1 /\ cells[1] = Term
    BY DEF Cell
  <2>2. b \in Blocks /\ Len(s.mem[b]) \in Nat /\ Len(v) \in Nat
    BY StateParts
  <2>3. Len(v) + Len(cells) <= Len(s.mem[b])
    BY <1>2, <2>1, <2>2, TermLenIs, StateParts DEF Holds, Owns
  <2>4. t = Put(s, b, Len(v), cells)
    BY <1>2 DEF Terminate
  <2>5. Written(s, t, b, Len(v), cells)
    BY <2>1, <2>2, <2>3, <2>4, PutIs
  <2>6. Owns(t, h) /\ t.buf = s.buf
    BY <2>1, <2>2, <2>3, <2>5, WriteHolds
  <2>7. \A i \in 1..Len(v) : t.mem[b][i] = v[i]
    <3>1. \A i \in 1..Len(v) : i \in 1..Len(s.mem[b]) /\ i <= Len(v)
      BY <2>1, <2>2, <2>3
    <3> QED  BY <3>1, <2>5 DEF Written, Holds
  <2>8. t.mem[b][Len(v) + 1] = Term
    BY <2>1, <2>5 DEF Written
  <2> QED  BY <2>6, <2>7, <2>8 DEF Done, Holds
<1> QED  BY <1>1, <1>2

\* Elements of a complete value are replaced.
Overwritten(v, at, cells, w) ==
  /\ w \in Seq(Cell) /\ Len(w) = Len(v)
  /\ \A i \in 1..Len(cells) : w[at + i] = cells[i]
  /\ \A i \in 1..Len(v) : i <= at \/ i > at + Len(cells) => w[i] = v[i]

LEMMA OverwriteDone ==
  ASSUME NEW h \in Handles, NEW s, NEW v, Done(s, h, v), NEW t, NEW at \in Nat, NEW cells \in Seq(Cell),
         at + Len(cells) <= Len(v), Written(s, t, s.buf[h].d, at, cells)
  PROVE  \E w : Done(t, h, w) /\ Overwritten(v, at, cells, w)
<1> Holds(s, h, v) /\ Owns(s, h) /\ s \in State /\ v \in Seq(Cell)
  BY DEF Done, Holds, Owns
<1> PICK b : b = s.buf[h].d
  OBVIOUS
<1>1. b \in Blocks /\ Len(s.mem[b]) \in Nat /\ Len(v) \in Nat /\ Len(cells) \in Nat /\ s.buf[h].cap \in Nat
  BY StateParts
<1>2. Len(v) + TermLen(h) <= Len(s.mem[b])
  <2>1. PICK cap \in Nat : cap = s.buf[h].cap
    BY <1>1
  <2>2. PICK len \in Nat : len = Len(s.mem[b])
    BY <1>1
  <2>3. PICK one \in Nat : one = TermLen(h)
    BY TermLenIs
  <2>4. PICK n \in Nat : n = Len(v)
    BY <1>1
  <2>5. n <= cap /\ cap + one <= len
    BY <2>1, <2>2, <2>3, <2>4 DEF Holds, Owns
  <2>6. n + one <= len
    BY <2>5
  <2> QED  BY <2>2, <2>3, <2>4, <2>6
<1>3. at + Len(cells) <= Len(s.mem[b])
  BY <1>1, <1>2, TermLenIs
<1>4. Owns(t, h) /\ t.buf = s.buf /\ t \in State
  BY <1>3, WriteHolds DEF Written
<1>5. t.mem[b] \in Seq(Cell) /\ Len(t.mem[b]) = Len(s.mem[b])
  BY <1>1, <1>4, StateParts DEF Written
<1> PICK w : w = [i \in 1..Len(v) |-> t.mem[b][i]]
  OBVIOUS
<1>6. \A i \in 1..Len(v) : i \in 1..Len(t.mem[b]) /\ i \in 1..Len(s.mem[b])
  BY <1>1, <1>2, <1>5, TermLenIs, SMTT(30)
<1>7. w \in Seq(Cell) /\ Len(w) = Len(v) /\ \A i \in 1..Len(v) : w[i] = t.mem[b][i]
  <2>1. w \in [1..Len(v) -> Cell]
    BY <1>5, <1>6
  <2> QED  BY <2>1, <1>1
<1>8. \A i \in 1..Len(v) : i <= at \/ i > at + Len(cells) => w[i] = v[i]
  BY <1>6, <1>7 DEF Written, Holds
<1>9. \A i \in 1..Len(cells) : w[at + i] = cells[i]
  <2>1. \A i \in 1..Len(cells) : at + i \in 1..Len(v)
    BY <1>1
  <2> QED  BY <2>1, <1>7 DEF Written
<1>10. h \in Strings => t.mem[b][Len(w) + 1] = Term
  <2> SUFFICES ASSUME h \in Strings PROVE t.mem[b][Len(w) + 1] = Term
    OBVIOUS
  <2>1. Len(v) + 1 \in 1..Len(s.mem[b]) /\ Len(v) + 1 > at + Len(cells)
    BY <1>1, <1>2, TermLenIs
  <2>2. s.mem[b][Len(v) + 1] = Term
    BY DEF Done
  <2> QED  BY <2>1, <2>2, <1>7 DEF Written
<1>11. Done(t, h, w)
  BY <1>4, <1>7, <1>10 DEF Done, Holds
<1> QED  BY <1>7, <1>8, <1>9, <1>11 DEF Overwritten

(***************************************************************************)
(* The functions that give an object a block of its own.                   *)
(***************************************************************************)
\* Where these functions start from: the variables, but for the fields of h.
Base(s, h) ==
  /\ s \in State /\ s.wild = FALSE /\ s.mem = mem
  /\ \A g \in Handles : g # h => s.buf[g] = buf[g]
  /\ s.buf[h].size <= Len(mem[s.buf[h].d])

LEMMA NowBase == ASSUME Fine(now), NEW h \in Handles PROVE Base(now, h)
<1>1. now \in State /\ Sound(now, h) /\ now.mem = mem /\ now.buf = buf
  BY DEF Fine, now
<1> QED  BY <1>1, StateParts, TermLenIs DEF Base, Sound, Fine

\* A new block, of which nobody knows and that holds nothing.
Fresh(s, t, h, n) ==
  /\ t \in State /\ t.wild = FALSE
  /\ \A g \in Handles : g # h => t.buf[g] = buf[g]
  /\ t.buf[h].d \in Heap /\ \A g \in Handles : s.buf[g].d # t.buf[h].d
  /\ t.buf[h].dummy = FALSE /\ t.buf[h].isnull = FALSE
  /\ t.buf[h].size = s.buf[h].size /\ t.buf[h].cap = s.buf[h].cap
  /\ \A b \in Blocks : b # t.buf[h].d => t.mem[b] = mem[b]
  /\ Len(t.mem[t.buf[h].d]) = n

LEMMA NewBlockIs ==
  ASSUME NEW h \in Handles, NEW s, Base(s, h), NEW n \in 0..(Largest + 1)
  PROVE  Fresh(s, NewBlock(s, h, n), h, n)
<1> PICK b : b = Free(s)
  OBVIOUS
<1> PICK cells : cells = [i \in 1..n |-> Junk]
  OBVIOUS
<1> PICK o : o = [d |-> b, size |-> s.buf[h].size, cap |-> s.buf[h].cap, isnull |-> FALSE, dummy |-> FALSE]
  OBVIOUS
<1> PICK t : t = NewBlock(s, h, n)
  OBVIOUS
<1> s \in State
  BY DEF Base
<1>1. b \in Heap /\ b \in Blocks /\ \A g \in Handles : s.buf[g].d # b
  BY FreeIs DEF Blocks
<1>2. cells \in Seq(Cell) /\ Len(cells) = n
  <2>1. cells \in [1..n -> Cell] /\ n \in Nat
    BY LargestIs DEF Cell
  <2> QED  BY <2>1
<1>3. o \in Object
  BY <1>1, StateParts DEF Object
<1>4. t = [mem |-> [s.mem EXCEPT ![b] = cells], buf |-> [s.buf EXCEPT ![h] = o], wild |-> s.wild]
  <2>1. n % Wrap = n
    BY LargestIs
  <2>2. [s.buf[h] EXCEPT !.d = b, !.isnull = FALSE, !.dummy = FALSE] = o
    <3> PICK q : q = s.buf[h]
      OBVIOUS
    <3>1. q \in Object
      BY StateParts
    <3>2. q = [d |-> q.d, size |-> q.size, cap |-> q.cap, isnull |-> q.isnull, dummy |-> q.dummy]
      BY <3>1 DEF Object
    <3>3. [q EXCEPT !.d = b, !.isnull = FALSE, !.dummy = FALSE]
            = [d |-> b, size |-> q.size, cap |-> q.cap, isnull |-> FALSE, dummy |-> FALSE]
      <4> PICK qd, qs, qc, qi, qu : qd = q.d /\ qs = q.size /\ qc = q.cap /\ qi = q.isnull /\ qu = q.dummy
        OBVIOUS
      <4>1. q = [d |-> qd, size |-> qs, cap |-> qc, isnull |-> qi, dummy |-> qu]
        BY <3>2
      <4>2. [q EXCEPT !.d = b] = [d |-> b, size |-> qs, cap |-> qc, isnull |-> qi, dummy |-> qu]
        BY <4>1
      <4> PICK no : no = FALSE
        OBVIOUS
      <4> PICK q1 : q1 = [q EXCEPT !.d = b]
        OBVIOUS
      <4> PICK q2 : q2 = [q1 EXCEPT !.isnull = no]
        OBVIOUS
      <4> PICK q3 : q3 = [q2 EXCEPT !.dummy = no]
        OBVIOUS
      <4>3. q2 = [d |-> b, size |-> qs, cap |-> qc, isnull |-> no, dummy |-> qu]
        <5>1. q1 = [d |-> b, size |-> qs, cap |-> qc, isnull |-> qi, dummy |-> qu]
          BY <4>2
        <5> HIDE <4>1, <4>2
        <5> QED  BY <5>1
      <4>4. q3 = [d |-> b, size |-> qs, cap |-> qc, isnull |-> no, dummy |-> no]
        BY <4>3
      <4> QED  BY <4>4, Zenon
    <3> QED  BY <3>3
  <2>3. t = [s EXCEPT !.mem[b] = cells, !.buf[h] = o]
    BY <2>1, <2>2 DEF NewBlock
  <2>4. s = [mem |-> s.mem, buf |-> s.buf, wild |-> s.wild]
    BY StateParts
  <2> QED  BY <2>3, <2>4
<1>5. t.mem = [s.mem EXCEPT ![b] = cells] /\ t.buf = [s.buf EXCEPT ![h] = o] /\ t.wild = s.wild
  BY <1>4
<1>6. t.mem \in [Blocks -> Seq(Cell)] /\ t.mem[b] = cells /\ \A c \in Blocks : c # b => t.mem[c] = s.mem[c]
  BY <1>1, <1>2, <1>5, StateParts
<1>7. t.buf \in [Handles -> Object] /\ t.buf[h] = o /\ \A g \in Handles : g # h => t.buf[g] = s.buf[g]
  BY <1>3, <1>5, StateParts
<1>8. t \in State
  BY <1>4, <1>5, <1>6, <1>7, StateParts DEF State
<1>9. o.d = b /\ o.isnull = FALSE /\ o.dummy = FALSE /\ o.size = s.buf[h].size /\ o.cap = s.buf[h].cap
  OBVIOUS
<1> QED  BY <1>1, <1>2, <1>5, <1>6, <1>7, <1>8, <1>9 DEF Fresh, Base

\* Setting the size and the capacity of h.
Sets(t, u, h, size, cap) == u = [t EXCEPT !.buf[h].size = size, !.buf[h].cap = cap]

\* ... in a state in which h already owns its block.
Filled(t, u, h, size, cap) ==
  /\ u \in State /\ u.mem = t.mem /\ u.wild = t.wild
  /\ u.buf[h] = [t.buf[h] EXCEPT !.size = size, !.cap = cap]
  /\ \A g \in Handles : g # h => u.buf[g] = t.buf[g]

\* Setting the fields changes no other field, object or block.
LEMMA FieldsAre ==
  ASSUME NEW t \in State, NEW h \in Handles, NEW size \in Nat, NEW cap \in Nat,
         NEW u, Sets(t, u, h, size, cap)
  PROVE  Filled(t, u, h, size, cap)
<1> PICK o : o = [t.buf[h] EXCEPT !.size = size, !.cap = cap]
  OBVIOUS
<1>1. t.buf[h] \in Object /\ t.buf \in [Handles -> Object] /\ t = [mem |-> t.mem, buf |-> t.buf, wild |-> t.wild]
  BY StateParts
<1>2. o \in Object
  BY <1>1 DEF Object
<1> PICK t1 : t1 = [t EXCEPT !.buf[h].size = size]
  OBVIOUS
<1>3. t1.buf = [t.buf EXCEPT ![h] = [@ EXCEPT !.size = size]] /\ t1 = [mem |-> t.mem, buf |-> t1.buf, wild |-> t.wild]
  BY <1>1
<1>4. u = [t1 EXCEPT !.buf[h].cap = cap]
  BY DEF Sets
<1>5. u.buf = [t1.buf EXCEPT ![h] = [@ EXCEPT !.cap = cap]] /\ u = [mem |-> t.mem, buf |-> u.buf, wild |-> t.wild]
  BY <1>3, <1>4
<1>6. u.buf = [t.buf EXCEPT ![h] = o]
  BY <1>1, <1>3, <1>5
<1>7. u.buf \in [Handles -> Object] /\ u.buf[h] = o /\ \A g \in Handles : g # h => u.buf[g] = t.buf[g]
  BY <1>1, <1>2, <1>6
<1>8. u.mem = t.mem /\ u.wild = t.wild
  BY <1>5
<1>9. u \in State
  BY <1>5, <1>7, StateParts DEF State
<1> QED  BY <1>7, <1>8, <1>9 DEF Filled

\* A block of n cells is enough for an object of this size and capacity.
Enough(h, n, size, cap) ==
  /\ n \in Nat /\ size \in Nat /\ cap \in Nat
  /\ size <= cap /\ size <= MaxSize /\ cap <= Largest /\ cap + TermLen(h) <= n

\* A fresh block, with the fields set, is owned.
LEMMA FilledOwns ==
  ASSUME Fine(now), NEW h \in Handles, NEW s, Base(s, h), NEW t, NEW n, Fresh(s, t, h, n),
         NEW u, NEW size, NEW cap, Enough(h, n, size, cap), Filled(t, u, h, size, cap)
  PROVE  Owns(u, h) /\ u.buf[h].size = size /\ u.buf[h].cap = cap /\ u.buf[h].d = t.buf[h].d
<1> now \in State /\ s \in State /\ t \in State
  BY DEF Fresh, Base, Fine
<1> n \in Nat /\ size \in Nat /\ cap \in Nat /\ cap <= Largest /\ cap + TermLen(h) <= n
  BY DEF Enough
<1>1. /\ u.buf[h].size = size /\ u.buf[h].cap = cap /\ u.buf[h].d = t.buf[h].d
      /\ u.buf[h].isnull = FALSE /\ u.buf[h].dummy = FALSE
  <2>1. t.buf[h] \in Object
    BY StateParts
  <2> QED  BY <2>1 DEF Fresh, Filled, Object
<1>2. t.buf[h].d # Empty /\ t.buf[h].d # Rom /\ Empty \in Blocks /\ Rom \in Blocks
  BY BlocksIs DEF Fresh, Blocks
<1>3. ASSUME NEW g \in Handles, g # h
      PROVE  u.buf[g] = buf[g] /\ buf[g].d # u.buf[h].d /\ u.mem[buf[g].d] = mem[buf[g].d]
  <2>1. u.buf[g] = buf[g] /\ s.buf[g] = buf[g]
    BY <1>3 DEF Fresh, Base, Filled
  <2>2. buf[g].d \in Blocks /\ buf[g].d # t.buf[h].d
    BY <2>1, StateParts DEF Fresh
  <2> QED  BY <1>1, <2>1, <2>2 DEF Fresh, Filled
<1>4. u.mem[Empty] = mem[Empty] /\ u.mem[Rom] = mem[Rom]
  BY <1>2 DEF Fresh, Filled
<1>5. Len(u.mem[u.buf[h].d]) = n /\ u.wild = FALSE /\ u \in State
  BY <1>1 DEF Fresh, Filled
<1>6. u.buf[h].cap <= Largest /\ u.buf[h].cap + TermLen(h) <= Len(u.mem[u.buf[h].d])
  BY <1>1, <1>5
<1> QED  BY <1>1, <1>2, <1>3, <1>4, <1>5, <1>6 DEF Owns

\* The cells at + 1 ... at + k of a block of n cells.
InRange(at, k, n) == at \in Nat /\ k \in Nat /\ n \in Nat /\ at + k <= n

\* memcpy() into the fresh block, from the block that h has had, and its effect.
Copies(s, t, u, h, to, from, k) == u = Memcpy(t, t.buf[h].d, to, s.buf[h].d, from, k)

Copied(s, t, u, h, to, from, k, n) ==
  /\ Fresh(s, u, h, n) /\ u.buf = t.buf
  /\ \A i \in 1..k : u.mem[u.buf[h].d][to + i] = mem[s.buf[h].d][from + i]
  /\ \A i \in 1..n : i <= to \/ i > to + k => u.mem[u.buf[h].d][i] = t.mem[u.buf[h].d][i]

\* Copying from the old block to the new one.
LEMMA CopyFresh ==
  ASSUME NEW h \in Handles, NEW s, Base(s, h), NEW t, NEW n, Fresh(s, t, h, n),
         NEW to, NEW from, NEW k, InRange(to, k, n), InRange(from, k, Len(mem[s.buf[h].d])),
         NEW u, Copies(s, t, u, h, to, from, k)
  PROVE  Copied(s, t, u, h, to, from, k, n)
<1> to \in Nat /\ from \in Nat /\ k \in Nat /\ n \in Nat /\ to + k <= n /\ from + k <= Len(mem[s.buf[h].d])
  BY DEF InRange
<1> PICK b : b = t.buf[h].d
  OBVIOUS
<1> PICK c : c = s.buf[h].d
  OBVIOUS
<1>1. s \in State /\ t \in State
  BY DEF Base, Fresh
<1>2. b \in Blocks /\ c \in Blocks /\ b # c
  BY <1>1, StateParts DEF Fresh
<1>3. t.mem[c] = mem[c] /\ Len(t.mem[b]) = n
  BY <1>2 DEF Fresh
<1>4. PICK cells \in Seq(Cell) : /\ Len(cells) = k /\ \A i \in 1..k : cells[i] = t.mem[c][from + i]
                                 /\ Written(t, u, b, to, cells)
  BY <1>1, <1>2, <1>3, MemcpyIs DEF Copies
<1>5. /\ u \in State /\ u.buf = t.buf /\ u.wild = t.wild /\ Len(u.mem[b]) = n
      /\ \A d \in Blocks : d # b => u.mem[d] = t.mem[d]
  BY <1>3, <1>4 DEF Written
<1>6. Fresh(s, u, h, n)
  BY <1>5 DEF Fresh
<1>7. \A i \in 1..k : u.mem[b][to + i] = mem[c][from + i]
  BY <1>3, <1>4 DEF Written
<1>8. \A i \in 1..n : i <= to \/ i > to + k => u.mem[b][i] = t.mem[b][i]
  BY <1>3, <1>4 DEF Written
<1> QED  BY <1>5, <1>6, <1>7, <1>8 DEF Copied

\* The end of realloc() and its variants: the value is what the block holds.
LEMMA FreshDone ==
  ASSUME Fine(now), NEW h \in Handles, NEW s, Base(s, h), NEW t, NEW n, Fresh(s, t, h, n),
         NEW size, NEW cap, Enough(h, n, size, cap),
         NEW u, Sets(t, u, h, size, cap)
  PROVE  \E v \in Seq(Cell) :
           /\ Done(Terminate(u, h), h, v) /\ Len(v) = size
           /\ \A i \in 1..size : v[i] = t.mem[t.buf[h].d][i]
           /\ Terminate(u, h).buf[h].cap = cap
<1> t \in State
  BY DEF Fresh
<1> n \in Nat /\ size \in Nat /\ cap \in Nat /\ size <= cap /\ size <= MaxSize /\ cap + TermLen(h) <= n
  BY DEF Enough
<1> PICK b : b = t.buf[h].d
  OBVIOUS
<1>1. Filled(t, u, h, size, cap)
  BY FieldsAre
<1>2. t.mem[b] \in Seq(Cell) /\ Len(t.mem[b]) = n
  BY StateParts DEF Fresh
<1>4. Owns(u, h) /\ u.buf[h].size = size /\ u.buf[h].cap = cap /\ u.buf[h].d = t.buf[h].d
  BY <1>1, FilledOwns
<1> PICK v : v = [i \in 1..size |-> t.mem[b][i]]
  OBVIOUS
<1>5. v \in Seq(Cell) /\ Len(v) = size /\ \A i \in 1..size : v[i] = t.mem[b][i]
  <2>1. \A i \in 1..size : i \in 1..Len(t.mem[b])
    BY <1>2, TermLenIs
  <2>2. v \in [1..size -> Cell]
    BY <1>2, <2>1
  <2> QED  BY <2>2
<1>6. Holds(u, h, v)
  BY <1>1, <1>4, <1>5 DEF Holds, Filled
<1>7. Done(Terminate(u, h), h, v) /\ Terminate(u, h).buf = u.buf
  <2>1. u.buf[h].size = Len(v) /\ Len(v) <= MaxSize
    BY <1>4, <1>5
  <2> QED  BY <1>6, <2>1, TerminateDone
<1> QED  BY <1>4, <1>5, <1>7

\* The arguments: the new capacity is not less than the new size.
Moves(s, h, newCap, src, dest, size) ==
  /\ newCap \in Nat /\ src \in Nat /\ dest \in Nat /\ size \in Nat
  /\ newCap <= Largest /\ src <= s.buf[h].size /\ size = s.buf[h].size + dest - src
  /\ size <= newCap /\ size <= MaxSize

\* realloc() and reallocWithOffset(): what was at src + i is at dest + i.
LEMMA ReallocDone ==
  ASSUME Fine(now), NEW h \in Handles, NEW s, Base(s, h),
         NEW newCap, NEW src, NEW dest, NEW size, Moves(s, h, newCap, src, dest, size)
  PROVE  \E v \in Seq(Cell) :
           /\ Done(Realloc(s, h, newCap, src, dest), h, v) /\ Len(v) = size
           /\ \A i \in 1..(s.buf[h].size - src) : v[dest + i] = mem[s.buf[h].d][src + i]
           /\ Realloc(s, h, newCap, src, dest).buf[h].cap = newCap
<1> /\ newCap \in Nat /\ src \in Nat /\ dest \in Nat /\ size \in Nat
    /\ newCap <= Largest /\ src <= s.buf[h].size /\ size = s.buf[h].size + dest - src
    /\ size <= newCap /\ size <= MaxSize
  BY DEF Moves
<1>1. s \in State /\ s.buf[h].size \in Nat /\ s.buf[h].size <= Len(mem[s.buf[h].d])
      /\ Len(mem[s.buf[h].d]) \in Nat
  BY StateParts DEF Base
<1>2. PICK one \in {0, 1} : one = TermLen(h)
  BY TermLenIs
<1>3. PICK n, k : /\ n = newCap + TermLen(h) /\ k = s.buf[h].size - src /\ k \in Nat /\ size = dest + k
                  /\ n \in 0..(Largest + 1) /\ n \in Nat /\ newCap + TermLen(h) <= n /\ newCap <= n
  <2>1. PICK m \in Nat : m = s.buf[h].size
    BY <1>1
  <2>2. PICK big \in Nat : big = Largest
    BY LargestIs
  <2>3. PICK n \in Nat : n = newCap + one
    BY <1>2
  <2>4. PICK k \in Int : k = m - src
    BY <2>1
  <2>5. k \in Nat /\ size = dest + k
    BY <2>1, <2>4
  <2>6. n \in 0..(big + 1) /\ newCap + one <= n /\ newCap <= n
    BY <1>2, <2>2, <2>3
  <2> QED  BY <1>2, <2>1, <2>2, <2>3, <2>4, <2>5, <2>6
<1>4. InRange(dest, k, n) /\ InRange(src, k, Len(mem[s.buf[h].d])) /\ Enough(h, n, size, newCap)
  <2>1. dest + k <= n /\ src + k <= Len(mem[s.buf[h].d])
    BY <1>1, <1>3, SMTT(30)
  <2>2. InRange(dest, k, n) /\ InRange(src, k, Len(mem[s.buf[h].d]))
    BY <1>1, <1>3, <2>1 DEF InRange
  <2>3. Enough(h, n, size, newCap)
    BY <1>3 DEF Enough
  <2> QED  BY <2>2, <2>3
<1>5. \A i \in 1..k : dest + i \in 1..size
  BY <1>3
<1>6. PICK t : t = NewBlock(s, h, n)
  OBVIOUS
<1>7. Fresh(s, t, h, n)
  BY <1>3, <1>6, NewBlockIs
<1>8. PICK u : u = Memcpy(t, t.buf[h].d, dest, s.buf[h].d, src, k)
  OBVIOUS
<1> Copies(s, t, u, h, dest, src, k)
  BY <1>8 DEF Copies
<1>9. /\ Fresh(s, u, h, n) /\ u.buf = t.buf
      /\ \A i \in 1..k : u.mem[u.buf[h].d][dest + i] = mem[s.buf[h].d][src + i]
  <2>1. Copied(s, t, u, h, dest, src, k, n)
    BY <1>4, <1>7, CopyFresh
  <2> QED  BY <2>1 DEF Copied
<1>10. PICK w : w = [u EXCEPT !.buf[h].size = size, !.buf[h].cap = newCap]
  OBVIOUS
<1>11. Sets(u, w, h, size, newCap)
  BY <1>10 DEF Sets
<1>12. Realloc(s, h, newCap, src, dest) = Terminate(w, h)
  <2>1. Realloc(s, h, newCap, src, dest)
          = Terminate([u EXCEPT !.buf[h].size = @ + dest - src, !.buf[h].cap = newCap], h)
    BY <1>3, <1>6, <1>8 DEF Realloc
  <2>2. u.buf[h].size + dest - src = size
    BY <1>9 DEF Fresh
  <2>3. [u EXCEPT !.buf[h].size = @ + dest - src, !.buf[h].cap = newCap] = w
    BY <1>10, <2>2
  <2> QED  BY <2>1, <2>3
<1>13. PICK v \in Seq(Cell) :
           /\ Done(Terminate(w, h), h, v) /\ Len(v) = size
           /\ \A i \in 1..size : v[i] = u.mem[u.buf[h].d][i]
           /\ Terminate(w, h).buf[h].cap = newCap
  BY <1>4, <1>9, <1>11, FreshDone
<1>14. \A i \in 1..k : v[dest + i] = mem[s.buf[h].d][src + i]
  BY <1>5, <1>9, <1>13
<1> QED  BY <1>3, <1>12, <1>13, <1>14

\* reallocWithSplit(): a gap opens at the index.  (It allocates no terminator.)
Parted(h, index, gap, v) ==
  /\ v \in Seq(Cell) /\ Len(v) = buf[h].size + gap
  /\ \A i \in 1..index : v[i] = mem[buf[h].d][i]
  /\ \A i \in 1..(buf[h].size - index) : v[index + gap + i] = mem[buf[h].d][index + i]

\* What was before the gap stays there, what was behind it moves by gap.
LEMMA SplitDone ==
  ASSUME Fine(now), NEW h \in Handles, h \notin Strings, NEW newCap \in Nat, newCap <= Largest,
         NEW gap \in Nat, NEW index \in Nat, index <= buf[h].size,
         buf[h].size + gap <= newCap, buf[h].size + gap <= MaxSize
  PROVE  \E v : Done(ReallocWithSplit(now, h, newCap, index, gap), h, v) /\ Parted(h, index, gap, v)
<1> PICK s : s = now
  OBVIOUS
<1>1. Base(s, h) /\ s \in State /\ s.buf = buf /\ s.mem = mem
  BY NowBase DEF now, Fine
<1>2. buf[h].size \in Nat /\ buf[h].size <= Len(mem[buf[h].d]) /\ Len(mem[buf[h].d]) \in Nat
  BY <1>1, StateParts DEF Base
<1>3. PICK k, size, to, zero : /\ k = buf[h].size - index /\ k \in Nat
                               /\ size = buf[h].size + gap /\ size \in Nat /\ size <= newCap /\ size <= MaxSize
                               /\ to = index + gap /\ to \in Nat /\ to + k = size
                               /\ zero = 0 /\ zero \in Nat /\ zero + index <= newCap /\ zero + index <= buf[h].size
                               /\ index + k = buf[h].size
  <2>1. PICK old \in Nat : old = buf[h].size
    BY <1>2
  <2>2. PICK k \in Nat : k = old - index
    BY <2>1
  <2>3. PICK size \in Nat : size = old + gap
    BY <2>1
  <2>4. PICK to \in Nat : to = index + gap
    OBVIOUS
  <2>5. PICK zero \in Nat : zero = 0
    OBVIOUS
  <2>6. size <= newCap /\ size <= MaxSize /\ index <= old
    BY <2>1, <2>3
  <2>7. to + k = size /\ zero + index <= newCap /\ zero + index <= old /\ index + k = old
    BY <2>2, <2>3, <2>4, <2>5, <2>6
  <2> QED  BY <2>1, <2>2, <2>3, <2>4, <2>5, <2>6, <2>7
<1>4. TermLen(h) = 0 /\ newCap + TermLen(h) <= newCap
  <2>1. TermLen(h) = 0
    BY DEF TermLen
  <2> QED  BY <2>1
<1>5. /\ InRange(to, k, newCap) /\ InRange(index, k, Len(mem[buf[h].d]))
      /\ InRange(zero, index, newCap) /\ InRange(zero, index, Len(mem[buf[h].d]))
      /\ Enough(h, newCap, size, newCap)
  <2>1. to + k <= newCap /\ index + k <= Len(mem[buf[h].d]) /\ zero + index <= newCap
        /\ zero + index <= Len(mem[buf[h].d])
    BY <1>2, <1>3, SMTT(30)
  <2>2. /\ InRange(to, k, newCap) /\ InRange(index, k, Len(mem[buf[h].d]))
        /\ InRange(zero, index, newCap) /\ InRange(zero, index, Len(mem[buf[h].d]))
    BY <1>2, <1>3, <2>1, Zenon DEF InRange
  <2>3. Enough(h, newCap, size, newCap)
    BY <1>3, <1>4 DEF Enough
  <2> QED  BY <2>2, <2>3
<1>6. PICK t : t = NewBlock(s, h, newCap)
  OBVIOUS
<1>7. Fresh(s, t, h, newCap)
  <2>1. newCap \in 0..(Largest + 1)
    BY LargestIs
  <2> QED  BY <1>1, <1>6, <2>1, NewBlockIs
<1>8. PICK low : low = Memcpy(t, t.buf[h].d, zero, buf[h].d, zero, index)
  OBVIOUS
<1>9. Copied(s, t, low, h, zero, zero, index, newCap)
  <2>1. Copies(s, t, low, h, zero, zero, index)
    BY <1>1, <1>8 DEF Copies
  <2> QED  BY <1>1, <1>5, <1>7, <2>1, CopyFresh
<1>10. PICK both : both = Memcpy(low, low.buf[h].d, to, buf[h].d, index, k)
  OBVIOUS
<1>11. Copied(s, low, both, h, to, index, k, newCap)
  <2>1. Copies(s, low, both, h, to, index, k)
    BY <1>1, <1>10 DEF Copies
  <2>2. Fresh(s, low, h, newCap)
    BY <1>9 DEF Copied
  <2> QED  BY <1>1, <1>5, <2>1, <2>2, CopyFresh
<1>12. PICK w : w = [both EXCEPT !.buf[h].size = size, !.buf[h].cap = newCap]
  OBVIOUS
<1>13. Sets(both, w, h, size, newCap)
  BY <1>12 DEF Sets
<1>14. both.buf = t.buf /\ low.buf = t.buf /\ Fresh(s, both, h, newCap)
  BY <1>9, <1>11 DEF Copied
<1>15. ReallocWithSplit(s, h, newCap, index, gap) = Terminate(w, h)
  <2>1. ReallocWithSplit(s, h, newCap, index, gap)
          = Terminate([both EXCEPT !.buf[h].size = @ + gap, !.buf[h].cap = newCap], h)
    BY <1>1, <1>3, <1>6, <1>8, <1>10, <1>14 DEF ReallocWithSplit
  <2>2. both.buf[h].size + gap = size
    BY <1>1, <1>3, <1>14 DEF Fresh
  <2>3. [both EXCEPT !.buf[h].size = @ + gap, !.buf[h].cap = newCap] = w
    BY <1>12, <2>2
  <2> QED  BY <2>1, <2>3
<1>16. PICK v \in Seq(Cell) :
           /\ Done(Terminate(w, h), h, v) /\ Len(v) = size
           /\ \A i \in 1..size : v[i] = both.mem[both.buf[h].d][i]
           /\ Terminate(w, h).buf[h].cap = newCap
  <2>1. Base(s, h) /\ Fresh(s, both, h, newCap) /\ Enough(h, newCap, size, newCap) /\ Sets(both, w, h, size, newCap)
    BY <1>1, <1>5, <1>13, <1>14
  <2> QED  BY <2>1, FreshDone
<1>17. \A i \in 1..k : v[to + i] = mem[buf[h].d][index + i]
  <2>1. \A i \in 1..k : to + i \in 1..size
    BY <1>3
  <2> QED  BY <1>1, <1>11, <1>16, <2>1 DEF Copied
<1>18. \A i \in 1..index : v[i] = mem[buf[h].d][i]
  <2> SUFFICES ASSUME NEW i \in 1..index PROVE v[i] = mem[buf[h].d][i]
    OBVIOUS
  <2>1. i \in 1..size /\ i \in 1..newCap /\ i <= to /\ zero + i = i
    BY <1>2, <1>3
  <2>2. v[i] = both.mem[both.buf[h].d][i]
    BY <1>16, <2>1
  <2>3. both.mem[both.buf[h].d][i] = low.mem[both.buf[h].d][i]
    BY <1>11, <2>1 DEF Copied
  <2>4. low.mem[low.buf[h].d][i] = mem[buf[h].d][i]
    BY <1>1, <1>9, <2>1 DEF Copied
  <2> QED  BY <1>14, <2>2, <2>3, <2>4
<1>19. Parted(h, index, gap, v)
  BY <1>3, <1>16, <1>17, <1>18 DEF Parted
<1> QED  BY <1>15, <1>16, <1>19

\* A use_count() of 1: nobody else refers to the block, and it is not static.
LEMMA UniqueIs ==
  ASSUME Fine(now), NEW h \in Handles, UseCount(now, buf[h].d) = 1
  PROVE  /\ buf[h].d # Empty /\ buf[h].d # Rom
         /\ \A g \in Handles : g # h => buf[g].d # buf[h].d
<1> DEFINE U == UsersOf(now, buf[h].d)
           M == {g \in U : now.buf[g].dummy}
<1>1. now.buf = buf /\ Sound(now, h)
  BY DEF now, Fine
<1>2. h \in U /\ U \subseteq Handles /\ IsFiniteSet(U) /\ M \subseteq U /\ IsFiniteSet(M)
  <2>1. h \in U /\ U \subseteq Handles /\ M \subseteq U
    BY <1>1 DEF UsersOf
  <2> HIDE DEF U, M
  <2>2. IsFiniteSet(U)
    BY <2>1, HandlesFinite, FS_Subset
  <2> QED  BY <2>1, <2>2, FS_Subset
<1>3. PICK u, m, e : /\ u = Cardinality(U) /\ m = Cardinality(M) /\ u \in Nat /\ m \in Nat
                     /\ e = (IF buf[h].d = Empty THEN 1 ELSE 0) /\ e \in {0, 1}
  <2> HIDE DEF U, M
  <2> QED  BY <1>2, FS_CardinalityType
<1>4. u + m + e = 1
  BY <1>3 DEF UseCount
<1>5. u # 0
  <2> HIDE DEF U, M
  <2> QED  BY <1>2, <1>3, FS_EmptySet
<1>6. u = 1 /\ m = 0 /\ e = 0
  BY <1>3, <1>4, <1>5
<1>7. U = {h}
  <2> HIDE DEF U, M
  <2>1. PICK x : U = {x}
    BY <1>2, <1>3, <1>6, FS_Singleton
  <2> QED  BY <1>2, <2>1
<1>8. M = {}
  <2> HIDE DEF U, M
  <2> QED  BY <1>2, <1>3, <1>6, FS_EmptySet
<1>9. buf[h].d # Empty
  BY <1>3, <1>6
<1>10. buf[h].d # Rom
  <2>1. ~buf[h].dummy
    BY <1>1, <1>2, <1>8
  <2> QED  BY <1>1, <2>1 DEF Sound
<1>11. \A g \in Handles : g # h => buf[g].d # buf[h].d
  BY <1>1, <1>7 DEF UsersOf
<1> QED  BY <1>9, <1>10, <1>11

\* realloc(): the value stays.
LEMMA PlainReallocDone ==
  ASSUME Fine(now), NEW h \in Handles, NEW zero, zero = 0, NEW cap \in Nat, cap <= Largest, buf[h].size <= cap
  PROVE  /\ Done(Realloc(now, h, cap, zero, zero), h, Content(h))
         /\ Realloc(now, h, cap, zero, zero).buf[h].cap = cap
<1> PICK s : s = now
  OBVIOUS
<1>1. s \in State /\ Sound(s, h) /\ s.mem = mem /\ s.buf = buf /\ Base(s, h)
  BY NowBase DEF Fine, now
<1>2. /\ Content(h) \in Seq(Cell) /\ Len(Content(h)) = buf[h].size
      /\ \A i \in 1..buf[h].size : Content(h)[i] = mem[buf[h].d][i]
  BY <1>1, ValueIs DEF Value, Content
<1>3. PICK old \in Nat : old = buf[h].size /\ old <= MaxSize /\ old <= cap
  BY <1>1, StateParts DEF Sound
<1>4. old = old + zero - zero /\ old - zero = old /\ zero \in Nat /\ zero <= old /\ \A i \in 1..old : zero + i = i
  OBVIOUS
<1>5. Moves(s, h, cap, zero, zero, old)
  BY <1>1, <1>3, <1>4 DEF Moves
<1>6. PICK v \in Seq(Cell) :
           /\ Done(Realloc(s, h, cap, zero, zero), h, v) /\ Len(v) = old
           /\ \A i \in 1..(s.buf[h].size - zero) : v[zero + i] = mem[s.buf[h].d][zero + i]
           /\ Realloc(s, h, cap, zero, zero).buf[h].cap = cap
  BY <1>1, <1>5, ReallocDone
<1>7. \A i \in 1..old : v[i] = mem[buf[h].d][i]
  BY <1>1, <1>3, <1>4, <1>6
<1>8. v = Content(h)
  BY <1>2, <1>3, <1>6, <1>7
<1> QED  BY <1>6, <1>8

\* ensureUniqueness() changes no value, and no capacity.
LEMMA UniquenessDone ==
  ASSUME Fine(now), NEW h \in Handles
  PROVE  Done(EnsureUniqueness(now, h), h, Content(h)) /\ EnsureUniqueness(now, h).buf[h].cap = buf[h].cap
<1>1. now \in State /\ Sound(now, h) /\ now.mem = mem /\ now.buf = buf /\ Base(now, h) /\ now.wild = FALSE
  BY NowBase DEF Fine, now
<1>2. /\ Content(h) \in Seq(Cell) /\ Len(Content(h)) = buf[h].size
      /\ \A i \in 1..buf[h].size : Content(h)[i] = mem[buf[h].d][i]
  BY <1>1, ValueIs DEF Value, Content
<1>3. /\ buf[h].size \in Nat /\ buf[h].cap \in Nat /\ buf[h].cap <= Largest
      /\ buf[h].size <= buf[h].cap /\ buf[h].size <= MaxSize
  BY <1>1, StateParts DEF Sound
<1>4. CASE UseCount(now, buf[h].d) # 1
  <2>1. PICK zero : zero = 0
    OBVIOUS
  <2>2. PICK cap \in Nat : cap = buf[h].cap
    BY <1>3
  <2>3. Done(Realloc(now, h, cap, zero, zero), h, Content(h)) /\ Realloc(now, h, cap, zero, zero).buf[h].cap = cap
    BY <1>3, <2>1, <2>2, PlainReallocDone
  <2>4. EnsureUniqueness(now, h) = Realloc(now, h, cap, zero, zero)
    BY <1>1, <1>4, <2>1, <2>2 DEF EnsureUniqueness
  <2> QED  BY <2>2, <2>3, <2>4
<1>5. CASE UseCount(now, buf[h].d) = 1
  <2>1. PICK t : t = [now EXCEPT !.buf[h].isnull = FALSE]
    OBVIOUS
  <2>2. PICK o : o = [buf[h] EXCEPT !.isnull = FALSE]
    OBVIOUS
  <2>3. buf[h] \in Object /\ buf \in [Handles -> Object] /\ now = [mem |-> mem, buf |-> buf, wild |-> wild]
    BY <1>1, StateParts DEF now
  <2>4. o \in Object /\ o.isnull = FALSE /\ o.d = buf[h].d /\ o.size = buf[h].size /\ o.cap = buf[h].cap
        /\ o.dummy = buf[h].dummy
    BY <2>2, <2>3 DEF Object
  <2>5. t = [mem |-> mem, buf |-> [buf EXCEPT ![h] = o], wild |-> wild]
    BY <2>1, <2>2, <2>3
  <2>6. t.mem = mem /\ t.wild = wild /\ t.buf = [buf EXCEPT ![h] = o]
    BY <2>5
  <2>7. t.buf \in [Handles -> Object] /\ t.buf[h] = o /\ \A g \in Handles : g # h => t.buf[g] = buf[g]
    BY <2>3, <2>4, <2>6
  <2>8. t \in State
    BY <1>1, <2>5, <2>6, <2>7, StateParts DEF State, now
  <2>9. /\ buf[h].d # Empty /\ buf[h].d # Rom
        /\ \A g \in Handles : g # h => buf[g].d # buf[h].d
    BY <1>5, UniqueIs
  <2>10. o.dummy = FALSE
    BY <1>1, <2>3, <2>4, <2>9 DEF Sound, Object
  <2>11. buf[h].cap + TermLen(h) <= Len(mem[buf[h].d])
    BY <1>1 DEF Sound
  <2>12. wild = FALSE
    BY <1>1 DEF now
  <2>13. Owns(t, h)
    BY <1>3, <2>4, <2>6, <2>7, <2>8, <2>9, <2>10, <2>11, <2>12 DEF Owns
  <2>14. Done(t, h, Content(h))
    BY <1>1, <1>2, <1>3, <2>4, <2>6, <2>7, <2>13 DEF Done, Holds, Sound
  <2>15. EnsureUniqueness(now, h) = t
    BY <1>1, <1>5, <2>1 DEF EnsureUniqueness
  <2> QED  BY <2>4, <2>7, <2>14, <2>15
<1> QED  BY <1>4, <1>5

\* grow() and growExactly() make room, and change no value.
LEMMA GrowDone ==
  ASSUME Fine(now), NEW h \in Handles, NEW n \in Nat, n <= Largest
  PROVE  /\ Done(Grow(now, h, n), h, Content(h)) /\ n <= Grow(now, h, n).buf[h].cap
         /\ Done(GrowExactly(now, h, n), h, Content(h)) /\ n <= GrowExactly(now, h, n).buf[h].cap
<1>1. now \in State /\ Sound(now, h) /\ now.mem = mem /\ now.buf = buf /\ Base(now, h)
  BY NowBase DEF Fine, now
<1>2. /\ Content(h) \in Seq(Cell) /\ Len(Content(h)) = buf[h].size
      /\ \A i \in 1..buf[h].size : Content(h)[i] = mem[buf[h].d][i]
  BY <1>1, ValueIs DEF Value, Content
<1>3. /\ buf[h].size \in Nat /\ buf[h].cap \in Nat /\ buf[h].cap <= Largest
      /\ buf[h].size <= buf[h].cap /\ buf[h].size <= MaxSize
  BY <1>1, StateParts DEF Sound
<1>4. PICK zero : zero = 0
  OBVIOUS
<1>5. ASSUME NEW cap \in Nat, cap <= Largest, buf[h].size <= cap
      PROVE  /\ Done(Realloc(now, h, cap, zero, zero), h, Content(h))
             /\ Realloc(now, h, cap, zero, zero).buf[h].cap = cap
  BY <1>4, <1>5, PlainReallocDone
<1>6. CASE n > buf[h].cap
  <2>1. PICK cap \in Nat : cap = GetGrownCapacity(n) /\ n <= cap /\ cap <= Largest
    BY GrownIs, LargestIs
  <2>2. Grow(now, h, n) = Realloc(now, h, cap, zero, zero) /\ GrowExactly(now, h, n) = Realloc(now, h, n, zero, zero)
    BY <1>1, <1>4, <1>6, <2>1 DEF Grow, GrowExactly
  <2>3. buf[h].size <= n /\ buf[h].size <= cap
    BY <1>3, <1>4, <1>6, <2>1
  <2>4. /\ Done(Realloc(now, h, cap, zero, zero), h, Content(h)) /\ Realloc(now, h, cap, zero, zero).buf[h].cap = cap
    BY <1>5, <2>1, <2>3
  <2>5. /\ Done(Realloc(now, h, n, zero, zero), h, Content(h)) /\ Realloc(now, h, n, zero, zero).buf[h].cap = n
    BY <1>5, <2>3
  <2> QED  BY <2>1, <2>2, <2>4, <2>5
<1>7. CASE ~(n > buf[h].cap)
  <2>1. Grow(now, h, n) = EnsureUniqueness(now, h) /\ GrowExactly(now, h, n) = EnsureUniqueness(now, h)
    BY <1>1, <1>7 DEF Grow, GrowExactly
  <2>2. n <= buf[h].cap
    BY <1>3, <1>7
  <2> QED  BY <2>1, <2>2, UniquenessDone
<1> QED  BY <1>6, <1>7

(***************************************************************************)
(* Operations.  The effect of one on h: the value of h is v, the invariant *)
(* holds and no other object changes.                                      *)
(***************************************************************************)
Effect(h, v) ==
  /\ Fine(now)' /\ Content(h)' = v /\ buf'[h].isnull = FALSE
  /\ \A g \in Handles : g # h => Content(g)' = Content(g) /\ buf'[g].isnull = buf[g].isnull

\* An operation that completes the value has the effect.
LEMMA DoneEffect ==
  ASSUME Fine(now), NEW h \in Handles, NEW t, NEW v, Done(t, h, v), Becomes(t)
  PROVE  Effect(h, v)
<1>1. /\ Fine(t) /\ Value(t, h) = v /\ t.buf[h].isnull = FALSE
      /\ \A g \in Handles : g # h => t.buf[g] = buf[g] /\ Value(t, g) = Content(g)
  BY DoneFine
<1>2. now \in State
  BY DEF Fine
<1>3. Fine(now)' /\ buf' = t.buf /\ \A g \in Handles : Content(g)' = Value(t, g)
  BY <1>1, <1>2, BecomesFine
<1>4. Content(h)' = v /\ buf'[h].isnull = FALSE
  BY <1>1, <1>3
<1>5. ASSUME NEW g \in Handles, g # h PROVE Content(g)' = Content(g) /\ buf'[g].isnull = buf[g].isnull
  BY <1>1, <1>3, <1>5
<1> QED  BY <1>3, <1>4, <1>5 DEF Effect

\* What the invariant says of the fields.
LEMMA NowIs ==
  ASSUME Fine(now), NEW h \in Handles
  PROVE  /\ now \in State /\ now.mem = mem /\ now.buf = buf /\ now.wild = wild /\ wild = FALSE /\ Base(now, h)
         /\ buf \in [Handles -> Object] /\ mem \in [Blocks -> Seq(Cell)]
         /\ now = [mem |-> mem, buf |-> buf, wild |-> wild]
         /\ buf[h].size \in Nat /\ buf[h].cap \in Nat /\ buf[h].d \in Blocks
         /\ buf[h].size <= MaxSize /\ buf[h].size <= buf[h].cap /\ buf[h].cap <= Largest
         /\ buf[h].cap + TermLen(h) <= Len(mem[buf[h].d]) /\ Len(mem[buf[h].d]) \in Nat
         /\ Content(h) \in Seq(Cell) /\ Len(Content(h)) = buf[h].size
         /\ \A i \in 1..buf[h].size : Content(h)[i] = mem[buf[h].d][i]
         /\ Value(now, h) = Content(h)
<1>1. now \in State /\ now.mem = mem /\ now.buf = buf /\ now.wild = wild /\ now.wild = FALSE
      /\ now = [mem |-> mem, buf |-> buf, wild |-> wild] /\ Base(now, h)
  BY NowBase DEF now, Fine
<1>2. Value(now, h) = Content(h)
  BY <1>1 DEF Value, Content
<1>3. /\ Content(h) \in Seq(Cell) /\ Len(Content(h)) = buf[h].size
      /\ \A i \in 1..buf[h].size : Content(h)[i] = mem[buf[h].d][i]
  BY <1>1, <1>2, ValueIs
<1>4. Sound(now, h)
  BY DEF Fine
<1> QED  BY <1>1, <1>2, <1>3, <1>4, StateParts DEF Sound

\* Giving h other fields.
Gives(t, h, o) == t = [now EXCEPT !.buf[h] = o]

\* ... with what that changes.
Given(t, h, o) ==
  /\ t \in State /\ t.mem = mem /\ t.wild = FALSE /\ t.buf[h] = o
  /\ \A g \in Handles : g # h => t.buf[g] = buf[g]

\* The assignment of an object's fields.
LEMMA SetObject ==
  ASSUME Fine(now), NEW h \in Handles, NEW o \in Object, NEW t, Gives(t, h, o)
  PROVE  Given(t, h, o)
<1>1. /\ now = [mem |-> mem, buf |-> buf, wild |-> wild] /\ wild = FALSE
      /\ buf \in [Handles -> Object] /\ mem \in [Blocks -> Seq(Cell)]
  BY NowIs
<1>2. t = [mem |-> mem, buf |-> [buf EXCEPT ![h] = o], wild |-> wild]
  BY <1>1 DEF Gives
<1>3. t.mem = mem /\ t.buf = [buf EXCEPT ![h] = o] /\ t.wild = wild
  <2>1. PICK new : new = [buf EXCEPT ![h] = o]
    OBVIOUS
  <2>2. t = [mem |-> mem, buf |-> new, wild |-> wild]
    BY <1>2, <2>1
  <2>3. t.mem = mem /\ t.buf = new /\ t.wild = wild
    BY <2>2
  <2> QED  BY <2>1, <2>3
<1>4. t.buf \in [Handles -> Object]
  BY <1>1, <1>3
<1>5. t \in State
  <2>1. wild \in BOOLEAN
    BY <1>1
  <2> QED  BY <1>1, <1>2, <1>3, <1>4, <2>1 DEF State
<1> QED  BY <1>1, <1>3, <1>5 DEF Given

\* Fields that share a block: of a static one, or of another object.
LEMMA ShareFine ==
  ASSUME Fine(now), NEW h \in Handles, NEW t \in State, t.mem = mem, t.wild = FALSE,
         \A g \in Handles : g # h => t.buf[g] = buf[g],
         Sound(t, h), \A g \in Handles : g # h /\ buf[g].d = t.buf[h].d => buf[g].size = t.buf[h].size
  PROVE  Fine(t) /\ \A g \in Handles : g # h => Value(t, g) = Content(g)
<1>1. ASSUME NEW g \in Handles, g # h PROVE Sound(t, g) /\ Value(t, g) = Content(g)
  <2>1. Sound(now, g) /\ now.buf = buf /\ now.mem = mem
    BY DEF Fine, now
  <2>2. t.buf[g] = buf[g]
    BY <1>1
  <2>3. Sound(t, g)
    BY <2>1, <2>2 DEF Sound
  <2>4. Value(t, g) = Content(g)
    BY <2>1, <2>2 DEF Value, Content, Cells, now
  <2> QED  BY <2>3, <2>4
<1>2. t.mem[Rom] = RomCells /\ t.mem[Empty] = <<Term>>
  BY DEF Fine, now
<1>3. \A f, g \in Handles : t.buf[f].d = t.buf[g].d => t.buf[f].size = t.buf[g].size
  <2> SUFFICES ASSUME NEW f \in Handles, NEW g \in Handles, t.buf[f].d = t.buf[g].d
               PROVE  t.buf[f].size = t.buf[g].size
    OBVIOUS
  <2>1. CASE f # h /\ g # h
    BY <2>1 DEF Fine, now
  <2>2. CASE f = h \/ g = h
    BY <2>2
  <2> QED  BY <2>1, <2>2
<1> QED  BY <1>1, <1>2, <1>3 DEF Fine

\* What the objects see of such a step.
Shares(h, o, v) ==
  /\ Fine(now)' /\ Content(h)' = v /\ buf'[h] = o
  /\ \A g \in Handles : g # h => Content(g)' = Content(g) /\ buf'[g] = buf[g]

\* ... and leaves the value that the other object has.
LEMMA ShareEffect ==
  ASSUME Fine(now), NEW h \in Handles, NEW t, Fine(t), Becomes(t),
         \A g \in Handles : g # h => t.buf[g] = buf[g] /\ Value(t, g) = Content(g)
  PROVE  Shares(h, t.buf[h], Value(t, h))
<1>1. now \in State
  BY DEF Fine
<1>2. Fine(now)' /\ buf' = t.buf /\ \A g \in Handles : Content(g)' = Value(t, g)
  BY <1>1, BecomesFine
<1> QED  BY <1>2 DEF Shares

\* A cleared object refers to the empty array.
LEMMA DefaultEffect ==
  ASSUME Fine(now), NEW h \in Handles, Default(h)
  PROVE  Shares(h, Null, <<>>)
<1>1. PICK o, t : o = Null /\ t = [now EXCEPT !.buf[h] = o]
  OBVIOUS
<1>2. Null \in Object /\ Null.d = Empty /\ Null.size = 0 /\ Null.cap = 0 /\ Null.dummy = FALSE
  BY DEF Null, Object, Blocks
<1>3. /\ t \in State /\ t.mem = mem /\ t.wild = FALSE /\ t.buf[h] = Null
      /\ \A g \in Handles : g # h => t.buf[g] = buf[g]
  <2>1. o \in Object /\ Gives(t, h, o)
    BY <1>1, <1>2 DEF Gives
  <2>2. Given(t, h, o)
    BY <2>1, SetObject
  <2> QED  BY <1>1, <2>2 DEF Given
<1>4. mem[Empty] = <<Term>> /\ Empty # Rom
  BY BlocksIs DEF Fine, now
<1>5. Sound(t, h)
  <2>1. TermLen(h) \in {0, 1} /\ Len(<<Term>>) = 1 /\ <<Term>>[0 + 1] = Term
    BY TermLenIs
  <2>2. /\ t.buf[h].size = 0 /\ t.buf[h].cap = 0 /\ t.buf[h].d = Empty /\ t.buf[h].dummy = FALSE
        /\ t.mem[Empty] = <<Term>>
    BY <1>2, <1>3, <1>4
  <2>3. /\ t.buf[h].size <= MaxSize /\ t.buf[h].size <= t.buf[h].cap /\ t.buf[h].cap <= Largest
        /\ t.buf[h].cap + TermLen(h) <= Len(t.mem[t.buf[h].d])
    BY <2>1, <2>2, LargestIs
  <2>4. t.mem[t.buf[h].d][t.buf[h].size + 1] = Term
    BY <2>1, <2>2
  <2> QED  BY <1>4, <2>2, <2>3, <2>4 DEF Sound
<1>6. ASSUME NEW g \in Handles, g # h, buf[g].d = t.buf[h].d PROVE buf[g].size = t.buf[h].size
  <2>1. Sound(now, g) /\ now.buf = buf /\ now \in State
    BY DEF Fine, now
  <2>2. buf[g].cap = 0 /\ buf[g].size <= buf[g].cap /\ buf[g].size \in Nat
    BY <1>2, <1>3, <1>6, <2>1, StateParts DEF Sound
  <2> QED  BY <1>2, <1>3, <2>2
<1>7. Fine(t) /\ \A g \in Handles : g # h => Value(t, g) = Content(g)
  BY <1>3, <1>5, <1>6, ShareFine
<1>8. Value(t, h) = <<>>
  <2>1. Value(t, h) \in Seq(Cell) /\ Len(Value(t, h)) = 0
    BY <1>2, <1>3, <1>7, ValueIs
  <2> QED  BY <2>1
<1>9. Becomes(t)
  BY <1>1 DEF Default
<1>10. Shares(h, t.buf[h], Value(t, h))
  BY <1>3, <1>7, <1>9, ShareEffect
<1> QED  BY <1>3, <1>8, <1>10

\* Sharing, seen as an effect on the value.
LEMMA SharesEffect ==
  ASSUME NEW h \in Handles, NEW o, NEW v, Shares(h, o, v), o.isnull = FALSE
  PROVE  Effect(h, v)
BY DEF Shares, Effect

\* An alias of read-only memory holds what that holds.
LEMMA ReadAliasEffect ==
  ASSUME Fine(now), NEW h \in Handles, ReadAlias(h)
  PROVE  \E u \in Elem : Effect(h, <<u>>)
<1>1. PICK o, t : o = [d |-> Rom, size |-> 1, cap |-> 1, isnull |-> FALSE, dummy |-> TRUE]
                  /\ t = [now EXCEPT !.buf[h] = o]
  OBVIOUS
<1>2. o \in Object /\ o.d = Rom /\ o.size = 1 /\ o.cap = 1 /\ o.isnull = FALSE /\ o.dummy = TRUE
  BY <1>1 DEF Object, Blocks
<1>3. Given(t, h, o)
  <2>1. Gives(t, h, o)
    BY <1>1 DEF Gives
  <2> QED  BY <1>2, <2>1, SetObject
<1>4. PICK u : u = (CHOOSE w \in Elem : w \notin Trimmed)
  OBVIOUS
<1>5. u \in Elem /\ mem[Rom] = <<u, Term>>
  <2>1. \E w \in Elem : w \notin Trimmed
    BY BufferAssumption
  <2>2. u \in Elem
    BY <1>4, <2>1, Zenon
  <2> QED  BY <1>4, <2>2 DEF Fine, now, RomCells
<1>6. Sound(t, h)
  <2>1. t.buf[h] = o /\ t.mem = mem /\ Len(mem[Rom]) = 2 /\ mem[Rom][1 + 1] = Term /\ Empty # Rom
    BY <1>3, <1>5, BlocksIs DEF Given
  <2>2. TermLen(h) \in {0, 1}
    BY TermLenIs
  <2> QED  BY <1>2, <2>1, <2>2, LargestIs DEF Sound
<1>7. ASSUME NEW g \in Handles, g # h, buf[g].d = t.buf[h].d PROVE buf[g].size = t.buf[h].size
  <2>1. Sound(now, g) /\ now.buf = buf
    BY DEF Fine, now
  <2> QED  BY <1>2, <1>3, <1>7, <2>1 DEF Sound, Given
<1>8. Fine(t) /\ \A g \in Handles : g # h => Value(t, g) = Content(g)
  <2>1. t \in State /\ t.mem = mem /\ t.wild = FALSE /\ \A g \in Handles : g # h => t.buf[g] = buf[g]
    BY <1>3 DEF Given
  <2> QED  BY <2>1, <1>6, <1>7, ShareFine
<1>9. Value(t, h) = <<u>>
  <2>1. /\ Value(t, h) \in Seq(Cell) /\ Len(Value(t, h)) = 1
        /\ \A i \in 1..1 : Value(t, h)[i] = mem[Rom][i]
    BY <1>2, <1>3, <1>8, ValueIs, ZenonT(30) DEF Given
  <2>2. Value(t, h)[1] = u
    BY <1>5, <2>1
  <2> QED  BY <2>1, <2>2
<1>10. Becomes(t)
  BY <1>1 DEF ReadAlias
<1>11. Shares(h, t.buf[h], Value(t, h))
  <2>1. \A g \in Handles : g # h => t.buf[g] = buf[g] /\ Value(t, g) = Content(g)
    BY <1>3, <1>8 DEF Given
  <2> QED  BY <1>8, <1>10, <2>1, ShareEffect
<1>12. t.buf[h].isnull = FALSE
  BY <1>2, <1>3 DEF Given
<1>13. Effect(h, Value(t, h))
  BY <1>11, <1>12, SharesEffect
<1> QED  BY <1>5, <1>9, <1>13

\* A copy has the value of the original.
LEMMA AssignEffect ==
  ASSUME Fine(now), NEW h \in Handles, NEW g \in Handles, g # h, h \in Strings => g \in Strings, Assign(h, g)
  PROVE  Shares(h, buf[g], Content(g))
<1>1. PICK o, t : o = buf[g] /\ t = [now EXCEPT !.buf[h] = o]
  OBVIOUS
<1>2. /\ o \in Object /\ Sound(now, g) /\ now.buf = buf /\ now.mem = mem /\ now \in State
      /\ Len(mem[buf[g].d]) \in Nat /\ buf[g].cap \in Nat
  <2>1. buf \in [Handles -> Object] /\ Len(mem[buf[g].d]) \in Nat /\ buf[g].cap \in Nat
    BY NowIs
  <2> QED  BY <1>1, <2>1 DEF Fine, now
<1>3. Given(t, h, o)
  <2>1. Gives(t, h, o)
    BY <1>1 DEF Gives
  <2> QED  BY <1>2, <2>1, SetObject
<1>4. t.buf[h] = now.buf[g] /\ t.mem = now.mem
  BY <1>1, <1>2, <1>3 DEF Given
<1>5. Sound(t, h)
  <2>1. PICK lh \in {0, 1}, lg \in {0, 1} : lh = TermLen(h) /\ lg = TermLen(g) /\ lh <= lg
    BY TermLenIs
  <2>2. now.buf[g].cap + TermLen(h) <= Len(now.mem[now.buf[g].d])
    <3>1. now.buf[g].cap + TermLen(g) <= Len(now.mem[now.buf[g].d])
      BY <1>2 DEF Sound
    <3> QED  BY <1>2, <2>1, <3>1
  <2> QED  BY <1>2, <1>4, <2>2 DEF Sound
<1>6. \A f \in Handles : f # h /\ buf[f].d = t.buf[h].d => buf[f].size = t.buf[h].size
  BY <1>2, <1>4 DEF Fine
<1>7. Fine(t) /\ \A f \in Handles : f # h => Value(t, f) = Content(f)
  <2>1. t \in State /\ t.mem = mem /\ t.wild = FALSE /\ \A f \in Handles : f # h => t.buf[f] = buf[f]
    BY <1>3 DEF Given
  <2> QED  BY <2>1, <1>5, <1>6, ShareFine
<1>8. Value(t, h) = Content(g)
  BY <1>2, <1>4 DEF Value, Content, Cells
<1>9. Becomes(t)
  BY <1>1 DEF Assign
<1>10. Shares(h, t.buf[h], Value(t, h))
  <2>1. \A f \in Handles : f # h => t.buf[f] = buf[f] /\ Value(t, f) = Content(f)
    BY <1>3, <1>7 DEF Given
  <2> QED  BY <1>7, <1>9, <2>1, ShareEffect
<1> QED  BY <1>2, <1>4, <1>8, <1>10

\* Filling a new block.
LEMMA WriteFresh ==
  ASSUME NEW h \in Handles, NEW s, Base(s, h), NEW t, NEW n, Fresh(s, t, h, n),
         NEW u, NEW at, NEW cells, Written(t, u, t.buf[h].d, at, cells)
  PROVE  Fresh(s, u, h, n) /\ u.buf = t.buf
BY DEF Fresh, Written

\* The constructors that copy their argument.
LEMMA FromDataEffect ==
  ASSUME Fine(now), NEW h \in Handles, FromData(h)
  PROVE  buf[h] = Null /\ \E src \in Sources : Effect(h, src)
<1>1. PICK s : s = now
  OBVIOUS
<1>2. Base(s, h) /\ s \in State /\ Fine(now)
  BY <1>1, NowIs
<1>3. PICK src \in Sources, spare \in {0, 1} :
        LET new == NewBlock(s, h, Len(src) + spare + TermLen(h))
            filled == Put(new, new.buf[h].d, 0, src)
        IN  Becomes(Terminate([filled EXCEPT !.buf[h].size = Len(src), !.buf[h].cap = Len(src) + spare], h))
  BY <1>1, ZenonT(30) DEF FromData
<1>4. src \in Seq(Cell) /\ Len(src) \in Nat /\ Len(src) <= MaxSize
  <2>1. src \in Seq(Elem) /\ Len(src) <= MaxSize
    BY BufferAssumption
  <2>2. Elem \subseteq Cell
    BY DEF Cell
  <2> QED  BY <2>1, <2>2
<1>5. PICK one \in {0, 1} : one = TermLen(h)
  BY TermLenIs
<1>6. PICK size, cap, n, zero : /\ size = Len(src) /\ cap = Len(src) + spare /\ n = Len(src) + spare + TermLen(h)
                                /\ size \in Nat /\ cap \in Nat /\ n \in Nat /\ n \in 0..(Largest + 1) /\ size <= cap
                                /\ cap <= Largest /\ cap + TermLen(h) <= n /\ zero = 0 /\ zero + size <= n /\ zero \in Nat
  BY <1>4, <1>5, LargestIs
<1>7. PICK t : t = NewBlock(s, h, n)
  OBVIOUS
<1>8. Fresh(s, t, h, n)
  BY <1>2, <1>6, <1>7, NewBlockIs
<1>9. PICK b, u : b = t.buf[h].d /\ u = Put(t, b, zero, src)
  OBVIOUS
<1>10. t \in State /\ b \in Blocks /\ Len(t.mem[b]) = n
  BY <1>8, <1>9 DEF Fresh, Blocks
<1>11. Written(t, u, b, zero, src)
  BY <1>4, <1>6, <1>9, <1>10, PutIs
<1>12. Fresh(s, u, h, n) /\ u.buf = t.buf
  BY <1>2, <1>8, <1>9, <1>11, WriteFresh
<1>13. PICK w : Sets(u, w, h, size, cap)
  BY DEF Sets
<1>14. PICK v \in Seq(Cell) :
           /\ Done(Terminate(w, h), h, v) /\ Len(v) = size
           /\ \A i \in 1..size : v[i] = u.mem[u.buf[h].d][i]
           /\ Terminate(w, h).buf[h].cap = cap
  <2>1. Enough(h, n, size, cap)
    BY <1>4, <1>6 DEF Enough
  <2> QED  BY <1>2, <1>12, <1>13, <2>1, FreshDone
<1>15. v = src
  <2>1. \A i \in 1..size : zero + i = i
    BY <1>6
  <2>2. \A i \in 1..size : v[i] = src[i]
    <3>1. u.buf[h].d = b /\ \A i \in 1..size : u.mem[b][zero + i] = src[i]
      BY <1>6, <1>9, <1>11, <1>12 DEF Written
    <3>2. \A i \in 1..size : u.mem[b][i] = src[i]
      BY <2>1, <3>1
    <3> QED  BY <1>14, <3>1, <3>2
  <2> QED  BY <1>4, <1>6, <1>14, <2>2
<1>16. Becomes(Terminate(w, h))
  BY <1>3, <1>6, <1>7, <1>9, <1>13 DEF Sets
<1>17. Effect(h, src)
  BY <1>14, <1>15, <1>16, DoneEffect
<1> QED  BY <1>17 DEF FromData

\* The constructors that only reserve memory.
LEMMA WithCapacityEffect ==
  ASSUME Fine(now), NEW h \in Handles, WithCapacity(h)
  PROVE  buf[h] = Null /\ Effect(h, <<>>)
<1>1. PICK s : s = now
  OBVIOUS
<1>2. Base(s, h) /\ s \in State /\ s.buf = buf /\ buf[h] = Null
  BY <1>1, NowIs DEF WithCapacity
<1>3. PICK cap \in Capacities : Becomes(Terminate([NewBlock(s, h, cap + TermLen(h)) EXCEPT !.buf[h].cap = cap], h))
  BY <1>1 DEF WithCapacity
<1>4. PICK one \in {0, 1} : one = TermLen(h)
  BY TermLenIs
<1>5. cap \in Nat /\ cap <= Largest
  BY LargestIs, BufferAssumption
<1>6. PICK n, zero : /\ n = cap + TermLen(h) /\ n \in Nat /\ n \in 0..(Largest + 1) /\ cap + TermLen(h) <= n
                     /\ zero = 0 /\ zero \in Nat /\ zero <= cap /\ zero <= MaxSize
  BY <1>4, <1>5, LargestIs
<1>7. PICK t : t = NewBlock(s, h, n)
  OBVIOUS
<1>8. Fresh(s, t, h, n)
  BY <1>2, <1>6, <1>7, NewBlockIs
<1>9. PICK w : w = [t EXCEPT !.buf[h].cap = cap]
  OBVIOUS
<1>10. Sets(t, w, h, zero, cap)
  <2>1. t.buf[h].size = zero /\ t \in State
    BY <1>2, <1>6, <1>8 DEF Fresh, Null
  <2>2. t.buf[h] \in Object /\ t.buf \in [Handles -> Object] /\ t = [mem |-> t.mem, buf |-> t.buf, wild |-> t.wild]
    BY <2>1, StateParts
  <2>3. PICK t1 : t1 = [t EXCEPT !.buf[h].size = zero]
    OBVIOUS
  <2>4. [t.buf[h] EXCEPT !.size = zero] = t.buf[h]
    BY <2>1, <2>2 DEF Object
  <2>5. t1 = t
    <3>1. [t.buf EXCEPT ![h] = [t.buf[h] EXCEPT !.size = zero]] = t.buf
      BY <2>2, <2>4
    <3>2. t1 = [t EXCEPT !.buf = [t.buf EXCEPT ![h] = [t.buf[h] EXCEPT !.size = zero]]]
      BY <2>2, <2>3
    <3> QED  BY <2>2, <3>1, <3>2
  <2>6. [t EXCEPT !.buf[h].size = zero, !.buf[h].cap = cap] = [t1 EXCEPT !.buf[h].cap = cap]
    BY <2>3
  <2> QED  BY <1>9, <2>5, <2>6 DEF Sets
<1>11. PICK v \in Seq(Cell) :
           /\ Done(Terminate(w, h), h, v) /\ Len(v) = zero
           /\ \A i \in 1..zero : v[i] = t.mem[t.buf[h].d][i]
           /\ Terminate(w, h).buf[h].cap = cap
  <2>1. Enough(h, n, zero, cap)
    BY <1>5, <1>6 DEF Enough
  <2> QED  BY <1>2, <1>8, <1>10, <2>1, FreshDone
<1>12. v = <<>>
  BY <1>6, <1>11
<1>13. Becomes(Terminate(w, h))
  BY <1>3, <1>6, <1>7, <1>9
<1>14. Effect(h, v)
  BY <1>11, <1>13, DoneEffect
<1> QED  BY <1>2, <1>12, <1>14

\* Two sequences after one another, by their elements.
LEMMA Joined ==
  ASSUME NEW a \in Seq(Cell), NEW b \in Seq(Cell)
  PROVE  /\ a \o b \in Seq(Cell) /\ Len(a \o b) = Len(a) + Len(b)
         /\ \A i \in 1..Len(a) : (a \o b)[i] = a[i]
         /\ \A i \in 1..Len(b) : (a \o b)[Len(a) + i] = b[i]
BY ConcatProperties

\* An array that the program lends has the program's value.
LEMMA WriteAliasEffect ==
  ASSUME Fine(now), NEW h \in Handles, WriteAlias(h)
  PROVE  \E u \in Elem : Effect(h, <<u>>)
<1>1. PICK u : u = (CHOOSE w \in Elem : w \notin Trimmed)
  OBVIOUS
<1>2. u \in Elem /\ u \in Cell /\ RomCells = <<u, Term>> /\ Term \in Cell /\ Junk \in Cell
  <2>1. \E w \in Elem : w \notin Trimmed
    BY BufferAssumption
  <2>2. u \in Elem
    BY <1>1, <2>1, Zenon
  <2> QED  BY <1>1, <2>2 DEF RomCells, Cell
<1>3. PICK cells : cells = RomCells \o <<Junk>>
  OBVIOUS
<1>4. cells \in Seq(Cell) /\ Len(cells) = 3 /\ cells[1] = u /\ cells[2] = Term
  <2>1. PICK a, j : a = RomCells /\ j = <<Junk>>
    OBVIOUS
  <2>2. a \in Seq(Cell) /\ Len(a) = 2 /\ a[1] = u /\ a[2] = Term /\ j \in Seq(Cell) /\ Len(j) = 1
    BY <1>2, <2>1
  <2>3. a \o j \in Seq(Cell) /\ Len(a \o j) = 3 /\ (a \o j)[1] = u /\ (a \o j)[2] = Term
    <3>1. /\ a \o j \in Seq(Cell) /\ Len(a \o j) = Len(a) + Len(j)
          /\ \A i \in 1..Len(a) : (a \o j)[i] = a[i]
      BY <2>2, Joined
    <3>2. PICK r : r = a \o j
      OBVIOUS
    <3>3. Len(r) = 3 /\ \A i \in 1..2 : r[i] = a[i]
      BY <2>2, <3>1, <3>2
    <3>4. r[1] = u /\ r[2] = Term
      BY <2>2, <3>3
    <3> QED  BY <3>1, <3>2, <3>3, <3>4
  <2> QED  BY <1>3, <2>1, <2>3
<1>5. PICK one \in {0, 1} : one = TermLen(h)
  BY TermLenIs
<1>6. PICK cap \in Nat : cap = 3 - TermLen(h) /\ cap >= 2 /\ cap + one = 3
  BY <1>5
<1>7. PICK o, t : /\ o = [d |-> Ram, size |-> 1, cap |-> cap, isnull |-> FALSE, dummy |-> FALSE]
                  /\ t = [now EXCEPT !.mem[Ram] = cells, !.buf[h] = o]
  OBVIOUS
<1>8. /\ o \in Object /\ o.d = Ram /\ o.size = 1 /\ o.cap = cap /\ o.isnull = FALSE /\ o.dummy = FALSE
      /\ Ram \in Blocks /\ Empty # Ram /\ Rom # Ram /\ Empty \in Blocks /\ Rom \in Blocks
  BY <1>7, BlocksIs DEF Object, Blocks
<1>9. /\ now = [mem |-> mem, buf |-> buf, wild |-> wild] /\ wild = FALSE
      /\ buf \in [Handles -> Object] /\ mem \in [Blocks -> Seq(Cell)]
  BY NowIs
<1>10. PICK m, b : m = [mem EXCEPT ![Ram] = cells] /\ b = [buf EXCEPT ![h] = o]
  OBVIOUS
<1>11. t = [mem |-> m, buf |-> b, wild |-> wild]
  BY <1>7, <1>9, <1>10
<1>12. t.mem = m /\ t.buf = b /\ t.wild = wild
  BY <1>11
<1>13. m \in [Blocks -> Seq(Cell)] /\ m[Ram] = cells /\ \A c \in Blocks : c # Ram => m[c] = mem[c]
  BY <1>4, <1>8, <1>9, <1>10
<1>14. b \in [Handles -> Object] /\ b[h] = o /\ \A g \in Handles : g # h => b[g] = buf[g]
  BY <1>8, <1>9, <1>10
<1>15. t \in State
  <2>1. wild \in BOOLEAN
    BY <1>9
  <2> QED  BY <1>11, <1>13, <1>14, <2>1 DEF State
<1>16. \A g \in Handles : buf[g].d # Ram /\ buf[g].d \in Blocks
  BY <1>9, NowIs DEF WriteAlias, UsersOf
<1>17. Owns(t, h)
  <2>1. t.buf[h].cap <= Largest /\ t.buf[h].cap + TermLen(h) <= Len(t.mem[t.buf[h].d])
    <3>1. t.buf[h].cap = cap /\ t.mem[t.buf[h].d] = cells
      BY <1>8, <1>12, <1>13, <1>14
    <3>2. cap <= Largest
      BY <1>5, <1>6, LargestIs
    <3>3. PICK len : len = Len(cells) /\ len = 3
      BY <1>4
    <3>4. cap + one <= len
      BY <1>5, <1>6, <3>3
    <3> QED  BY <1>5, <3>1, <3>2, <3>3, <3>4
  <2>2. \A g \in Handles : g # h => t.buf[g] = buf[g] /\ buf[g].d # t.buf[h].d /\ t.mem[buf[g].d] = mem[buf[g].d]
    BY <1>8, <1>12, <1>13, <1>14, <1>16
  <2>3. t.mem[Empty] = mem[Empty] /\ t.mem[Rom] = mem[Rom]
    BY <1>8, <1>12, <1>13
  <2> QED  BY <1>8, <1>9, <1>12, <1>14, <1>15, <2>1, <2>2, <2>3 DEF Owns
<1>18. PICK v : v = <<u>>
  OBVIOUS
<1>19. v \in Seq(Cell) /\ Len(v) = 1 /\ v[1] = u /\ \A i \in 1..1 : i = 1
  BY <1>2, <1>18
<1>20. t.buf[h].d = Ram /\ t.mem[Ram] = cells /\ t.buf[h].size = 1 /\ t.buf[h].cap = cap
  BY <1>8, <1>12, <1>13, <1>14
<1>21. Holds(t, h, v)
  BY <1>4, <1>6, <1>17, <1>19, <1>20 DEF Holds
<1>22. Done(t, h, v)
  <2>1. t.mem[t.buf[h].d][Len(v) + 1] = Term
    BY <1>4, <1>19, <1>20
  <2> QED  BY <1>19, <1>20, <1>21, <2>1, LargestIs DEF Done
<1>23. Becomes(t)
  BY <1>3, <1>6, <1>7 DEF WriteAlias
<1>24. Effect(h, v)
  BY <1>22, <1>23, DoneEffect
<1> QED  BY <1>2, <1>18, <1>24

\* r is v with x after its first i elements.
Spliced(v, i, x, r) ==
  /\ r \in Seq(Cell) /\ Len(r) = Len(v) + Len(x)
  /\ \A j \in 1..i : r[j] = v[j]
  /\ \A j \in 1..Len(x) : r[i + j] = x[j]
  /\ \A j \in 1..(Len(v) - i) : r[i + Len(x) + j] = v[i + j]

\* The elements of a subsequence.
LEMMA PartOf ==
  ASSUME NEW v \in Seq(Cell), NEW i \in 1..(Len(v) + 1), NEW j \in 0..Len(v), i <= j + 1
  PROVE  /\ SubSeq(v, i, j) \in Seq(Cell) /\ Len(SubSeq(v, i, j)) = j + 1 - i
         /\ \A k \in 1..(j + 1 - i) : SubSeq(v, i, j)[k] = v[i + k - 1]
<1>1. Len(v) \in Nat /\ i \in Int /\ j \in Int
  OBVIOUS
<1>2. \A k \in i..j : v[k] \in Cell
  <2>1. \A k \in i..j : k \in 1..Len(v)
    BY <1>1
  <2> QED  BY <2>1, ElementOfSeq
<1>3. /\ SubSeq(v, i, j) \in Seq(Cell) /\ Len(SubSeq(v, i, j)) = IF i <= j THEN j - i + 1 ELSE 0
      /\ \A k \in 1..(j - i + 1) : SubSeq(v, i, j)[k] = v[i + k - 1]
  BY <1>1, <1>2, SubSeqProperties
<1> QED  BY <1>1, <1>3

\* A spliced sequence is the concatenation of its three parts.
LEMMA SplicedIs ==
  ASSUME NEW v \in Seq(Cell), NEW x \in Seq(Cell), NEW i \in 0..Len(v), NEW r, Spliced(v, i, x, r)
  PROVE  r = SubSeq(v, 1, i) \o x \o SubSeq(v, i + 1, Len(v))
<1>1. PICK a, b, c : a = SubSeq(v, 1, i) /\ b = SubSeq(v, i + 1, Len(v)) /\ c = (a \o x) \o b
  OBVIOUS
<1>2. PICK n, m \in Nat : n = Len(v) /\ m = Len(x) /\ i \in Nat /\ i <= n
  OBVIOUS
<1>3. a \in Seq(Cell) /\ Len(a) = i /\ \A k \in 1..i : a[k] = v[k]
  <2>1. 1 \in 1..(n + 1) /\ 1 <= i + 1 /\ i + 1 - 1 = i /\ \A k \in 1..i : 1 + k - 1 = k
    BY <1>2
  <2>2. PICK one : one = 1
    OBVIOUS
  <2>3. /\ SubSeq(v, one, i) \in Seq(Cell) /\ Len(SubSeq(v, one, i)) = i + 1 - one
        /\ \A k \in 1..(i + 1 - one) : SubSeq(v, one, i)[k] = v[one + k - 1]
    BY <1>2, <2>1, <2>2, PartOf
  <2> QED  BY <1>1, <2>1, <2>2, <2>3
<1>4. b \in Seq(Cell) /\ Len(b) = n - i /\ \A k \in 1..(n - i) : b[k] = v[i + k]
  <2>1. PICK l : l = i + 1 /\ l \in 1..(n + 1) /\ l <= n + 1 /\ n + 1 - l = n - i /\ \A k \in 1..(n - i) : l + k - 1 = i + k
    BY <1>2
  <2>2. /\ SubSeq(v, l, n) \in Seq(Cell) /\ Len(SubSeq(v, l, n)) = n + 1 - l
        /\ \A k \in 1..(n + 1 - l) : SubSeq(v, l, n)[k] = v[l + k - 1]
    BY <1>2, <2>1, PartOf
  <2> QED  BY <1>1, <1>2, <2>1, <2>2
<1>5. PICK d : d = a \o x
  OBVIOUS
<1>6. /\ d \in Seq(Cell) /\ Len(d) = i + m
      /\ \A k \in 1..i : d[k] = v[k]
      /\ \A k \in 1..m : d[i + k] = x[k]
  <2>1. /\ a \o x \in Seq(Cell) /\ Len(a \o x) = Len(a) + Len(x)
        /\ \A k \in 1..Len(a) : (a \o x)[k] = a[k]
        /\ \A k \in 1..Len(x) : (a \o x)[Len(a) + k] = x[k]
    BY <1>3, Joined
  <2> QED  BY <1>2, <1>3, <1>5, <2>1
<1>7. /\ c \in Seq(Cell) /\ Len(c) = n + m
      /\ \A k \in 1..(i + m) : c[k] = d[k]
      /\ \A k \in 1..(n - i) : c[i + m + k] = v[i + k]
  <2>1. /\ d \o b \in Seq(Cell) /\ Len(d \o b) = Len(d) + Len(b)
        /\ \A k \in 1..Len(d) : (d \o b)[k] = d[k]
        /\ \A k \in 1..Len(b) : (d \o b)[Len(d) + k] = b[k]
    BY <1>4, <1>6, Joined
  <2>2. c = d \o b
    BY <1>1, <1>5
  <2>3. /\ c \in Seq(Cell) /\ Len(c) = (i + m) + (n - i)
        /\ \A k \in 1..(i + m) : c[k] = d[k]
        /\ \A k \in 1..(n - i) : c[i + m + k] = b[k]
    BY <1>4, <1>6, <2>1, <2>2
  <2>4. (i + m) + (n - i) = n + m
    BY <1>2
  <2> QED  BY <1>4, <2>3, <2>4
<1>8. r \in Seq(Cell) /\ Len(r) = n + m
  BY <1>2 DEF Spliced
<1>9. \A k \in 1..(n + m) : r[k] = c[k]
  <2> SUFFICES ASSUME NEW k \in 1..(n + m) PROVE r[k] = c[k]
    OBVIOUS
  <2>1. CASE k <= i
    <3>1. k \in 1..i /\ k \in 1..(i + m)
      BY <1>2, <2>1
    <3> QED  BY <1>6, <1>7, <3>1 DEF Spliced
  <2>2. CASE k > i /\ k <= i + m
    <3>1. PICK j \in 1..m : k = i + j
      <4>1. k - i \in 1..m /\ k = i + (k - i)
        BY <1>2, <2>2
      <4> QED  BY <4>1
    <3>2. k \in 1..(i + m)
      BY <1>2, <2>2
    <3>3. r[k] = x[j]
      BY <1>2, <3>1 DEF Spliced
    <3> QED  BY <1>6, <1>7, <3>1, <3>2, <3>3
  <2>3. CASE k > i + m
    <3>1. PICK j \in 1..(n - i) : k = i + m + j
      <4>1. k - (i + m) \in 1..(n - i) /\ k = i + m + (k - (i + m))
        BY <1>2, <2>3
      <4> QED  BY <4>1
    <3>2. r[k] = v[i + j]
      BY <1>2, <3>1 DEF Spliced
    <3> QED  BY <1>7, <3>1, <3>2
  <2> QED  BY <1>2, <2>1, <2>2, <2>3
<1>10. r = c
  BY <1>7, <1>8, <1>9, SeqEqual
<1> QED  BY <1>1, <1>10

\* Setting the size of h.
Sized(t, u, h, size) == u = [t EXCEPT !.buf[h].size = size]

\* Setting the size keeps the ownership and the cells.
LEMMA SizedOwns ==
  ASSUME NEW h \in Handles, NEW t, Owns(t, h), NEW size \in Nat, NEW u, Sized(t, u, h, size)
  PROVE  /\ Owns(u, h) /\ u.mem = t.mem
         /\ u.buf[h].size = size /\ u.buf[h].cap = t.buf[h].cap /\ u.buf[h].d = t.buf[h].d
<1>1. t \in State
  BY DEF Owns
<1>2. t.buf[h] \in Object /\ t.buf \in [Handles -> Object] /\ t = [mem |-> t.mem, buf |-> t.buf, wild |-> t.wild]
  BY <1>1, StateParts
<1>3. PICK o : o = [t.buf[h] EXCEPT !.size = size]
  OBVIOUS
<1>4. /\ o \in Object /\ o.size = size /\ o.cap = t.buf[h].cap /\ o.d = t.buf[h].d
      /\ o.isnull = t.buf[h].isnull /\ o.dummy = t.buf[h].dummy
  BY <1>2, <1>3 DEF Object
<1>5. u.buf = [t.buf EXCEPT ![h] = o] /\ u = [mem |-> t.mem, buf |-> u.buf, wild |-> t.wild]
  BY <1>2, <1>3 DEF Sized
<1>6. u.buf \in [Handles -> Object] /\ u.buf[h] = o /\ \A g \in Handles : g # h => u.buf[g] = t.buf[g]
  BY <1>2, <1>4, <1>5
<1>7. u.mem = t.mem /\ u.wild = t.wild
  BY <1>5
<1>8. u \in State
  BY <1>1, <1>5, <1>6, StateParts DEF State
<1>9. Owns(u, h)
  BY <1>4, <1>6, <1>7, <1>8 DEF Owns
<1> QED  BY <1>4, <1>6, <1>7, <1>9

\* The capacity to insert with.
LEMMA LargerIs ==
  ASSUME Fine(now), NEW h \in Handles, NEW n \in 0..Largest
  PROVE  /\ LargerCap(h, n) \in Nat /\ LargerCap(h, n) <= Largest
         /\ n <= LargerCap(h, n) /\ buf[h].cap <= LargerCap(h, n)
<1>1. PICK a, b \in 0..Largest : a = GetGrownCapacity(n) /\ b = buf[h].cap /\ n <= a
  <2>1. GetGrownCapacity(n) \in n..Largest
    BY GrownIs
  <2>2. buf[h].cap \in Nat /\ buf[h].cap <= Largest
    BY NowIs
  <2> QED  BY <2>1, <2>2, LargestIs
<1>2. PICK m : m = Max({a, b})
  OBVIOUS
<1>3. m \in {a, b} /\ \A i \in {a, b} : i <= m
  <2>1. PICK S : S = {a, b}
    OBVIOUS
  <2>2. S \subseteq 0..Largest /\ S # {} /\ Largest \in Nat
    BY <2>1, LargestIs
  <2>3. Max(S) \in S /\ \A i \in S : i <= Max(S)
    BY <2>2, MaxIs
  <2> QED  BY <1>2, <2>1, <2>3
<1>4. LargerCap(h, n) = m
  BY <1>1, <1>2 DEF LargerCap
<1> QED  BY <1>1, <1>3, <1>4, LargestIs

\* Room behind the value: n more elements, of the cells written there.
Behind(t, h, v, n, cells) ==
  /\ n \in Nat /\ cells \in Seq(Cell) /\ n <= Len(cells) /\ Len(cells) <= n + TermLen(h)
  /\ Len(v) + n <= t.buf[h].cap /\ Len(v) + n <= MaxSize

\* ... and what the object then holds.
Extended(h, v, n, cells, w) ==
  /\ w \in Seq(Cell) /\ Len(w) = Len(v) + n
  /\ \A i \in 1..Len(v) : w[i] = v[i]
  /\ \A i \in 1..n : w[Len(v) + i] = cells[i]

\* Writing behind the value, and adding it to the size.
LEMMA ExtendHolds ==
  ASSUME NEW h \in Handles, NEW t, NEW v, Done(t, h, v), NEW n, NEW cells, Behind(t, h, v, n, cells),
         NEW p, Written(t, p, t.buf[h].d, Len(v), cells),
         NEW q, NEW size, size = Len(v) + n, Sized(p, q, h, size)
  PROVE  \E w : /\ Extended(h, v, n, cells, w) /\ Holds(q, h, w) /\ q.buf[h].size = Len(w) /\ Len(w) <= MaxSize
                /\ q.buf[h].d = t.buf[h].d /\ q.mem[t.buf[h].d] = p.mem[t.buf[h].d]
<1>1. Holds(t, h, v) /\ Owns(t, h) /\ t \in State /\ v \in Seq(Cell)
  BY DEF Done, Holds, Owns
<1>2. PICK b : b = t.buf[h].d
  OBVIOUS
<1>3. t.mem[b] \in Seq(Cell) /\ b \in Blocks
  BY <1>1, <1>2, StateParts
<1>4. PICK m, k, cap, len \in Nat, one \in {0, 1} :
         /\ m = Len(v) /\ k = Len(cells) /\ cap = t.buf[h].cap /\ len = Len(t.mem[b]) /\ one = TermLen(h)
  <2>1. Len(v) \in Nat /\ Len(cells) \in Nat /\ t.buf[h].cap \in Nat /\ Len(t.mem[b]) \in Nat
    BY <1>1, <1>3, StateParts DEF Behind
  <2>2. TermLen(h) \in {0, 1}
    BY TermLenIs
  <2> QED  BY <2>1, <2>2
<1>5. n \in Nat /\ cells \in Seq(Cell) /\ n <= k /\ k <= n + one /\ m + n <= cap /\ m + n <= MaxSize
  BY <1>4 DEF Behind
<1>6. cap + one <= len
  <2>1. t.buf[h].cap + TermLen(h) <= Len(t.mem[t.buf[h].d])
    BY <1>1 DEF Owns
  <2> QED  BY <1>2, <1>4, <2>1
<1>7. m + k <= len
  BY <1>5, <1>6
<1>8. Owns(p, h) /\ p.buf = t.buf
  <2>1. Len(v) + Len(cells) <= Len(t.mem[t.buf[h].d]) /\ Len(v) \in Nat
    BY <1>2, <1>4, <1>7
  <2> QED  BY <1>1, <1>5, <2>1, WriteHolds
<1>9. size \in Nat /\ size = m + n
  BY <1>4, <1>5
<1>10. /\ Owns(q, h) /\ q.mem = p.mem
       /\ q.buf[h].size = size /\ q.buf[h].cap = p.buf[h].cap /\ q.buf[h].d = p.buf[h].d
  BY <1>8, <1>9, SizedOwns
<1>11. /\ p.mem[b] \in Seq(Cell) /\ Len(p.mem[b]) = len
       /\ \A i \in 1..k : p.mem[b][m + i] = cells[i]
       /\ \A i \in 1..len : i <= m => p.mem[b][i] = t.mem[b][i]
  <2>1. p \in State
    BY <1>8 DEF Owns
  <2> QED  BY <1>2, <1>3, <1>4, <2>1, StateParts DEF Written
<1>12. PICK w : w = [i \in 1..size |-> p.mem[b][i]]
  OBVIOUS
<1>13. \A i \in 1..size : i \in 1..len
  BY <1>5, <1>7, <1>9
<1>14. w \in Seq(Cell) /\ Len(w) = size /\ \A i \in 1..size : w[i] = p.mem[b][i]
  <2>1. w \in [1..size -> Cell]
    BY <1>11, <1>12, <1>13
  <2> QED  BY <1>9, <1>12, <2>1
<1>15. \A i \in 1..m : w[i] = v[i]
  <2>1. \A i \in 1..m : i \in 1..size /\ i \in 1..len /\ i <= m
    BY <1>5, <1>7, <1>9
  <2>2. \A i \in 1..m : t.mem[b][i] = v[i]
    BY <1>1, <1>2, <1>4 DEF Holds
  <2> QED  BY <1>11, <1>14, <2>1, <2>2
<1>16. \A i \in 1..n : w[m + i] = cells[i]
  <2>1. \A i \in 1..n : m + i \in 1..size /\ i \in 1..k
    BY <1>5, <1>9
  <2> QED  BY <1>11, <1>14, <2>1
<1>17. Extended(h, v, n, cells, w)
  BY <1>4, <1>9, <1>14, <1>15, <1>16 DEF Extended
<1>18. Holds(q, h, w)
  <2>1. Len(w) <= q.buf[h].cap
    BY <1>4, <1>5, <1>8, <1>9, <1>10, <1>14
  <2>2. \A i \in 1..Len(w) : q.mem[q.buf[h].d][i] = w[i]
    BY <1>2, <1>8, <1>10, <1>14
  <2> QED  BY <1>10, <1>14, <2>1, <2>2 DEF Holds
<1>19. q.buf[h].size = Len(w) /\ Len(w) <= MaxSize
  BY <1>5, <1>9, <1>10, <1>14
<1>20. q.buf[h].d = t.buf[h].d /\ q.mem[t.buf[h].d] = p.mem[t.buf[h].d]
  BY <1>8, <1>10
<1> QED  BY <1>17, <1>18, <1>19, <1>20

\* append(UnitT)
LEMMA AppendUnitEffect ==
  ASSUME Fine(now), NEW h \in Handles, NEW u \in Elem, AppendUnit(h, u)
  PROVE  \E w : Effect(h, w) /\ Spliced(Content(h), buf[h].size, <<u>>, w)
<1>1. PICK s : s = now
  OBVIOUS
<1>2. PICK v : v = Content(h)
  OBVIOUS
<1>3. PICK m \in Nat, n \in Nat, size \in Nat :
        m = buf[h].size /\ n = 1 /\ size = m + n /\ size <= MaxSize /\ size <= Largest /\ Len(v) = m /\ v \in Seq(Cell)
  <2>1. buf[h].size \in Nat /\ v \in Seq(Cell) /\ Len(v) = buf[h].size
    BY <1>2, NowIs
  <2>2. buf[h].size < MaxSize
    BY DEF AppendUnit
  <2> QED  BY <2>1, <2>2, LargestIs
<1>4. PICK t : t = Grow(now, h, size)
  OBVIOUS
<1>5. Done(t, h, v) /\ size <= t.buf[h].cap
  BY <1>2, <1>3, <1>4, GrowDone
<1>6. PICK cells : cells = <<u>>
  OBVIOUS
<1>7. cells \in Seq(Cell) /\ Len(cells) = n /\ cells[1] = u
  BY <1>3, <1>6 DEF Cell
<1>8. Behind(t, h, v, n, cells)
  <2>1. TermLen(h) \in {0, 1}
    BY TermLenIs
  <2>2. Len(cells) <= n + TermLen(h) /\ n <= Len(cells)
    BY <1>3, <1>7, <2>1
  <2> QED  BY <1>3, <1>5, <1>7, <2>2 DEF Behind
<1>9. PICK b, p, q : b = t.buf[h].d /\ p = Put(t, b, m, cells) /\ q = [p EXCEPT !.buf[h].size = size]
  OBVIOUS
<1>10. Owns(t, h) /\ t \in State /\ b \in Blocks
  <2>1. Owns(t, h) /\ t \in State
    BY <1>5 DEF Done, Holds, Owns
  <2> QED  BY <1>9, <2>1, StateParts
<1>11. m + Len(cells) <= Len(t.mem[b])
  <2>1. PICK cap, len \in Nat, one \in {0, 1} : cap = t.buf[h].cap /\ len = Len(t.mem[b]) /\ one = TermLen(h)
    BY <1>9, <1>10, StateParts, TermLenIs
  <2>2. cap + one <= len
    BY <1>9, <1>10, <2>1 DEF Owns
  <2> QED  BY <1>3, <1>5, <1>7, <2>1, <2>2, SMTT(30)
<1>12. Written(t, p, t.buf[h].d, Len(v), cells)
  BY <1>3, <1>7, <1>9, <1>10, <1>11, PutIs
<1>13. Sized(p, q, h, size) /\ size = Len(v) + n
  BY <1>3, <1>9 DEF Sized
<1>14. PICK w : Extended(h, v, n, cells, w) /\ Holds(q, h, w) /\ q.buf[h].size = Len(w) /\ Len(w) <= MaxSize
  BY <1>5, <1>8, <1>12, <1>13, ExtendHolds
<1>15. Done(Terminate(q, h), h, w)
  BY <1>14, TerminateDone
<1>16. Becomes(Terminate(q, h))
  <2>1. Becomes(Terminate(Enlarge(Put(t, t.buf[h].d, m, <<u>>), h, 1), h))
    BY <1>3, <1>4 DEF AppendUnit
  <2>2. Enlarge(p, h, 1) = q
    <3>1. p.buf[h].size = m
      BY <1>3, <1>5, <1>12 DEF Written, Done
    <3>2. m + 1 = size
      BY <1>3
    <3> QED  BY <1>9, <3>1, <3>2 DEF Enlarge
  <2> QED  BY <1>6, <1>9, <2>1, <2>2
<1>17. Effect(h, w)
  BY <1>15, <1>16, DoneEffect
<1>18. Spliced(v, m, cells, w)
  BY <1>3, <1>7, <1>14, SMTT(30) DEF Spliced, Extended
<1> QED  BY <1>2, <1>3, <1>6, <1>17, <1>18

\* What the argument of an operation has: its data, and its terminator.
Argument(h, g, cells) ==
  /\ cells \in Seq(Cell) /\ Len(cells) = buf[g].size + TermLen(h)
  /\ \A i \in 1..buf[g].size : cells[i] = Content(g)[i]
  /\ h \in Strings => cells[buf[g].size + 1] = Term

\* The source of append(): the other object, or the array itself.
LEMMA ArgumentIs ==
  ASSUME Fine(now), NEW h \in Handles, NEW g \in Handles, h \in Strings <=> g \in Strings,
         g # h \/ h \notin Strings, NEW t, Done(t, h, Content(h)),
         NEW b \in Blocks, NEW to \in Nat, NEW zero, zero = 0,
         to + (buf[g].size + TermLen(h)) <= Len(t.mem[b]),
         g = h => to = buf[h].size /\ b = t.buf[h].d
  PROVE  \E cells : /\ Argument(h, g, cells)
                    /\ Written(t, Memcpy(t, b, to, t.buf[g].d, zero, buf[g].size + TermLen(h)), b, to, cells)
<1>1. Owns(t, h) /\ t \in State
  BY DEF Done, Holds, Owns
<1>2. PICK n, k \in Nat, one \in {0, 1} : n = buf[g].size /\ one = TermLen(h) /\ k = n + one /\ TermLen(g) = one
  <2>1. buf[g].size \in Nat /\ TermLen(h) \in {0, 1}
    BY NowIs, TermLenIs
  <2>2. TermLen(g) = TermLen(h)
    BY DEF TermLen
  <2> QED  BY <2>1, <2>2
<1>3. PICK c : c = t.buf[g].d
  OBVIOUS
<1>4. c \in Blocks
  BY <1>1, <1>3, StateParts
<1>5. PICK len \in Nat : len = Len(t.mem[c])
  BY <1>1, <1>4, StateParts
<1>6. k <= len /\ (\A i \in 1..n : t.mem[c][i] = Content(g)[i]) /\ (h \in Strings => t.mem[c][n + 1] = Term)
  <2>1. CASE g # h
    <3>1. c = buf[g].d /\ t.mem[c] = mem[c]
      BY <1>1, <1>3, <2>1 DEF Owns
    <3>2. now.buf = buf /\ now.mem = mem /\ Sound(now, g) /\ \A i \in 1..n : Content(g)[i] = mem[buf[g].d][i]
      <4>1. now.buf = buf /\ now.mem = mem /\ \A i \in 1..buf[g].size : Content(g)[i] = mem[buf[g].d][i]
        BY NowIs
      <4> QED  BY <1>2, <4>1 DEF Fine
    <3>3. n + one <= Len(mem[c])
      <4>1. now.buf[g].size + TermLen(g) <= Len(now.mem[now.buf[g].d])
        BY FitsBlock
      <4> QED  BY <1>2, <3>1, <3>2, <4>1
    <3>4. h \in Strings => mem[c][n + 1] = Term
      BY <1>2, <3>1, <3>2 DEF Sound
    <3> QED  BY <1>2, <1>5, <3>1, <3>2, <3>3, <3>4
  <2>2. CASE g = h
    <3>1. h \notin Strings /\ one = 0 /\ k = n /\ c = b
      <4>1. h \notin Strings /\ c = b
        BY <1>3, <2>2
      <4>2. one = 0
        BY <1>2, <4>1, TermLenIs
      <4> QED  BY <1>2, <4>1, <4>2
    <3>2. \A i \in 1..n : t.mem[c][i] = Content(h)[i]
      <4>1. Len(Content(h)) = n
        BY <1>2, <2>2, NowIs
      <4> QED  BY <1>3, <2>2, <4>1 DEF Done, Holds
    <3>3. k <= len
      <4>1. to + k <= len
        BY <1>2, <1>5, <3>1
      <4> QED  BY <1>2, <1>5, <4>1, SMTT(30)
    <3> QED  BY <2>2, <3>1, <3>2, <3>3
  <2> QED  BY <2>1, <2>2
<1>7. zero \in Nat /\ to + k <= Len(t.mem[b]) /\ zero + k <= Len(t.mem[c]) /\ \A i \in 1..k : zero + i = i
  BY <1>2, <1>5, <1>6
<1>8. PICK cells \in Seq(Cell) : /\ Len(cells) = k /\ \A i \in 1..k : cells[i] = t.mem[c][zero + i]
                                 /\ Written(t, Memcpy(t, b, to, c, zero, k), b, to, cells)
  BY <1>1, <1>4, <1>7, MemcpyIs
<1>9. \A i \in 1..k : cells[i] = t.mem[c][i]
  BY <1>7, <1>8
<1>10. Argument(h, g, cells)
  <2>1. \A i \in 1..n : i \in 1..k
    BY <1>2
  <2>2. h \in Strings => n + 1 \in 1..k
    BY <1>2, TermLenIs
  <2>3. \A i \in 1..n : cells[i] = Content(g)[i]
    BY <1>6, <1>9, <2>1
  <2>4. h \in Strings => cells[n + 1] = Term
    BY <1>6, <1>9, <2>2
  <2> QED  BY <1>2, <1>8, <2>3, <2>4 DEF Argument
<1> QED  BY <1>2, <1>3, <1>8, <1>10

\* append(const AbstractSharedBuffer&)
LEMMA AppendBufferEffect ==
  ASSUME Fine(now), NEW h \in Handles, NEW g \in Handles, h \in Strings <=> g \in Strings,
         SelfArgument = {}, AppendBuffer(h, g)
  PROVE  \E w : Effect(h, w) /\ Spliced(Content(h), buf[h].size, Content(g), w)
<1>1. PICK v, x : v = Content(h) /\ x = Content(g)
  OBVIOUS
<1>2. PICK m, n, size \in Nat :
        /\ m = buf[h].size /\ n = buf[g].size /\ size = m + n /\ size <= MaxSize /\ size <= Largest
        /\ v \in Seq(Cell) /\ Len(v) = m /\ x \in Seq(Cell) /\ Len(x) = n
  <2>1. buf[h].size \in Nat /\ v \in Seq(Cell) /\ Len(v) = buf[h].size
    BY <1>1, NowIs
  <2>2. buf[g].size \in Nat /\ x \in Seq(Cell) /\ Len(x) = buf[g].size
    BY <1>1, NowIs
  <2>3. buf[h].size + buf[g].size <= MaxSize
    BY DEF AppendBuffer
  <2> QED  BY <2>1, <2>2, <2>3, LargestIs
<1>3. g # h \/ h \notin Strings
  BY DEF AppendBuffer
<1>4. PICK t : t = Grow(now, h, size)
  OBVIOUS
<1>5. Done(t, h, v) /\ size <= t.buf[h].cap
  BY <1>1, <1>2, <1>4, GrowDone
<1>6. PICK b, p, q, zero : /\ b = t.buf[h].d /\ zero = 0
                           /\ p = Memcpy(t, b, m, t.buf[g].d, zero, n + TermLen(h)) /\ q = [p EXCEPT !.buf[h].size = size]
  OBVIOUS
<1>7. Owns(t, h) /\ t \in State /\ b \in Blocks
  <2>1. Owns(t, h) /\ t \in State
    BY <1>5 DEF Done, Holds, Owns
  <2> QED  BY <1>6, <2>1, StateParts
<1>8. PICK one \in {0, 1} : one = TermLen(h)
  BY TermLenIs
<1>9. m + (n + TermLen(h)) <= Len(t.mem[b])
  <2>1. PICK cap, len \in Nat : cap = t.buf[h].cap /\ len = Len(t.mem[b])
    BY <1>6, <1>7, StateParts
  <2>2. cap + one <= len
    BY <1>6, <1>7, <1>8, <2>1 DEF Owns
  <2>3. m + (n + one) <= len
    <3>1. m + n <= cap
      BY <1>2, <1>5, <2>1
    <3> QED  BY <2>2, <3>1
  <2> QED  BY <1>8, <2>1, <2>3
<1>10. PICK cells : Argument(h, g, cells) /\ Written(t, p, b, m, cells)
  <2>1. m + (buf[g].size + TermLen(h)) <= Len(t.mem[b])
    BY <1>2, <1>9
  <2>2. Done(t, h, Content(h)) /\ (g = h => m = buf[h].size /\ b = t.buf[h].d)
    BY <1>1, <1>2, <1>5, <1>6
  <2>3. PICK cells : /\ Argument(h, g, cells)
                     /\ Written(t, Memcpy(t, b, m, t.buf[g].d, zero, buf[g].size + TermLen(h)), b, m, cells)
    BY <1>2, <1>3, <1>6, <1>7, <2>1, <2>2, ArgumentIs
  <2> QED  BY <1>2, <1>6, <2>3
<1>11. cells \in Seq(Cell) /\ Len(cells) = n + one /\ (\A i \in 1..n : cells[i] = x[i])
       /\ (h \in Strings => cells[n + 1] = Term)
  BY <1>1, <1>2, <1>8, <1>10 DEF Argument
<1>12. Behind(t, h, v, n, cells)
  <2>1. n <= Len(cells)
    BY <1>2, <1>8, <1>11
  <2>2. Len(cells) <= n + TermLen(h)
    BY <1>8, <1>11
  <2> QED  BY <1>2, <1>5, <1>11, <2>1, <2>2 DEF Behind
<1>13. Written(t, p, t.buf[h].d, Len(v), cells)
  BY <1>2, <1>6, <1>10
<1>14. Sized(p, q, h, size) /\ size = Len(v) + n
  BY <1>2, <1>6 DEF Sized
<1>15. PICK w : /\ Extended(h, v, n, cells, w) /\ Holds(q, h, w) /\ q.buf[h].size = Len(w) /\ Len(w) <= MaxSize
                /\ q.buf[h].d = t.buf[h].d /\ q.mem[t.buf[h].d] = p.mem[t.buf[h].d]
  BY <1>5, <1>12, <1>13, <1>14, ExtendHolds
<1>16. h \in Strings => q.mem[q.buf[h].d][Len(w) + 1] = Term
  <2> SUFFICES ASSUME h \in Strings PROVE q.mem[q.buf[h].d][Len(w) + 1] = Term
    OBVIOUS
  <2>1. one = 1 /\ n + 1 \in 1..Len(cells)
    <3>1. one = 1
      BY <1>8, TermLenIs
    <3> QED  BY <1>2, <1>11, <3>1
  <2>2. p.mem[b][m + (n + 1)] = Term
    BY <1>10, <1>11, <2>1 DEF Written
  <2>3. Len(w) + 1 = m + (n + 1)
    BY <1>2, <1>15 DEF Extended
  <2> QED  BY <1>6, <1>15, <2>2, <2>3
<1>17. Done(q, h, w)
  BY <1>15, <1>16 DEF Done
<1>18. Becomes(q)
  <2>1. ~(g = h /\ h \in Strings)
    BY <1>3
  <2>2. Becomes(Enlarge(Memcpy(t, t.buf[h].d, m, t.buf[g].d, 0, n + TermLen(h)), h, n))
    BY <1>2, <1>4, <2>1 DEF AppendBuffer
  <2>3. Enlarge(p, h, n) = q
    <3>1. p.buf[h].size = m
      BY <1>2, <1>5, <1>13 DEF Written, Done
    <3> QED  BY <1>2, <1>6, <3>1 DEF Enlarge
  <2> QED  BY <1>6, <2>2, <2>3
<1>19. Effect(h, w)
  BY <1>17, <1>18, DoneEffect
<1>20. Spliced(v, m, x, w)
  BY <1>2, <1>11, <1>15 DEF Spliced, Extended
<1> QED  BY <1>1, <1>2, <1>19, <1>20

\* r is v with a gap of n elements after its first i.
Gap(v, i, n, r) ==
  /\ i \in 0..Len(v) /\ n \in Nat /\ r \in Seq(Cell) /\ Len(r) = Len(v) + n
  /\ \A j \in 1..i : r[j] = v[j]
  /\ \A j \in 1..(Len(v) - i) : r[i + n + j] = v[i + j]

\* The gap is filled.
LEMMA GapDone ==
  ASSUME NEW h \in Handles, NEW t, NEW v \in Seq(Cell), NEW i, NEW n, NEW r, Gap(v, i, n, r), Done(t, h, r),
         NEW cells \in Seq(Cell), Len(cells) = n, NEW p, Written(t, p, t.buf[h].d, i, cells)
  PROVE  \E w : Done(p, h, w) /\ Spliced(v, i, cells, w)
<1>1. PICK m \in Nat : m = Len(v)
  OBVIOUS
<1>2. i \in Nat /\ i <= m /\ n \in Nat /\ Len(r) = m + n
  BY <1>1 DEF Gap
<1>3. i + Len(cells) <= Len(r)
  BY <1>1, <1>2
<1>4. PICK w \in Seq(Cell) :
        /\ Done(p, h, w) /\ Len(w) = Len(r)
        /\ \A j \in 1..Len(cells) : w[i + j] = cells[j]
        /\ \A j \in 1..Len(r) : j <= i \/ j > i + Len(cells) => w[j] = r[j]
  <2>1. i \in Nat /\ i + Len(cells) <= Len(r)
    BY <1>2, <1>3
  <2>2. PICK w : Done(p, h, w) /\ Overwritten(r, i, cells, w)
    BY <2>1, OverwriteDone
  <2> QED  BY <2>2 DEF Overwritten
<1>5. \A j \in 1..i : w[j] = v[j]
  <2>1. \A j \in 1..i : j \in 1..Len(r) /\ j <= i
    BY <1>1, <1>2
  <2> QED  BY <1>4, <2>1 DEF Gap
<1>6. \A j \in 1..(m - i) : w[i + n + j] = v[i + j]
  <2>1. \A j \in 1..(m - i) : i + n + j \in 1..Len(r) /\ i + n + j > i + n
    BY <1>1, <1>2
  <2>2. \A j \in 1..(m - i) : w[i + n + j] = r[i + n + j]
    BY <1>4, <2>1
  <2> QED  BY <1>1, <2>2 DEF Gap
<1>7. Spliced(v, i, cells, w)
  BY <1>1, <1>2, <1>4, <1>5, <1>6 DEF Spliced
<1> QED  BY <1>4, <1>7

\* reallocWithOffset() for prepend()
LEMMA PrependGap ==
  ASSUME Fine(now), NEW h \in Handles, NEW n \in Nat, buf[h].size + n <= MaxSize, NEW zero, zero = 0
  PROVE  \E r : /\ Done(Realloc(now, h, LargerCap(h, buf[h].size + n), zero, n), h, r)
                /\ Gap(Content(h), zero, n, r)
<1>1. PICK s : s = now
  OBVIOUS
<1>2. Base(s, h) /\ s \in State /\ s.buf = buf
  BY <1>1, NowIs
<1>3. PICK m, size \in Nat : m = buf[h].size /\ size = m + n /\ size <= MaxSize /\ size <= Largest
  <2>1. buf[h].size \in Nat
    BY NowIs
  <2> QED  BY <2>1, LargestIs
<1>4. PICK cap : cap = LargerCap(h, size) /\ cap \in Nat /\ cap <= Largest /\ size <= cap
  <2>1. size \in 0..Largest
    BY <1>3, LargestIs
  <2> QED  BY <2>1, LargerIs
<1>5. Moves(s, h, cap, zero, n, size)
  <2>1. zero \in Nat /\ zero <= m /\ size = m + n - zero
    BY <1>3
  <2> QED  BY <1>2, <1>3, <1>4, <2>1 DEF Moves
<1>6. PICK r \in Seq(Cell) :
           /\ Done(Realloc(s, h, cap, zero, n), h, r) /\ Len(r) = size
           /\ \A i \in 1..(s.buf[h].size - zero) : r[n + i] = mem[s.buf[h].d][zero + i]
  BY <1>2, <1>5, ReallocDone
<1>7. Content(h) \in Seq(Cell) /\ Len(Content(h)) = m /\ \A i \in 1..m : Content(h)[i] = mem[buf[h].d][i]
  BY <1>3, NowIs
<1>8. m - zero = m /\ zero + n = n /\ \A i \in 1..m : zero + i = i
  BY <1>3
<1>9. Gap(Content(h), zero, n, r)
  <2>1. \A i \in 1..m : r[n + i] = Content(h)[i]
    BY <1>2, <1>3, <1>6, <1>7, <1>8
  <2>2. \A j \in 1..zero : FALSE
    OBVIOUS
  <2>3. \A j \in 1..(Len(Content(h)) - zero) : r[zero + n + j] = Content(h)[zero + j]
    BY <1>7, <1>8, <2>1
  <2>4. zero \in 0..Len(Content(h)) /\ Len(r) = Len(Content(h)) + n
    BY <1>3, <1>6, <1>7
  <2> QED  BY <1>6, <2>2, <2>3, <2>4 DEF Gap
<1> QED  BY <1>1, <1>3, <1>4, <1>6, <1>9

\* reallocWithSplit() for insert()
LEMMA InsertGap ==
  ASSUME Fine(now), NEW h \in Handles, h \notin Strings, NEW n \in Nat, buf[h].size + n <= MaxSize,
         NEW i \in 0..buf[h].size
  PROVE  \E r : /\ Done(ReallocWithSplit(now, h, LargerCap(h, buf[h].size + n), i, n), h, r)
                /\ Gap(Content(h), i, n, r)
<1>1. PICK m, size \in Nat : m = buf[h].size /\ size = m + n /\ size <= MaxSize /\ size <= Largest
  <2>1. buf[h].size \in Nat
    BY NowIs
  <2> QED  BY <2>1, LargestIs
<1>2. PICK cap : cap = LargerCap(h, size) /\ cap \in Nat /\ cap <= Largest /\ size <= cap
  <2>1. size \in 0..Largest
    BY <1>1, LargestIs
  <2> QED  BY <2>1, LargerIs
<1>3. i \in Nat /\ i <= buf[h].size /\ buf[h].size + n <= cap
  BY <1>1, <1>2
<1>4. PICK r \in Seq(Cell) :
           /\ Done(ReallocWithSplit(now, h, cap, i, n), h, r) /\ Len(r) = buf[h].size + n
           /\ \A j \in 1..i : r[j] = mem[buf[h].d][j]
           /\ \A j \in 1..(buf[h].size - i) : r[i + n + j] = mem[buf[h].d][i + j]
  <2>1. cap \in Nat /\ cap <= Largest /\ i \in Nat /\ i <= buf[h].size
        /\ buf[h].size + n <= cap /\ buf[h].size + n <= MaxSize
    BY <1>2, <1>3
  <2>2. PICK r : Done(ReallocWithSplit(now, h, cap, i, n), h, r) /\ Parted(h, i, n, r)
    BY <2>1, SplitDone
  <2> QED  BY <2>2 DEF Parted
<1>5. Content(h) \in Seq(Cell) /\ Len(Content(h)) = m /\ \A j \in 1..m : Content(h)[j] = mem[buf[h].d][j]
  BY <1>1, NowIs
<1>6. Gap(Content(h), i, n, r)
  <2>1. \A j \in 1..i : j \in 1..m
    BY <1>1, <1>3
  <2>2. \A j \in 1..(m - i) : i + j \in 1..m
    BY <1>1, <1>3
  <2>3. \A j \in 1..i : r[j] = Content(h)[j]
    BY <1>4, <1>5, <2>1
  <2>4. \A j \in 1..(m - i) : r[i + n + j] = Content(h)[i + j]
    BY <1>1, <1>4, <1>5, <2>2
  <2> QED  BY <1>1, <1>4, <1>5, <2>3, <2>4 DEF Gap
<1> QED  BY <1>1, <1>2, <1>4, <1>6

\* An element is put in the gap.
LEMMA FillUnit ==
  ASSUME NEW h \in Handles, NEW t, NEW v \in Seq(Cell), NEW i, NEW n, n = 1, NEW r, Gap(v, i, n, r), Done(t, h, r),
         NEW u \in Elem
  PROVE  \E w : Done(Put(t, t.buf[h].d, i, <<u>>), h, w) /\ Spliced(v, i, <<u>>, w)
<1>1. PICK cells, b, p : cells = <<u>> /\ b = t.buf[h].d /\ p = Put(t, b, i, cells)
  OBVIOUS
<1>2. cells \in Seq(Cell) /\ Len(cells) = n
  BY <1>1 DEF Cell
<1>3. Owns(t, h) /\ t \in State /\ b \in Blocks
  <2>1. Owns(t, h) /\ t \in State
    BY DEF Done, Holds, Owns
  <2> QED  BY <1>1, <2>1, StateParts
<1>4. i + Len(cells) <= Len(t.mem[b]) /\ i \in Nat
  <2>1. PICK m, cap, len \in Nat, one \in {0, 1} :
           m = Len(v) /\ cap = t.buf[h].cap /\ len = Len(t.mem[b]) /\ one = TermLen(h)
    BY <1>3, StateParts, TermLenIs
  <2>2. i \in Nat /\ i <= m /\ Len(r) = m + n
    BY <2>1 DEF Gap
  <2>3. cap + one <= len /\ Len(r) <= cap
    BY <1>1, <1>3, <2>1 DEF Owns, Done, Holds
  <2>4. m + n <= cap
    BY <2>2, <2>3
  <2> QED  BY <1>2, <2>1, <2>2, <2>3, <2>4
<1>5. Written(t, p, t.buf[h].d, i, cells)
  BY <1>1, <1>2, <1>3, <1>4, PutIs
<1>6. \E w : Done(p, h, w) /\ Spliced(v, i, cells, w)
  BY <1>2, <1>5, GapDone
<1> QED  BY <1>1, <1>6

\* The value of another object is copied into the gap.
LEMMA FillBuffer ==
  ASSUME Fine(now), NEW h \in Handles, NEW g \in Handles, g # h,
         NEW t, NEW v \in Seq(Cell), NEW i, NEW n, n = buf[g].size, NEW r, Gap(v, i, n, r), Done(t, h, r),
         NEW zero, zero = 0
  PROVE  \E w : /\ Done(Memcpy(t, t.buf[h].d, i, t.buf[g].d, zero, t.buf[g].size), h, w)
                /\ Spliced(v, i, Content(g), w)
<1>1. PICK b, c : b = t.buf[h].d /\ c = t.buf[g].d
  OBVIOUS
<1>2. Owns(t, h) /\ t \in State /\ b \in Blocks /\ c \in Blocks
  <2>1. Owns(t, h) /\ t \in State
    BY DEF Done, Holds, Owns
  <2> QED  BY <1>1, <2>1, StateParts
<1>3. t.buf[g] = buf[g] /\ t.mem[c] = mem[c]
  BY <1>1, <1>2 DEF Owns
<1>4. PICK l : /\ l = Len(mem[c]) /\ l \in Nat /\ n \in Nat /\ n <= l
               /\ Content(g) \in Seq(Cell) /\ Len(Content(g)) = n /\ \A j \in 1..n : Content(g)[j] = mem[c][j]
  <2>1. buf[g].size \in Nat /\ Len(mem[buf[g].d]) \in Nat /\ buf[g].size + TermLen(g) <= Len(mem[buf[g].d])
    <3>1. now.buf = buf /\ now.mem = mem
      BY NowIs
    <3> QED  BY <3>1, FitsBlock
  <2>2. PICK one \in {0, 1} : one = TermLen(g)
    BY TermLenIs
  <2>3. /\ Content(g) \in Seq(Cell) /\ Len(Content(g)) = buf[g].size
        /\ \A j \in 1..buf[g].size : Content(g)[j] = mem[buf[g].d][j]
    BY NowIs
  <2>4. n <= Len(mem[c])
    BY <1>1, <1>3, <2>1, <2>2
  <2> QED  BY <1>1, <1>3, <2>1, <2>3, <2>4
<1>5. i + n <= Len(t.mem[b]) /\ i \in Nat
  <2>1. PICK m, cap, len \in Nat, one \in {0, 1} :
           m = Len(v) /\ cap = t.buf[h].cap /\ len = Len(t.mem[b]) /\ one = TermLen(h)
    <3>1. Len(v) \in Nat /\ TermLen(h) \in {0, 1}
      BY TermLenIs
    <3>2. t.buf[h].cap \in Nat /\ Len(t.mem[b]) \in Nat
      BY <1>2, StateParts
    <3> QED  BY <3>1, <3>2
  <2>2. i \in Nat /\ i <= m /\ Len(r) = m + n
    BY <2>1 DEF Gap
  <2>3. cap + one <= len /\ Len(r) <= cap
    BY <1>1, <1>2, <2>1 DEF Owns, Done, Holds
  <2>4. m + n <= cap
    BY <2>2, <2>3
  <2>5. i + n <= len
    <3>1. n \in Nat /\ m \in Nat /\ i \in Nat /\ cap \in Nat /\ len \in Nat /\ one \in Int /\ one >= 0
      BY <1>4, <2>1, <2>2
    <3>2. i <= m /\ m + n <= cap /\ cap + one <= len
      BY <2>2, <2>3, <2>4
    <3>3. PICK k : k = n /\ k \in Nat
      BY <3>1
    <3>4. i + k <= len
      BY <3>1, <3>2, <3>3
    <3> QED  BY <3>3, <3>4
  <2> QED  BY <2>1, <2>2, <2>5
<1>6. zero \in Nat /\ zero + n <= Len(t.mem[c]) /\ \A j \in 1..n : zero + j = j
  BY <1>3, <1>4
<1>7. PICK p : p = Memcpy(t, b, i, c, zero, n)
  OBVIOUS
<1>8. PICK cells \in Seq(Cell) : /\ Len(cells) = n /\ \A j \in 1..n : cells[j] = t.mem[c][zero + j]
                                 /\ Written(t, p, b, i, cells)
  BY <1>2, <1>4, <1>5, <1>6, <1>7, MemcpyIs
<1>9. cells = Content(g)
  <2>1. \A j \in 1..n : cells[j] = Content(g)[j]
    BY <1>3, <1>4, <1>6, <1>8
  <2> QED  BY <1>4, <1>8, <2>1, SeqEqual
<1>10. \E w : Done(p, h, w) /\ Spliced(v, i, cells, w)
  BY <1>1, <1>8, GapDone
<1> QED  BY <1>1, <1>3, <1>7, <1>9, <1>10

\* prepend(UnitT)
LEMMA PrependUnitEffect ==
  ASSUME Fine(now), NEW h \in Handles, NEW u \in Elem, PrependUnit(h, u), NEW zero, zero = 0
  PROVE  \E w : Effect(h, w) /\ Spliced(Content(h), zero, <<u>>, w)
<1>1. PICK one, t : one = 1 /\ t = Realloc(now, h, LargerCap(h, buf[h].size + one), zero, one)
  OBVIOUS
<1>2. buf[h].size + one <= MaxSize /\ one \in Nat /\ Content(h) \in Seq(Cell)
  <2>1. buf[h].size \in Nat /\ Content(h) \in Seq(Cell)
    BY NowIs
  <2>2. buf[h].size < MaxSize
    BY DEF PrependUnit
  <2> QED  BY <1>1, <2>1, <2>2, LargestIs, BufferAssumption
<1>3. PICK r : Done(t, h, r) /\ Gap(Content(h), zero, one, r)
  BY <1>1, <1>2, PrependGap
<1>4. PICK w : Done(Put(t, t.buf[h].d, zero, <<u>>), h, w) /\ Spliced(Content(h), zero, <<u>>, w)
  BY <1>1, <1>2, <1>3, FillUnit
<1>5. Becomes(Put(t, t.buf[h].d, zero, <<u>>))
  BY <1>1 DEF PrependUnit
<1>6. Effect(h, w)
  BY <1>4, <1>5, DoneEffect
<1> QED  BY <1>4, <1>6

\* prepend(const AbstractSharedBuffer&)
LEMMA PrependBufferEffect ==
  ASSUME Fine(now), NEW h \in Handles, NEW g \in Handles, SelfArgument = {}, PrependBuffer(h, g), NEW zero, zero = 0
  PROVE  \E w : Effect(h, w) /\ Spliced(Content(h), zero, Content(g), w)
<1>1. PICK n, t : n = buf[g].size /\ t = Realloc(now, h, LargerCap(h, buf[h].size + n), zero, n)
  OBVIOUS
<1>2. buf[h].size + n <= MaxSize /\ n \in Nat /\ Content(h) \in Seq(Cell) /\ g # h
  <2>1. buf[g].size \in Nat
    BY NowIs
  <2>2. Content(h) \in Seq(Cell)
    BY NowIs
  <2>3. buf[h].size + buf[g].size <= MaxSize /\ g # h
    BY DEF PrependBuffer
  <2> QED  BY <1>1, <2>1, <2>2, <2>3
<1>3. PICK r : Done(t, h, r) /\ Gap(Content(h), zero, n, r)
  BY <1>1, <1>2, PrependGap
<1>4. PICK w : /\ Done(Memcpy(t, t.buf[h].d, zero, t.buf[g].d, zero, t.buf[g].size), h, w)
               /\ Spliced(Content(h), zero, Content(g), w)
  BY <1>1, <1>2, <1>3, FillBuffer
<1>5. Becomes(Memcpy(t, t.buf[h].d, zero, t.buf[g].d, zero, t.buf[g].size))
  BY <1>1 DEF PrependBuffer
<1>6. Effect(h, w)
  BY <1>4, <1>5, DoneEffect
<1> QED  BY <1>4, <1>6

\* insert(size_t, UnitT)
LEMMA InsertUnitEffect ==
  ASSUME Fine(now), NEW h \in Handles, NEW i \in 0..buf[h].size, NEW u \in Elem,
         StringInsert = FALSE, InsertUnit(h, i, u)
  PROVE  \E w : Effect(h, w) /\ Spliced(Content(h), i, <<u>>, w)
<1>1. PICK one, t : one = 1 /\ t = ReallocWithSplit(now, h, LargerCap(h, buf[h].size + one), i, one)
  OBVIOUS
<1>2. buf[h].size + one <= MaxSize /\ one \in Nat /\ Content(h) \in Seq(Cell) /\ h \notin Strings
  <2>1. Content(h) \in Seq(Cell)
    BY NowIs
  <2>2. buf[h].size + 1 <= MaxSize /\ h \in Bytes
    BY DEF InsertUnit, Room
  <2>3. h \notin Strings
    BY <2>2, BufferAssumption
  <2> QED  BY <1>1, <2>1, <2>2, <2>3
<1>3. PICK r : Done(t, h, r) /\ Gap(Content(h), i, one, r)
  BY <1>1, <1>2, InsertGap
<1>4. PICK w : Done(Put(t, t.buf[h].d, i, <<u>>), h, w) /\ Spliced(Content(h), i, <<u>>, w)
  BY <1>1, <1>2, <1>3, FillUnit
<1>5. Becomes(Put(t, t.buf[h].d, i, <<u>>))
  BY <1>1 DEF InsertUnit
<1>6. Effect(h, w)
  BY <1>4, <1>5, DoneEffect
<1> QED  BY <1>4, <1>6

\* insert(size_t, const AbstractSharedBuffer&)
LEMMA InsertBufferEffect ==
  ASSUME Fine(now), NEW h \in Handles, NEW i \in 0..buf[h].size, NEW g \in Handles,
         SelfArgument = {}, StringInsert = FALSE, InsertBuffer(h, i, g)
  PROVE  \E w : Effect(h, w) /\ Spliced(Content(h), i, Content(g), w)
<1>1. PICK n, t, zero : n = buf[g].size /\ t = ReallocWithSplit(now, h, LargerCap(h, buf[h].size + n), i, n) /\ zero = 0
  OBVIOUS
<1>2. buf[h].size + n <= MaxSize /\ n \in Nat /\ Content(h) \in Seq(Cell) /\ h \notin Strings /\ g # h
  <2>1. Content(h) \in Seq(Cell)
    BY NowIs
  <2>2. buf[g].size \in Nat
    BY NowIs
  <2>3. buf[h].size + buf[g].size <= MaxSize /\ h \in Bytes /\ g # h
    BY DEF InsertBuffer, Room
  <2>4. h \notin Strings
    BY <2>3, BufferAssumption
  <2> QED  BY <1>1, <2>1, <2>2, <2>3, <2>4
<1>3. PICK r : Done(t, h, r) /\ Gap(Content(h), i, n, r)
  BY <1>1, <1>2, InsertGap
<1>4. PICK w : /\ Done(Memcpy(t, t.buf[h].d, i, t.buf[g].d, zero, t.buf[g].size), h, w)
               /\ Spliced(Content(h), i, Content(g), w)
  BY <1>1, <1>2, <1>3, FillBuffer
<1>5. Becomes(Memcpy(t, t.buf[h].d, i, t.buf[g].d, zero, t.buf[g].size))
  BY <1>1 DEF InsertBuffer
<1>6. Effect(h, w)
  BY <1>4, <1>5, DoneEffect
<1> QED  BY <1>4, <1>6

\* squeeze()
LEMMA SqueezeEffect ==
  ASSUME Fine(now), NEW h \in Handles, Squeeze(h)
  PROVE  Effect(h, Content(h))
<1>1. PICK cap, zero : cap = buf[h].size /\ zero = 0
  OBVIOUS
<1>2. cap \in Nat /\ cap <= Largest /\ buf[h].size <= cap
  <2>1. buf[h].size \in Nat /\ buf[h].size <= MaxSize
    BY NowIs
  <2> QED  BY <1>1, <2>1, LargestIs, BufferAssumption
<1>3. Done(Realloc(now, h, cap, zero, zero), h, Content(h))
  BY <1>1, <1>2, PlainReallocDone
<1>4. Becomes(Realloc(now, h, cap, zero, zero))
  BY <1>1 DEF Squeeze
<1> QED  BY <1>3, <1>4, DoneEffect

\* reserve(), unless it asks for less than there is.
LEMMA ReserveEffect ==
  ASSUME Fine(now), NEW h \in Handles, NEW n \in Capacities, Reserve(h, n)
  PROVE  Effect(h, Content(h)) \/ UNCHANGED vars
<1>1. PICK cap : cap = GetGrownCapacity(n)
  OBVIOUS
<1>2. cap \in Nat /\ cap <= Largest
  <2>1. n \in 0..Largest
    BY LargestIs, BufferAssumption
  <2> QED  BY <1>1, <2>1, GrownIs, LargestIs
<1>3. CASE Becomes(GrowExactly(now, h, cap))
  <2>1. Done(GrowExactly(now, h, cap), h, Content(h))
    BY <1>2, GrowDone
  <2> QED  BY <1>3, <2>1, DoneEffect
<1>4. CASE UNCHANGED vars
  BY <1>4
<1> QED  BY <1>1, <1>3, <1>4 DEF Reserve

\* A write through the pointer that mget() returns.
LEMMA StoreEffect ==
  ASSUME Fine(now), NEW h \in Handles, NEW i \in 0..(buf[h].size - 1), NEW u \in Elem, Store(h, i, u)
  PROVE  i + 1 \in DOMAIN Content(h) /\ Effect(h, [Content(h) EXCEPT ![i + 1] = u])
<1>1. PICK t, v, cells : t = EnsureUniqueness(now, h) /\ v = Content(h) /\ cells = <<u>>
  OBVIOUS
<1>2. Done(t, h, v)
  BY <1>1, UniquenessDone
<1>3. PICK b, p : b = t.buf[h].d /\ p = Put(t, b, i, cells)
  OBVIOUS
<1>4. PICK m \in Nat : m = buf[h].size /\ v \in Seq(Cell) /\ Len(v) = m /\ i \in Nat /\ i + 1 <= m
  <2>1. buf[h].size \in Nat /\ v \in Seq(Cell) /\ Len(v) = buf[h].size
    BY <1>1, NowIs
  <2> QED  BY <2>1
<1>5. cells \in Seq(Cell) /\ Len(cells) = 1 /\ cells[1] = u /\ u \in Cell
  BY <1>1 DEF Cell
<1>6. Owns(t, h) /\ t \in State /\ b \in Blocks
  <2>1. Owns(t, h) /\ t \in State
    BY <1>2 DEF Done, Holds, Owns
  <2> QED  BY <1>3, <2>1, StateParts
<1>7. i + Len(cells) <= Len(t.mem[b]) /\ i + Len(cells) <= Len(v)
  <2>1. PICK cap, len \in Nat, one \in {0, 1} : cap = t.buf[h].cap /\ len = Len(t.mem[b]) /\ one = TermLen(h)
    BY <1>6, StateParts, TermLenIs
  <2>2. cap + one <= len /\ m <= cap
    BY <1>2, <1>3, <1>4, <1>6, <2>1 DEF Owns, Done, Holds
  <2> QED  BY <1>4, <1>5, <2>1, <2>2, SMTT(30)
<1>8. Written(t, p, t.buf[h].d, i, cells)
  BY <1>3, <1>4, <1>5, <1>6, <1>7, PutIs
<1>9. PICK w : Done(p, h, w) /\ Overwritten(v, i, cells, w)
  BY <1>2, <1>4, <1>5, <1>7, <1>8, OverwriteDone
<1>10. PICK k, x : k = i + 1 /\ x = [v EXCEPT ![k] = u]
  OBVIOUS
<1>11. k \in 1..m /\ x \in Seq(Cell) /\ Len(x) = m /\ x[k] = u /\ \A j \in 1..m : j # k => x[j] = v[j]
  <2>1. k \in 1..Len(v)
    BY <1>4, <1>10
  <2>2. DOMAIN v = 1..m
    BY <1>4
  <2> QED  BY <1>4, <1>5, <1>10, <2>1, <2>2, ExceptSeq
<1>12. w \in Seq(Cell) /\ Len(w) = m /\ w[k] = u /\ \A j \in 1..m : j # k => w[j] = v[j]
  <2>1. w[i + 1] = cells[1]
    BY <1>5, <1>9 DEF Overwritten
  <2>2. \A j \in 1..m : j # k => j <= i \/ j > i + Len(cells)
    BY <1>4, <1>5, <1>10
  <2> QED  BY <1>4, <1>5, <1>9, <1>10, <2>1, <2>2 DEF Overwritten
<1>13. w = x
  <2>1. \A j \in 1..m : w[j] = x[j]
    BY <1>11, <1>12
  <2> QED  BY <1>11, <1>12, <2>1, SeqEqual
<1>14. Becomes(p)
  BY <1>1, <1>3 DEF Store
<1>15. Effect(h, w)
  BY <1>9, <1>14, DoneEffect
<1>16. i + 1 \in DOMAIN Content(h)
  BY <1>1, <1>4, <1>10, <1>11
<1> QED  BY <1>1, <1>10, <1>13, <1>15, <1>16

\* Another size, and the terminator behind it: the value is what the block holds.
LEMMA SizedDone ==
  ASSUME NEW h \in Handles, NEW t, Owns(t, h), NEW size \in Nat, size <= t.buf[h].cap, size <= MaxSize,
         NEW q, Sized(t, q, h, size)
  PROVE  \E w \in Seq(Cell) : /\ Done(Terminate(q, h), h, w) /\ Len(w) = size
                              /\ \A i \in 1..size : w[i] = t.mem[t.buf[h].d][i]
<1>1. /\ Owns(q, h) /\ q.mem = t.mem
      /\ q.buf[h].size = size /\ q.buf[h].cap = t.buf[h].cap /\ q.buf[h].d = t.buf[h].d
  BY SizedOwns
<1>2. PICK b : b = t.buf[h].d
  OBVIOUS
<1>3. t \in State /\ b \in Blocks /\ t.mem[b] \in Seq(Cell)
  <2>1. t \in State
    BY DEF Owns
  <2> QED  BY <1>2, <2>1, StateParts
<1>4. \A i \in 1..size : i \in 1..Len(t.mem[b])
  <2>1. PICK cap, len \in Nat, one \in {0, 1} : cap = t.buf[h].cap /\ len = Len(t.mem[b]) /\ one = TermLen(h)
    BY <1>3, StateParts, TermLenIs
  <2>2. cap + one <= len /\ size <= cap
    BY <1>2, <2>1 DEF Owns
  <2> QED  BY <2>1, <2>2
<1>5. PICK w : w = [i \in 1..size |-> t.mem[b][i]]
  OBVIOUS
<1>6. w \in Seq(Cell) /\ Len(w) = size /\ \A i \in 1..size : w[i] = t.mem[b][i]
  <2>1. w \in [1..size -> Cell]
    BY <1>3, <1>4, <1>5
  <2> QED  BY <1>5, <2>1
<1>7. Holds(q, h, w)
  BY <1>1, <1>2, <1>6 DEF Holds
<1>8. Done(Terminate(q, h), h, w)
  BY <1>1, <1>6, <1>7, TerminateDone
<1> QED  BY <1>2, <1>6, <1>8

\* A smaller size: the first elements stay.
LEMMA ShrinkDone ==
  ASSUME NEW h \in Handles, NEW t, NEW v, Done(t, h, v), NEW size \in 0..Len(v), NEW q, Sized(t, q, h, size)
  PROVE  Done(Terminate(q, h), h, SubSeq(v, 1, size))
<1>1. Owns(t, h) /\ v \in Seq(Cell) /\ Len(v) \in Nat /\ Len(v) <= t.buf[h].cap /\ Len(v) <= MaxSize
  <2>1. Owns(t, h) /\ v \in Seq(Cell) /\ Len(v) <= t.buf[h].cap /\ Len(v) <= MaxSize
    BY DEF Done, Holds
  <2> QED  BY <2>1
<1>2. size \in Nat /\ size <= t.buf[h].cap /\ size <= MaxSize
  <2>1. t.buf[h].cap \in Nat /\ MaxSize \in Nat
    <3>1. t \in State
      BY <1>1 DEF Owns
    <3> QED  BY <3>1, StateParts, BufferAssumption
  <2> QED  BY <1>1, <2>1
<1>3. PICK w \in Seq(Cell) : /\ Done(Terminate(q, h), h, w) /\ Len(w) = size
                             /\ \A i \in 1..size : w[i] = t.mem[t.buf[h].d][i]
  BY <1>1, <1>2, SizedDone
<1>4. PICK one : one = 1 /\ one \in 1..(Len(v) + 1) /\ one <= size + 1 /\ size + 1 - one = size /\ \A i \in 1..size : one + i - 1 = i
  BY <1>1
<1>5. /\ SubSeq(v, one, size) \in Seq(Cell) /\ Len(SubSeq(v, one, size)) = size + 1 - one
      /\ \A i \in 1..(size + 1 - one) : SubSeq(v, one, size)[i] = v[one + i - 1]
  BY <1>1, <1>4, PartOf
<1>6. w = SubSeq(v, one, size)
  <2>1. \A i \in 1..size : i \in 1..Len(v)
    BY <1>1
  <2>2. \A i \in 1..size : t.mem[t.buf[h].d][i] = v[i]
    BY <2>1 DEF Done, Holds
  <2>3. \A i \in 1..size : w[i] = SubSeq(v, one, size)[i]
    BY <1>3, <1>4, <1>5, <2>2
  <2> QED  BY <1>3, <1>4, <1>5, <2>3, SeqEqual
<1> QED  BY <1>3, <1>4, <1>6

\* resize(), and what the program writes to the elements that are new.
LEMMA ResizeEffect ==
  ASSUME Fine(now), NEW h \in Handles, NEW n \in 0..MaxSize, NEW u \in Elem, Resize(h, n, u)
  PROVE  \/ n <= buf[h].size /\ Effect(h, SubSeq(Content(h), 1, n))
         \/ /\ n > buf[h].size
            /\ \E w : /\ Effect(h, w)
                      /\ Spliced(Content(h), buf[h].size, [i \in 1..(n - buf[h].size) |-> u], w)
<1>1. PICK t, v : t = Grow(now, h, n) /\ v = Content(h)
  OBVIOUS
<1>2. PICK m \in Nat : m = buf[h].size /\ v \in Seq(Cell) /\ Len(v) = m /\ n \in Nat /\ n <= MaxSize /\ n <= Largest
  <2>1. buf[h].size \in Nat /\ v \in Seq(Cell) /\ Len(v) = buf[h].size
    BY <1>1, NowIs
  <2> QED  BY <2>1, LargestIs, BufferAssumption
<1>3. Done(t, h, v) /\ n <= t.buf[h].cap
  BY <1>1, <1>2, GrowDone
<1>4. PICK q, r : q = [t EXCEPT !.buf[h].size = n] /\ r = Terminate(q, h)
  OBVIOUS
<1>5. Sized(t, q, h, n)
  BY <1>4 DEF Sized
<1>6. CASE n <= m
  <2>1. Becomes(r)
    <3>1. n - buf[h].size <= 0
      BY <1>2, <1>6
    <3> QED  BY <1>1, <1>4, <3>1 DEF Resize
  <2>2. n \in 0..Len(v)
    BY <1>2, <1>6
  <2>3. Done(r, h, SubSeq(v, 1, n))
    BY <1>3, <1>4, <1>5, <2>2, ShrinkDone
  <2>4. Effect(h, SubSeq(v, 1, n))
    BY <2>1, <2>3, DoneEffect
  <2> QED  BY <1>1, <1>2, <1>6, <2>4
<1>7. CASE ~(n <= m)
  <2>1. PICK k \in Nat : k = n - m /\ m + k = n /\ n > m
    <3>1. n - m \in Nat /\ m + (n - m) = n /\ n > m
      BY <1>2, <1>7
    <3> QED  BY <3>1
  <2>2. PICK cells : cells = [i \in 1..k |-> u]
    OBVIOUS
  <2>3. cells \in Seq(Cell) /\ Len(cells) = k
    <3>1. cells \in [1..k -> Cell]
      BY <2>2 DEF Cell
    <3> QED  BY <2>2, <3>1
  <2>4. Owns(t, h)
    BY <1>3 DEF Done, Holds
  <2>5. PICK x \in Seq(Cell) : /\ Done(r, h, x) /\ Len(x) = n
                               /\ \A i \in 1..n : x[i] = t.mem[t.buf[h].d][i]
    BY <1>2, <1>3, <1>4, <1>5, <2>4, SizedDone
  <2>6. PICK b, p : b = r.buf[h].d /\ p = Put(r, b, m, cells)
    OBVIOUS
  <2>7. Owns(r, h) /\ r \in State /\ b \in Blocks
    <3>1. Owns(r, h) /\ r \in State
      BY <2>5 DEF Done, Holds, Owns
    <3> QED  BY <2>6, <3>1, StateParts
  <2>8. m + Len(cells) <= Len(r.mem[b]) /\ m + Len(cells) <= Len(x)
    <3>1. PICK cap, len \in Nat, one \in {0, 1} : cap = r.buf[h].cap /\ len = Len(r.mem[b]) /\ one = TermLen(h)
      BY <2>7, StateParts, TermLenIs
    <3>2. cap + one <= len /\ n <= cap
      BY <2>5, <2>6, <2>7, <3>1 DEF Owns, Done, Holds
    <3>3. m + Len(cells) = n
      BY <2>1, <2>3
    <3>4. n <= len
      <4>1. one \in Nat /\ n \in Nat /\ cap \in Nat /\ len \in Nat
        BY <1>2, <3>1
      <4>2. cap <= len
        BY <3>2, <4>1
      <4> QED  BY <3>2, <4>1, <4>2
    <3> QED  BY <1>2, <2>5, <3>1, <3>3, <3>4
  <2>9. Written(r, p, r.buf[h].d, m, cells)
    BY <2>3, <2>6, <2>7, <2>8, PutIs
  <2>10. PICK w : Done(p, h, w) /\ Overwritten(x, m, cells, w)
    BY <2>3, <2>5, <2>8, <2>9, OverwriteDone
  <2>11. \A i \in 1..m : w[i] = v[i]
    <3>1. \A i \in 1..m : i \in 1..n /\ i \in 1..Len(x) /\ i <= m /\ i \in 1..Len(v)
      BY <1>2, <2>1, <2>5
    <3>2. \A i \in 1..m : t.mem[t.buf[h].d][i] = v[i]
      BY <1>3, <3>1 DEF Done, Holds
    <3>3. \A i \in 1..m : w[i] = x[i]
      BY <2>10, <3>1 DEF Overwritten
    <3> QED  BY <2>5, <3>1, <3>2, <3>3
  <2>12. Spliced(v, m, cells, w)
    <3>1. \A j \in 1..(Len(v) - m) : FALSE
      BY <1>2
    <3> QED  BY <1>2, <2>1, <2>3, <2>5, <2>10, <2>11, <3>1 DEF Spliced, Overwritten
  <2>13. Becomes(p)
    <3>1. ~(n - buf[h].size <= 0) /\ n - buf[h].size = k
      BY <1>2, <1>7, <2>1
    <3> QED  BY <1>1, <1>2, <1>4, <2>2, <2>6, <3>1 DEF Resize
  <2>14. Effect(h, w)
    BY <2>10, <2>13, DoneEffect
  <2>15. n > buf[h].size /\ n - buf[h].size = k
    BY <1>2, <2>1
  <2> QED  BY <1>1, <1>2, <2>2, <2>12, <2>14, <2>15
<1> QED  BY <1>6, <1>7

\* The places of the elements that trimming keeps.
LEMMA KeptIs ==
  ASSUME Fine(now), NEW h \in Handles
  PROVE  /\ Kept(h) \subseteq 1..buf[h].size
         /\ \A j \in 1..buf[h].size : j \notin Kept(h) => Content(h)[j] \in Trimmed
         /\ \A j \in Kept(h) : Content(h)[j] \notin Trimmed
BY DEF Kept

\* rtrim()
LEMMA RTrimEffect ==
  ASSUME Fine(now), NEW h \in Handles, RTrim(h)
  PROVE  \E k \in 0..buf[h].size :
           /\ \A j \in (k + 1)..buf[h].size : Content(h)[j] \in Trimmed
           /\ k = 0 \/ Content(h)[k] \notin Trimmed
           /\ Effect(h, SubSeq(Content(h), 1, k))
<1>1. PICK t, v, k : t = EnsureUniqueness(now, h) /\ v = Content(h) /\ k = Max(Kept(h) \cup {0})
  OBVIOUS
<1>2. PICK m \in Nat : m = buf[h].size /\ v \in Seq(Cell) /\ Len(v) = m
  <2>1. buf[h].size \in Nat /\ v \in Seq(Cell) /\ Len(v) = buf[h].size
    BY <1>1, NowIs
  <2> QED  BY <2>1
<1>3. k \in Kept(h) \cup {0} /\ \A j \in Kept(h) : j <= k
  <2>1. PICK S : S = Kept(h) \cup {0}
    OBVIOUS
  <2>2. S \subseteq 0..m /\ S # {}
    BY <1>2, <2>1, KeptIs
  <2>3. Max(S) \in S /\ \A j \in S : j <= Max(S)
    BY <2>2, MaxIs
  <2> QED  BY <1>1, <2>1, <2>3
<1>4. k \in 0..m
  BY <1>2, <1>3, KeptIs
<1>5. \A j \in (k + 1)..m : v[j] \in Trimmed
  <2>1. \A j \in (k + 1)..m : j \in 1..m /\ j \notin Kept(h)
    BY <1>3, <1>4
  <2> QED  BY <1>1, <1>2, <2>1, KeptIs
<1>6. k = 0 \/ v[k] \notin Trimmed
  BY <1>1, <1>3, KeptIs
<1>7. PICK q : q = [t EXCEPT !.buf[h].size = k]
  OBVIOUS
<1>8. Done(t, h, v) /\ Sized(t, q, h, k) /\ k \in 0..Len(v)
  BY <1>1, <1>2, <1>4, <1>7, UniquenessDone DEF Sized
<1>9. Done(Terminate(q, h), h, SubSeq(v, 1, k))
  BY <1>8, ShrinkDone
<1>10. Becomes(Terminate(q, h))
  BY <1>1, <1>7 DEF RTrim
<1>11. Effect(h, SubSeq(v, 1, k))
  BY <1>9, <1>10, DoneEffect
<1> QED  BY <1>1, <1>2, <1>4, <1>5, <1>6, <1>11

\* ltrim()
LEMMA LTrimEffect ==
  ASSUME Fine(now), NEW h \in Handles, LTrim(h)
  PROVE  \E k \in 0..buf[h].size :
           /\ \A j \in 1..k : Content(h)[j] \in Trimmed
           /\ k = buf[h].size \/ Content(h)[k + 1] \notin Trimmed
           /\ Effect(h, SubSeq(Content(h), k + 1, buf[h].size))
<1>1. PICK s, v, k, zero : /\ s = now /\ v = Content(h) /\ zero = 0
                           /\ k = (IF Kept(h) = {} THEN buf[h].size ELSE Min(Kept(h)) - 1)
  OBVIOUS
<1>2. Base(s, h) /\ s \in State /\ s.buf = buf
  BY <1>1, NowIs
<1>3. PICK m \in Nat, old \in Nat :
        /\ m = buf[h].size /\ v \in Seq(Cell) /\ Len(v) = m /\ old = buf[h].cap /\ m <= old /\ m <= MaxSize
        /\ old <= Largest /\ \A j \in 1..m : v[j] = mem[buf[h].d][j]
  <2>1. /\ buf[h].size \in Nat /\ v \in Seq(Cell) /\ Len(v) = buf[h].size /\ buf[h].cap \in Nat
        /\ buf[h].size <= buf[h].cap /\ buf[h].size <= MaxSize /\ buf[h].cap <= Largest
        /\ \A j \in 1..buf[h].size : v[j] = mem[buf[h].d][j]
    BY <1>1, NowIs
  <2> QED  BY <2>1
<1>4. k \in 0..m /\ (\A j \in 1..k : v[j] \in Trimmed) /\ (k = m \/ v[k + 1] \notin Trimmed)
  <2>1. CASE Kept(h) = {}
    <3>1. k = m
      BY <1>1, <1>3, <2>1
    <3>2. \A j \in 1..m : v[j] \in Trimmed
      BY <1>1, <1>3, <2>1, KeptIs
    <3> QED  BY <3>1, <3>2
  <2>2. CASE Kept(h) # {}
    <3>1. PICK l : l = Min(Kept(h)) /\ l \in Kept(h) /\ \A j \in Kept(h) : l <= j
      <4>1. Kept(h) \in SUBSET Nat
        BY <1>3, KeptIs
      <4> QED  BY <2>2, <4>1, MinIs
    <3>2. l \in 1..m /\ k = l - 1
      BY <1>1, <1>3, <2>2, <3>1, KeptIs
    <3>3. k \in 0..m /\ k + 1 = l
      BY <3>2
    <3>4. \A j \in 1..k : j \in 1..m /\ j \notin Kept(h)
      BY <3>1, <3>2
    <3>5. \A j \in 1..k : v[j] \in Trimmed
      BY <1>1, <1>3, <3>4, KeptIs
    <3>6. v[k + 1] \notin Trimmed
      BY <1>1, <3>1, <3>3, KeptIs
    <3> QED  BY <3>3, <3>5, <3>6
  <2> QED  BY <2>1, <2>2
<1>5. PICK cap : cap = LargerCap(h, old) /\ cap \in Nat /\ cap <= Largest /\ old <= cap
  <2>1. old \in 0..Largest
    BY <1>3, LargestIs
  <2> QED  BY <2>1, LargerIs
<1>6. PICK size \in Nat : size = m - k /\ size <= cap /\ size <= MaxSize
  <2>1. m - k \in Nat /\ m - k <= m
    BY <1>4
  <2> QED  BY <1>3, <1>5, <2>1, BufferAssumption
<1>7. Moves(s, h, cap, k, zero, size)
  <2>1. k \in Nat /\ zero \in Nat /\ k <= m /\ size = m + zero - k
    BY <1>1, <1>4, <1>6
  <2> QED  BY <1>2, <1>3, <1>5, <1>6, <2>1 DEF Moves
<1>8. PICK w \in Seq(Cell) :
           /\ Done(Realloc(s, h, cap, k, zero), h, w) /\ Len(w) = size
           /\ \A i \in 1..(s.buf[h].size - k) : w[zero + i] = mem[s.buf[h].d][k + i]
  BY <1>2, <1>7, ReallocDone
<1>9. w = SubSeq(v, k + 1, m)
  <2>1. PICK i : i = k + 1 /\ i \in 1..(Len(v) + 1) /\ i <= m + 1 /\ m + 1 - i = size /\ m \in 0..Len(v)
                 /\ \A j \in 1..size : i + j - 1 = k + j /\ k + j \in 1..m /\ zero + j = j
    <3>1. k \in Nat /\ k <= m /\ size = m - k
      BY <1>4, <1>6
    <3>2. PICK i : i = k + 1
      OBVIOUS
    <3>3. i \in 1..(m + 1) /\ i <= m + 1 /\ m + 1 - i = size
      BY <3>1, <3>2
    <3>4. \A j \in 1..size : i + j - 1 = k + j /\ k + j \in 1..m /\ zero + j = j
      <4> SUFFICES ASSUME NEW j \in 1..size PROVE i + j - 1 = k + j /\ k + j \in 1..m /\ zero + j = j
        OBVIOUS
      <4>1. j \in Nat /\ j >= 1 /\ j <= m - k
        BY <3>1
      <4>2. i + j - 1 = k + j /\ zero + j = j
        BY <1>1, <3>1, <3>2, <4>1
      <4>3. k + j \in 1..m
        BY <3>1, <4>1
      <4> QED  BY <4>2, <4>3
    <3>5. PICK len \in Nat : len = Len(v)
      BY <1>3
    <3>6. m <= len
      BY <1>3, <3>5
    <3>7. i \in 1..(len + 1) /\ m \in 0..len
      BY <3>3, <3>6
    <3>8. i \in 1..(Len(v) + 1) /\ m \in 0..Len(v)
      BY <3>5, <3>7
    <3> QED  BY <3>2, <3>3, <3>4, <3>8
  <2>2. /\ SubSeq(v, i, m) \in Seq(Cell) /\ Len(SubSeq(v, i, m)) = m + 1 - i
        /\ \A j \in 1..(m + 1 - i) : SubSeq(v, i, m)[j] = v[i + j - 1]
    BY <1>3, <2>1, PartOf
  <2>3. \A j \in 1..size : w[j] = v[k + j]
    <3>1. \A j \in 1..size : w[zero + j] = mem[buf[h].d][k + j]
      BY <1>2, <1>3, <1>6, <1>8
    <3> QED  BY <1>3, <2>1, <3>1
  <2>4. \A j \in 1..size : w[j] = SubSeq(v, i, m)[j]
    BY <2>1, <2>2, <2>3
  <2>5. w = SubSeq(v, i, m)
    BY <1>8, <2>1, <2>2, <2>4, SeqEqual
  <2> QED  BY <2>1, <2>5
<1>10. Becomes(Realloc(s, h, cap, k, zero))
  BY <1>1, <1>3, <1>5 DEF LTrim
<1>11. Effect(h, w)
  BY <1>8, <1>10, DoneEffect
<1> QED  BY <1>1, <1>3, <1>4, <1>9, <1>11

\* The fields of a string made from an array.
LEMMA StringFieldsIs ==
  ASSUME Fine(now), NEW g \in Handles, buf[g].cap > 0
  PROVE  /\ StringCap(g) \in Nat /\ StringCap(g) + 1 = buf[g].cap
         /\ buf[g].d # Empty /\ buf[g].isnull = FALSE
         /\ \A o : o = [buf[g] EXCEPT !.cap = StringCap(g)] =>
              /\ o \in Object /\ o.d = buf[g].d /\ o.size = buf[g].size /\ o.cap = StringCap(g)
              /\ o.isnull = buf[g].isnull /\ o.dummy = buf[g].dummy
<1>1. PICK cap \in Nat : cap = buf[g].cap /\ cap <= Largest /\ cap > 0
  <2>1. buf[g].cap \in Nat /\ buf[g].cap <= Largest
    BY NowIs
  <2> QED  BY <2>1
<1>2. PICK k \in Nat : k = cap - 1 /\ k + 1 = cap
  <2>1. cap - 1 \in Nat /\ (cap - 1) + 1 = cap
    BY <1>1
  <2> QED  BY <2>1
<1>3. StringCap(g) = k
  <2>1. PICK wr \in Nat : wr = Wrap /\ cap < wr /\ k < wr
    BY <1>1, <1>2, LargestIs
  <2>2. (cap + wr - 1) % wr = k
    <3>1. cap + wr - 1 = k + wr
      BY <1>2
    <3>2. (k + wr) % wr = k
      BY <2>1
    <3> QED  BY <3>1, <3>2
  <2> QED  BY <1>1, <2>1, <2>2 DEF StringCap
<1>4. buf[g] \in Object
  <2>1. buf \in [Handles -> Object]
    BY NowIs
  <2> QED  BY <2>1
<1>5. buf[g].d # Empty /\ buf[g].isnull = FALSE
  <2>1. now.buf = buf /\ Sound(now, g)
    BY NowIs DEF Fine
  <2>2. buf[g].d = Empty => buf[g].cap = 0
    BY <2>1 DEF Sound
  <2>3. buf[g].isnull => buf[g].d = Empty
    BY <2>1 DEF Sound
  <2>4. buf[g].isnull \in BOOLEAN
    BY <1>4 DEF Object
  <2> QED  BY <1>1, <2>2, <2>3, <2>4
<1>6. ASSUME NEW o, o = [buf[g] EXCEPT !.cap = k]
      PROVE  /\ o \in Object /\ o.d = buf[g].d /\ o.size = buf[g].size /\ o.cap = k
             /\ o.isnull = buf[g].isnull /\ o.dummy = buf[g].dummy
  BY <1>4, <1>6 DEF Object
<1> QED  BY <1>1, <1>2, <1>3, <1>5, <1>6

\* The conversion of an array with room for a terminator: it is written to the
\* block both share, behind the data of all who share it.
LEMMA SharedTerminator ==
  ASSUME Fine(now), NEW h \in Strings, NEW g \in Bytes, buf[g].cap > 0, buf[g].size <= StringCap(g),
         NEW o, o = [buf[g] EXCEPT !.cap = StringCap(g)], NEW s, Gives(s, h, o)
  PROVE  /\ Fine(Terminate(s, h)) /\ Terminate(s, h).buf[h] = o /\ Value(Terminate(s, h), h) = Content(g)
         /\ \A f \in Handles : f # h => Terminate(s, h).buf[f] = buf[f] /\ Value(Terminate(s, h), f) = Content(f)
<1> h \in Handles /\ g \in Handles /\ g \notin Strings
  BY BufferAssumption DEF Handles
<1>1. /\ o \in Object /\ o.d = buf[g].d /\ o.size = buf[g].size /\ o.cap = StringCap(g)
      /\ o.isnull = FALSE /\ o.dummy = buf[g].dummy
      /\ buf[g].d # Empty /\ StringCap(g) \in Nat /\ StringCap(g) + 1 = buf[g].cap
  <2>1. o = [buf[g] EXCEPT !.cap = StringCap(g)]
    OBVIOUS
  <2> QED  BY <2>1, StringFieldsIs
<1>2. Given(s, h, o)
  BY <1>1, SetObject
<1>3. /\ now.buf = buf /\ now.mem = mem /\ Sound(now, g) /\ buf[g].size \in Nat /\ buf[g].cap \in Nat
      /\ buf[g].d \in Blocks /\ Len(mem[buf[g].d]) \in Nat /\ TermLen(h) = 1
  <2>1. TermLen(h) = 1
    BY TermLenIs
  <2> QED  BY <2>1, NowIs DEF Fine
<1>4. PICK b, m, cap, k, len : /\ b = buf[g].d /\ m = buf[g].size /\ cap = buf[g].cap /\ k = StringCap(g) /\ len = Len(mem[b])
                               /\ b \in Blocks /\ m \in Nat /\ cap \in Nat /\ k \in Nat /\ len \in Nat
                               /\ m <= k /\ k + 1 = cap /\ cap <= len /\ m <= MaxSize /\ cap <= Largest
  <2>1. buf[g].cap <= Len(mem[buf[g].d]) /\ buf[g].size <= MaxSize /\ buf[g].cap <= Largest
    <3>1. PICK zero : zero = TermLen(g) /\ zero = 0
      BY TermLenIs
    <3>2. buf[g].cap + zero <= Len(mem[buf[g].d])
      BY <1>3, <3>1 DEF Sound
    <3>3. buf[g].cap <= Len(mem[buf[g].d])
      BY <1>3, <3>1, <3>2
    <3> QED  BY <1>3, <3>3 DEF Sound
  <2> QED  BY <1>1, <1>3, <2>1
<1>5. m + 1 <= len /\ k <= Largest /\ m < cap
  BY <1>4, LargestIs, SMTT(30)
<1>6. b # Empty /\ b # Rom
  <2>1. buf[g].d = Rom => buf[g].cap = 1 /\ buf[g].size = 1
    BY <1>3 DEF Sound
  <2> QED  BY <1>1, <1>4, <1>5, <2>1
<1>7. PICK cells, t : cells = <<Term>> /\ t = Put(s, b, m, cells)
  OBVIOUS
<1>8. Terminate(s, h) = t
  <2>1. s.buf[h].d = b /\ s.buf[h].size = m
    BY <1>1, <1>2, <1>4 DEF Given
  <2> QED  BY <1>7, <2>1 DEF Terminate
<1>9. cells \in Seq(Cell) /\ Len(cells) = 1 /\ cells[1] = Term
  BY <1>7 DEF Cell
<1>10. Written(s, t, b, m, cells)
  <2>1. s \in State /\ m + Len(cells) <= Len(s.mem[b])
    BY <1>2, <1>4, <1>5, <1>9 DEF Given
  <2> QED  BY <1>4, <1>7, <1>9, <2>1, PutIs
<1>11. /\ t \in State /\ t.wild = FALSE /\ t.buf[h] = o /\ \A f \in Handles : f # h => t.buf[f] = buf[f]
       /\ \A c \in Blocks : c # b => t.mem[c] = mem[c]
       /\ Len(t.mem[b]) = len /\ \A i \in 1..m : t.mem[b][i] = mem[b][i]
       /\ t.mem[b][m + 1] = Term
  <2>1. \A i \in 1..m : i \in 1..len /\ i <= m
    BY <1>4, <1>5
  <2> QED  BY <1>2, <1>4, <1>9, <1>10, <2>1 DEF Given, Written
<1>12. ASSUME NEW f \in Handles, f # h PROVE Sound(t, f)
  <2>1. Sound(now, f) /\ t.buf[f] = buf[f] /\ buf[f].d \in Blocks
    BY <1>11, <1>12, NowIs DEF Fine
  <2>2. CASE buf[f].d # b
    <3>1. t.mem[buf[f].d] = mem[buf[f].d]
      BY <1>11, <2>1, <2>2
    <3> QED  BY <1>3, <2>1, <3>1 DEF Sound
  <2>3. CASE buf[f].d = b
    <3>1. buf[f].size = m
      BY <1>3, <1>4, <2>3 DEF Fine
    <3>2. Len(t.mem[buf[f].d]) = Len(mem[buf[f].d])
      BY <1>4, <1>11, <2>3
    <3>3. t.mem[buf[f].d][buf[f].size + 1] = Term
      BY <1>11, <2>3, <3>1
    <3> QED  BY <1>3, <2>1, <3>2, <3>3 DEF Sound
  <2> QED  BY <2>2, <2>3
<1>13. Sound(t, h)
  <2>1. t.buf[h].d = b /\ t.buf[h].size = m /\ t.buf[h].cap = k /\ t.buf[h].isnull = FALSE
    BY <1>1, <1>4, <1>11
  <2>2. t.buf[h].dummy <=> t.buf[h].d = Rom
    BY <1>1, <1>3, <1>11 DEF Sound
  <2>3. t.buf[h].cap + TermLen(h) <= Len(t.mem[t.buf[h].d])
    <3>1. k + TermLen(h) = cap
      BY <1>3, <1>4
    <3> QED  BY <1>4, <1>11, <2>1, <3>1
  <2> QED  BY <1>4, <1>5, <1>6, <1>11, <2>1, <2>2, <2>3 DEF Sound
<1>14. t.mem[Rom] = RomCells /\ t.mem[Empty] = <<Term>>
  <2>1. Rom \in Blocks /\ Empty \in Blocks
    BY DEF Blocks
  <2> QED  BY <1>3, <1>6, <1>11, <2>1 DEF Fine
<1>15. \A e, f \in Handles : t.buf[e].d = t.buf[f].d => t.buf[e].size = t.buf[f].size
  <2>1. \A e, f \in Handles : buf[e].d = buf[f].d => buf[e].size = buf[f].size
    BY <1>3 DEF Fine
  <2>2. t.buf[h].d = buf[g].d /\ t.buf[h].size = buf[g].size
    BY <1>1, <1>11
  <2> SUFFICES ASSUME NEW e \in Handles, NEW f \in Handles, t.buf[e].d = t.buf[f].d
               PROVE  t.buf[e].size = t.buf[f].size
    OBVIOUS
  <2>3. PICK x \in Handles : t.buf[e].d = buf[x].d /\ t.buf[e].size = buf[x].size
    <3>1. CASE e = h
      BY <2>2, <3>1
    <3>2. CASE e # h
      BY <1>11, <3>2
    <3> QED  BY <3>1, <3>2
  <2>4. PICK y \in Handles : t.buf[f].d = buf[y].d /\ t.buf[f].size = buf[y].size
    <3>1. CASE f = h
      BY <2>2, <3>1
    <3>2. CASE f # h
      BY <1>11, <3>2
    <3> QED  BY <3>1, <3>2
  <2> QED  BY <2>1, <2>3, <2>4
<1>16. Fine(t)
  BY <1>11, <1>12, <1>13, <1>14, <1>15 DEF Fine
<1>17. ASSUME NEW e \in Handles, NEW f \in Handles, t.buf[e].d = buf[f].d, t.buf[e].size = buf[f].size
       PROVE  Value(t, e) = Content(f)
  <2>1. /\ Value(t, e) \in Seq(Cell) /\ Len(Value(t, e)) = t.buf[e].size
        /\ \A i \in 1..t.buf[e].size : Value(t, e)[i] = t.mem[t.buf[e].d][i]
    BY <1>16, ValueIs
  <2>2. /\ Content(f) \in Seq(Cell) /\ Len(Content(f)) = buf[f].size /\ buf[f].d \in Blocks
        /\ \A i \in 1..buf[f].size : Content(f)[i] = mem[buf[f].d][i]
    BY NowIs
  <2>3. \A i \in 1..buf[f].size : t.mem[buf[f].d][i] = mem[buf[f].d][i]
    <3>1. CASE buf[f].d # b
      BY <1>11, <2>2, <3>1
    <3>2. CASE buf[f].d = b
      <4>1. buf[f].size = m
        BY <1>3, <1>4, <3>2 DEF Fine
      <4> QED  BY <1>11, <3>2, <4>1
    <3> QED  BY <3>1, <3>2
  <2>4. \A i \in 1..buf[f].size : Value(t, e)[i] = Content(f)[i]
    BY <1>17, <2>1, <2>2, <2>3
  <2> QED  BY <1>17, <2>1, <2>2, <2>4, SeqEqual
<1>18. Value(t, h) = Content(g)
  BY <1>1, <1>11, <1>17, ZenonT(30)
<1>19. \A f \in Handles : f # h => Value(t, f) = Content(f)
  BY <1>11, <1>17
<1> QED  BY <1>8, <1>11, <1>16, <1>18, <1>19

\* The conversion of an array without room for a terminator: a block of its own.
LEMMA OwnTerminator ==
  ASSUME Fine(now), NEW h \in Strings, NEW g \in Bytes, buf[g].cap > 0,
         NEW o, o = [buf[g] EXCEPT !.cap = StringCap(g)], NEW s, Gives(s, h, o), NEW zero, zero = 0
  PROVE  Done(Realloc(s, h, buf[g].size, zero, zero), h, Content(g))
<1> h \in Handles /\ g \in Handles
  BY DEF Handles
<1>1. o \in Object /\ o.d = buf[g].d /\ o.size = buf[g].size
  <2>1. o = [buf[g] EXCEPT !.cap = StringCap(g)]
    OBVIOUS
  <2> QED  BY <2>1, StringFieldsIs
<1>2. Given(s, h, o)
  BY <1>1, SetObject
<1>3. PICK m \in Nat : /\ m = buf[g].size /\ m <= MaxSize /\ m <= Largest /\ m <= Len(mem[buf[g].d])
                       /\ Content(g) \in Seq(Cell) /\ Len(Content(g)) = m /\ \A i \in 1..m : Content(g)[i] = mem[buf[g].d][i]
  <2>1. /\ buf[g].size \in Nat /\ buf[g].size <= MaxSize
        /\ Content(g) \in Seq(Cell) /\ Len(Content(g)) = buf[g].size
        /\ \A i \in 1..buf[g].size : Content(g)[i] = mem[buf[g].d][i]
    BY NowIs
  <2>2. buf[g].size <= Len(mem[buf[g].d])
    <3>1. Base(now, g) /\ now.buf = buf
      BY NowIs
    <3> QED  BY <3>1 DEF Base
  <2>3. buf[g].size <= Largest
    BY <2>1, LargestIs, BufferAssumption
  <2> QED  BY <2>1, <2>2, <2>3
<1>4. s.buf[h].d = buf[g].d /\ s.buf[h].size = m
  BY <1>1, <1>2, <1>3 DEF Given
<1>5. Base(s, h)
  BY <1>2, <1>3, <1>4 DEF Given, Base
<1>6. zero \in Nat /\ zero <= m /\ m = m + zero - zero /\ m - zero = m /\ \A i \in 1..m : zero + i = i
  BY <1>3
<1>7. Moves(s, h, m, zero, zero, m)
  BY <1>3, <1>4, <1>6 DEF Moves
<1>8. PICK v \in Seq(Cell) :
           /\ Done(Realloc(s, h, m, zero, zero), h, v) /\ Len(v) = m
           /\ \A i \in 1..(s.buf[h].size - zero) : v[zero + i] = mem[s.buf[h].d][zero + i]
  BY <1>5, <1>7, ReallocDone
<1>9. \A i \in 1..m : v[i] = Content(g)[i]
  BY <1>3, <1>4, <1>6, <1>8
<1>10. v = Content(g)
  BY <1>3, <1>8, <1>9, SeqEqual
<1> QED  BY <1>3, <1>8, <1>10

\* CString(const ByteArray&)
LEMMA ToCStringEffect ==
  ASSUME Fine(now), NEW h \in Strings, NEW g \in Bytes, EmptyToString = FALSE, ToCString(h, g)
  PROVE  Effect(h, Content(g)) /\ buf[g].isnull = FALSE
<1> h \in Handles /\ g \in Handles
  BY DEF Handles
<1>1. PICK o, s, zero : o = [buf[g] EXCEPT !.cap = StringCap(g)] /\ s = [now EXCEPT !.buf[h] = o] /\ zero = 0
  OBVIOUS
<1>2. buf[g].cap > 0
  BY DEF ToCString
<1>3. Gives(s, h, o)
  BY <1>1 DEF Gives
<1>4. Becomes(IF StringCap(g) < buf[g].size THEN Realloc(s, h, buf[g].size, zero, zero) ELSE Terminate(s, h))
  BY <1>1 DEF ToCString
<1>5. o.isnull = FALSE /\ buf[g].isnull = FALSE /\ StringCap(g) \in Nat
  BY <1>1, <1>2, StringFieldsIs
<1>6. CASE StringCap(g) < buf[g].size
  <2>1. Becomes(Realloc(s, h, buf[g].size, zero, zero))
    BY <1>4, <1>6
  <2>2. Done(Realloc(s, h, buf[g].size, zero, zero), h, Content(g))
    BY <1>1, <1>2, <1>3, OwnTerminator
  <2>3. Effect(h, Content(g))
    BY <2>1, <2>2, DoneEffect
  <2> QED  BY <1>5, <2>3
<1>7. CASE ~(StringCap(g) < buf[g].size)
  <2>1. PICK t : t = Terminate(s, h)
    OBVIOUS
  <2>2. buf[g].size <= StringCap(g)
    <3>1. buf[g].size \in Nat
      BY NowIs
    <3> QED  BY <1>5, <1>7, <3>1
  <2>3. Fine(t) /\ t.buf[h] = o /\ Value(t, h) = Content(g)
        /\ \A f \in Handles : f # h => t.buf[f] = buf[f] /\ Value(t, f) = Content(f)
    BY <1>1, <1>2, <1>3, <2>1, <2>2, SharedTerminator
  <2>4. Becomes(t)
    BY <1>4, <1>7, <2>1
  <2>5. Shares(h, t.buf[h], Value(t, h))
    BY <2>3, <2>4, ShareEffect
  <2>6. t.buf[h].isnull = FALSE
    BY <1>5, <2>3
  <2>7. Effect(h, Value(t, h))
    BY <2>5, <2>6, SharesEffect
  <2> QED  BY <1>5, <2>3, <2>7
<1> QED  BY <1>6, <1>7

(***************************************************************************)
(* What BufferValues sees: the values, and which objects are null.         *)
(***************************************************************************)
ViewVal  == [h \in Handles |-> Content(h)]
ViewNull == [h \in Handles |-> buf[h].isnull]

\* Only h changes: to the value v, and to `null' or not.
Sees(h, v, null) ==
  /\ ViewVal' = [ViewVal EXCEPT ![h] = v] /\ ViewVal'[h] = v
  /\ ViewNull' = [ViewNull EXCEPT ![h] = null] /\ ViewNull'[h] = null

\* A step of the values at one object only.
LEMMA OnlyOfIs ==
  ASSUME NEW h \in Handles, NEW v, NEW null,
         Content(h)' = v, buf'[h].isnull = null,
         \A g \in Handles : g # h => Content(g)' = Content(g) /\ buf'[g].isnull = buf[g].isnull
  PROVE  Sees(h, v, null)
<1>1. ViewVal' = [g \in Handles |-> Content(g)']
  BY DEF ViewVal
<1>2. ViewVal' = [ViewVal EXCEPT ![h] = v]
  <2>1. \A g \in Handles : ViewVal'[g] = [ViewVal EXCEPT ![h] = v][g]
    BY <1>1 DEF ViewVal
  <2>2. ViewVal' = [g \in Handles |-> ViewVal'[g]]
    BY <1>1
  <2>3. [ViewVal EXCEPT ![h] = v] = [g \in Handles |-> [ViewVal EXCEPT ![h] = v][g]]
    BY DEF ViewVal
  <2> QED  BY <2>1, <2>2, <2>3
<1>3. ViewNull' = [g \in Handles |-> buf'[g].isnull]
  BY DEF ViewNull
<1>4. ViewNull' = [ViewNull EXCEPT ![h] = null]
  <2>1. ASSUME NEW g \in Handles PROVE ViewNull'[g] = [ViewNull EXCEPT ![h] = null][g]
    <3>1. CASE g = h
      BY <1>3, <3>1 DEF ViewNull
    <3>2. CASE g # h
      BY <1>3, <3>2 DEF ViewNull
    <3> QED  BY <3>1, <3>2
  <2>2. ViewNull' = [g \in Handles |-> ViewNull'[g]]
    BY <1>3
  <2>3. [ViewNull EXCEPT ![h] = null] = [g \in Handles |-> [ViewNull EXCEPT ![h] = null][g]]
    BY DEF ViewNull
  <2> QED  BY <2>1, <2>2, <2>3
<1>5. ViewVal'[h] = v /\ ViewNull'[h] = null
  BY <1>1, <1>3
<1> QED  BY <1>2, <1>4, <1>5 DEF Sees

\* An effect on the model's objects is a change of the abstract values.
LEMMA EffectSeen ==
  ASSUME NEW h \in Handles, NEW v, Effect(h, v)
  PROVE  Sees(h, v, FALSE) /\ Fine(now)'
BY OnlyOfIs DEF Effect

LEMMA SharesSeen ==
  ASSUME NEW h \in Handles, NEW o, NEW v, Shares(h, o, v)
  PROVE  Sees(h, v, o.isnull) /\ Fine(now)'
BY OnlyOfIs DEF Shares

LEMMA ViewIs ==
  ASSUME NEW h \in Handles
  PROVE  ViewVal[h] = Content(h) /\ ViewNull[h] = buf[h].isnull
BY DEF ViewVal, ViewNull

LEMMA StepOnly ==
  ASSUME NEW h \in Handles, NEW v, NEW null, Sees(h, v, null)
  PROVE  /\ Values!OnlyOf(h)
         /\ null = FALSE => Values!Modified(h, v)
<1>1. ViewVal' = [ViewVal EXCEPT ![h] = ViewVal'[h]] /\ ViewNull' = [ViewNull EXCEPT ![h] = ViewNull'[h]]
  BY DEF Sees
<1>2. Values!OnlyOf(h)
  BY <1>1, Zenon DEF Values!OnlyOf, ViewVal, ViewNull
<1>3. ASSUME null = FALSE PROVE Values!Modified(h, v)
  <2>1. ViewNull'[h] = FALSE /\ ViewVal'[h] = v
    BY <1>3 DEF Sees
  <2> QED  BY <2>1, Zenon DEF Values!Modified, ViewVal, ViewNull
<1> QED  BY <1>2, <1>3

\* The abstract step of each kind of effect: a change that nobody sees,
LEMMA TouchStep ==
  ASSUME NEW h \in Handles, Sees(h, Content(h), FALSE)
  PROVE  Values!Next
<1>1. Values!OnlyOf(h) /\ ViewNull'[h] = FALSE /\ ViewVal'[h] = ViewVal[h]
  BY StepOnly, ViewIs DEF Sees
<1>2. Values!Touch(h)
  BY <1>1, Zenon DEF Values!Touch, Values!Modified, ViewVal, ViewNull
<1> QED  BY <1>1, <1>2 DEF Values!Next

\* a constructor,
LEMMA ConstructStep ==
  ASSUME NEW h \in Handles, buf[h] = Null, NEW v \in Sources, Sees(h, v, FALSE)
  PROVE  Values!Next
<1>1. Values!OnlyOf(h) /\ Values!Modified(h, v)
  BY StepOnly
<1>2. ViewNull[h] = TRUE
  BY ViewIs DEF Null
<1>3. Values!Construct(h)
  BY <1>1, <1>2, Zenon DEF Values!Construct, ViewNull
<1> QED  BY <1>1, <1>3 DEF Values!Next

\* clear(),
LEMMA ClearStep ==
  ASSUME NEW h \in Handles, Sees(h, <<>>, TRUE)
  PROVE  Values!Next
<1>1. Values!OnlyOf(h)
  BY StepOnly
<1>2. ViewNull'[h] = TRUE /\ ViewVal'[h] = <<>>
  BY DEF Sees
<1>3. Values!Clear(h)
  BY <1>2, Zenon DEF Values!Clear, ViewVal, ViewNull
<1> QED  BY <1>1, <1>3 DEF Values!Next

\* an assignment,
LEMMA AssignStep ==
  ASSUME NEW h \in Handles, NEW g \in Handles, Sees(h, Content(g), buf[g].isnull)
  PROVE  Values!Next
<1>1. Values!OnlyOf(h)
  BY StepOnly
<1>2. ViewNull'[h] = ViewNull[g] /\ ViewVal'[h] = ViewVal[g]
  BY ViewIs DEF Sees
<1>3. Values!Assign(h, g)
  BY <1>2, Zenon DEF Values!Assign, ViewVal, ViewNull
<1> QED  BY <1>1, <1>3 DEF Values!Next

\* An element, or the value of a buffer, is put in at i.
LEMMA InsertStep ==
  ASSUME Fine(now), NEW h \in Handles, NEW i \in 0..buf[h].size, NEW x \in Seq(Cell), NEW w,
         Sees(h, w, FALSE), Spliced(Content(h), i, x, w),
         (\E u \in Elem : x = <<u>>) \/ (\E g \in Handles : x = Content(g))
  PROVE  Values!Next
<1>1. PICK v : v = Content(h) /\ v \in Seq(Cell) /\ Len(v) = buf[h].size
  BY NowIs
<1>2. w = SubSeq(v, 1, i) \o x \o SubSeq(v, i + 1, Len(v))
  BY <1>1, SplicedIs
<1>3. Values!OnlyOf(h) /\ ViewNull'[h] = FALSE /\ ViewVal'[h] = w
  BY StepOnly DEF Sees
<1>4. ViewVal[h] = v /\ i \in 0..Len(ViewVal[h])
  BY <1>1, ViewIs
<1>5. ViewVal'[h] = SubSeq(ViewVal[h], 1, i) \o x \o SubSeq(ViewVal[h], i + 1, Len(ViewVal[h]))
  BY <1>2, <1>3, <1>4
<1>6. ASSUME \E u \in Elem : x = <<u>> PROVE Values!InsertAny(h)
  <2>1. PICK u \in Elem : x = <<u>>
    BY <1>6
  <2>2. ViewVal'[h] = SubSeq(ViewVal[h], 1, i) \o <<u>> \o SubSeq(ViewVal[h], i + 1, Len(ViewVal[h]))
    BY <1>5, <2>1
  <2>3. Values!Insert(h, i, <<u>>)
    BY <1>3, <2>2, Zenon DEF Values!Insert, Values!Modified, ViewVal, ViewNull
  <2> QED  BY <1>4, <2>3, Zenon DEF Values!InsertAny, ViewVal
<1>7. ASSUME \E g \in Handles : x = Content(g) PROVE Values!InsertAny(h)
  <2>1. PICK g \in Handles : x = ViewVal[g]
    BY <1>7, ViewIs
  <2>2. ViewVal'[h] = SubSeq(ViewVal[h], 1, i) \o ViewVal[g] \o SubSeq(ViewVal[h], i + 1, Len(ViewVal[h]))
    BY <1>5, <2>1
  <2>3. Values!Insert(h, i, ViewVal[g])
    BY <1>3, <2>2, Zenon DEF Values!Insert, Values!Modified, ViewVal, ViewNull
  <2> QED  BY <1>4, <2>3, Zenon DEF Values!InsertAny, ViewVal
<1>8. Values!InsertAny(h)
  BY <1>6, <1>7
<1> QED  BY <1>3, <1>8 DEF Values!Next

\* resize() to more elements, and the other extensions,
LEMMA ExtendStep ==
  ASSUME Fine(now), NEW h \in Handles, NEW u \in Elem, NEW n \in Nat, n >= 1, buf[h].size + n <= MaxSize, NEW w,
         Sees(h, w, FALSE), Spliced(Content(h), buf[h].size, [i \in 1..n |-> u], w)
  PROVE  Values!Next
<1>1. PICK v, m : v = Content(h) /\ v \in Seq(Cell) /\ Len(v) = m /\ m = buf[h].size /\ m \in Nat
  BY NowIs
<1>2. PICK x : x = [i \in 1..n |-> u]
  OBVIOUS
<1>3. x \in Seq(Cell) /\ Len(x) = n
  <2>1. x \in [1..n -> Cell]
    BY <1>2 DEF Cell
  <2> QED  BY <1>2, <2>1
<1>4. /\ w \in Seq(Cell) /\ Len(w) = m + n
      /\ (\A j \in 1..m : w[j] = v[j]) /\ \A j \in 1..n : w[m + j] = x[j]
  BY <1>1, <1>2, <1>3 DEF Spliced
<1>5. w = v \o x
  <2>1. PICK y : y = v \o x
    OBVIOUS
  <2>2. /\ y \in Seq(Cell) /\ Len(y) = m + n
        /\ (\A j \in 1..m : y[j] = v[j]) /\ \A j \in 1..n : y[m + j] = x[j]
    <3>1. /\ v \o x \in Seq(Cell) /\ Len(v \o x) = Len(v) + Len(x)
          /\ \A j \in 1..Len(v) : (v \o x)[j] = v[j]
          /\ \A j \in 1..Len(x) : (v \o x)[Len(v) + j] = x[j]
      BY <1>1, <1>3, Joined
    <3>2. /\ y \in Seq(Cell) /\ Len(y) = Len(v) + Len(x)
          /\ \A j \in 1..Len(v) : y[j] = v[j]
          /\ \A j \in 1..Len(x) : y[Len(v) + j] = x[j]
      BY <2>1, <3>1
    <3> QED  BY <1>1, <1>3, <3>2
  <2>3. ASSUME NEW j \in 1..(m + n) PROVE w[j] = y[j]
    <3>1. CASE j <= m
      <4>1. j \in 1..m
        BY <1>1, <3>1
      <4> QED  BY <1>4, <2>2, <4>1
    <3>2. CASE ~(j <= m)
      <4>1. PICK k \in 1..n : j = m + k
        <5>1. j - m \in 1..n /\ j = m + (j - m)
          BY <1>1, <3>2
        <5> QED  BY <5>1
      <4> QED  BY <1>4, <2>2, <4>1
    <3> QED  BY <3>1, <3>2
  <2>4. w = y
    BY <1>4, <2>2, <2>3, SeqEqual
  <2> QED  BY <2>1, <2>4
<1>6. Values!OnlyOf(h) /\ ViewNull'[h] = FALSE /\ ViewVal'[h] = w
  BY StepOnly DEF Sees
<1>7. ViewVal[h] = v
  BY <1>1, ViewIs
<1>8. n \in 1..(MaxSize - Len(ViewVal[h]))
  BY <1>1, <1>7, BufferAssumption
<1>9. ViewVal'[h] = ViewVal[h] \o [i \in 1..n |-> u]
  BY <1>2, <1>5, <1>6, <1>7
<1>10. Values!Extend(h)
  BY <1>6, <1>8, <1>9, Zenon DEF Values!Extend, Values!Modified, ViewVal, ViewNull
<1> QED  BY <1>6, <1>10 DEF Values!Next

\* resize() to fewer elements,
LEMMA TruncateStep ==
  ASSUME Fine(now), NEW h \in Handles, NEW n \in 0..buf[h].size, Sees(h, SubSeq(Content(h), 1, n), FALSE)
  PROVE  Values!Next
<1>1. Values!OnlyOf(h) /\ ViewNull'[h] = FALSE /\ ViewVal'[h] = SubSeq(ViewVal[h], 1, n) /\ n \in 0..Len(ViewVal[h])
  <2>1. ViewVal[h] = Content(h) /\ Len(ViewVal[h]) = buf[h].size
    BY ViewIs, NowIs
  <2>2. Values!OnlyOf(h) /\ ViewNull'[h] = FALSE /\ ViewVal'[h] = SubSeq(Content(h), 1, n)
    BY StepOnly DEF Sees
  <2> QED  BY <2>1, <2>2
<1>2. Values!Truncate(h)
  BY <1>1, Zenon DEF Values!Truncate, Values!Modified, ViewVal, ViewNull
<1> QED  BY <1>1, <1>2 DEF Values!Next

\* rtrim(),
LEMMA RTrimStep ==
  ASSUME Fine(now), NEW h \in Handles, NEW k \in 0..buf[h].size,
         \A j \in (k + 1)..buf[h].size : Content(h)[j] \in Trimmed,
         k = 0 \/ Content(h)[k] \notin Trimmed,
         Sees(h, SubSeq(Content(h), 1, k), FALSE)
  PROVE  Values!Next
<1>1. ViewVal[h] = Content(h) /\ Len(ViewVal[h]) = buf[h].size
  BY ViewIs, NowIs
<1>2. Values!OnlyOf(h) /\ ViewNull'[h] = FALSE /\ ViewVal'[h] = SubSeq(ViewVal[h], 1, k)
  <2>1. Values!OnlyOf(h) /\ ViewNull'[h] = FALSE /\ ViewVal'[h] = SubSeq(Content(h), 1, k)
    BY StepOnly DEF Sees
  <2> QED  BY <1>1, <2>1
<1>3. /\ k \in 0..Len(ViewVal[h])
      /\ \A j \in (k + 1)..Len(ViewVal[h]) : ViewVal[h][j] \in Trimmed
      /\ k = 0 \/ ViewVal[h][k] \notin Trimmed
  BY <1>1
<1>4. Values!RTrim(h)
  BY <1>2, <1>3, Zenon DEF Values!RTrim, Values!Modified, ViewVal, ViewNull
<1> QED  BY <1>2, <1>4 DEF Values!Next

\* ltrim(),
LEMMA LTrimStep ==
  ASSUME Fine(now), NEW h \in Handles, NEW k \in 0..buf[h].size,
         \A j \in 1..k : Content(h)[j] \in Trimmed,
         k = buf[h].size \/ Content(h)[k + 1] \notin Trimmed,
         Sees(h, SubSeq(Content(h), k + 1, buf[h].size), FALSE)
  PROVE  Values!Next
<1>1. ViewVal[h] = Content(h) /\ Len(ViewVal[h]) = buf[h].size
  BY ViewIs, NowIs
<1>2. Values!OnlyOf(h) /\ ViewNull'[h] = FALSE /\ ViewVal'[h] = SubSeq(ViewVal[h], k + 1, Len(ViewVal[h]))
  <2>1. Values!OnlyOf(h) /\ ViewNull'[h] = FALSE /\ ViewVal'[h] = SubSeq(Content(h), k + 1, buf[h].size)
    BY StepOnly DEF Sees
  <2> QED  BY <1>1, <2>1
<1>3. /\ k \in 0..Len(ViewVal[h])
      /\ \A j \in 1..k : ViewVal[h][j] \in Trimmed
      /\ k = Len(ViewVal[h]) \/ ViewVal[h][k + 1] \notin Trimmed
  BY <1>1
<1>4. Values!LTrim(h)
  BY <1>2, <1>3, Zenon DEF Values!LTrim, Values!Modified, ViewVal, ViewNull
<1> QED  BY <1>2, <1>4 DEF Values!Next

\* a write through operator[].
LEMMA StoreStep ==
  ASSUME NEW h \in Handles, NEW k, k \in DOMAIN Content(h), NEW u \in Elem,
         Sees(h, [Content(h) EXCEPT ![k] = u], FALSE)
  PROVE  Values!Next
<1>1. Values!OnlyOf(h) /\ ViewNull'[h] = FALSE /\ ViewVal'[h] = [ViewVal[h] EXCEPT ![k] = u] /\ k \in DOMAIN ViewVal[h]
  <2>1. ViewVal[h] = Content(h)
    BY ViewIs
  <2>2. Values!OnlyOf(h) /\ ViewNull'[h] = FALSE /\ ViewVal'[h] = [Content(h) EXCEPT ![k] = u]
    BY StepOnly DEF Sees
  <2> QED  BY <2>1, <2>2
<1>2. Values!Store(h)
  BY <1>1, Zenon DEF Values!Store, Values!Modified, ViewVal, ViewNull
<1> QED  BY <1>1, <1>2 DEF Values!Next

\* The calls that are not known to go wrong: no object is its own argument, no
\* string is inserted into, and no array without capacity becomes a string.
Legal == SelfArgument = {} /\ StringInsert = FALSE /\ EmptyToString = FALSE

\* The initial state: every object is null.
LEMMA InitFine == Init => Fine(now) /\ Values!Init
<1> SUFFICES ASSUME Init PROVE Fine(now) /\ Values!Init
  OBVIOUS
<1>1. PICK s : s = now
  OBVIOUS
<1>2. s = [mem |-> mem, buf |-> buf, wild |-> wild] /\ s.mem = mem /\ s.buf = buf /\ s.wild = FALSE
  BY <1>1 DEF now, Init
<1>3. PICK e, u : e = <<Term>> /\ u = RomCells
  OBVIOUS
<1>4. e \in Seq(Cell) /\ Len(e) = 1 /\ e[1] = Term /\ u \in Seq(Cell) /\ <<>> \in Seq(Cell)
  <2>1. \E w \in Elem : w \notin Trimmed
    BY BufferAssumption
  <2>2. (CHOOSE w \in Elem : w \notin Trimmed) \in Elem
    BY <2>1, Zenon
  <2>3. PICK x : x = (CHOOSE w \in Elem : w \notin Trimmed)
    OBVIOUS
  <2>4. x \in Cell /\ Term \in Cell /\ u = <<x, Term>>
    BY <1>3, <2>2, <2>3 DEF Cell, RomCells
  <2> QED  BY <1>3, <2>4
<1>5. mem = [b \in Blocks |-> CASE b = Empty -> e [] b = Rom -> u [] OTHER -> <<>>]
  BY <1>3 DEF Init, Blocks
<1>6. Empty \in Blocks /\ Rom \in Blocks /\ Empty # Rom
  BY BlocksIs DEF Blocks
<1>7. mem[Empty] = e /\ mem[Rom] = u /\ \A b \in Blocks : b # Empty /\ b # Rom => mem[b] = <<>>
  BY <1>5, <1>6
<1>8. mem \in [Blocks -> Seq(Cell)]
  <2>1. \A b \in Blocks : mem[b] \in Seq(Cell)
    BY <1>4, <1>7
  <2> QED  BY <1>5, <2>1
<1>9. /\ Null \in Object /\ Null.d = Empty /\ Null.size = 0 /\ Null.cap = 0 /\ Null.isnull = TRUE
      /\ Null.dummy = FALSE
  BY <1>6 DEF Null, Object
<1>10. buf \in [Handles -> Object] /\ \A h \in Handles : buf[h] = Null
  BY <1>9 DEF Init
<1>11. s \in State
  BY <1>2, <1>8, <1>10 DEF State
<1>12. ASSUME NEW h \in Handles PROVE Sound(s, h)
  <2>1. s.buf[h] = Null /\ s.mem[s.buf[h].d] = e
    BY <1>2, <1>7, <1>9, <1>10
  <2>2. s.buf[h].cap + TermLen(h) <= Len(s.mem[s.buf[h].d])
    <3>1. PICK one \in {0, 1} : one = TermLen(h)
      BY TermLenIs
    <3>2. s.buf[h].cap = 0 /\ Len(s.mem[s.buf[h].d]) = 1
      BY <1>4, <1>9, <2>1
    <3> QED  BY <3>1, <3>2
  <2>3. s.mem[s.buf[h].d][s.buf[h].size + 1] = Term
    BY <1>4, <1>9, <2>1
  <2> QED  BY <1>6, <1>9, <2>1, <2>2, <2>3, LargestIs, BufferAssumption DEF Sound
<1>13. Fine(s)
  <2>1. s.mem[Rom] = RomCells /\ s.mem[Empty] = <<Term>>
    BY <1>2, <1>3, <1>7
  <2>2. \A g, h \in Handles : s.buf[g].size = s.buf[h].size
    BY <1>2, <1>10
  <2> QED  BY <1>2, <1>11, <1>12, <2>1, <2>2 DEF Fine
<1>14. Fine(now)
  BY <1>1, <1>13
<1>15. ASSUME NEW h \in Handles PROVE Content(h) = <<>>
  <2>1. Content(h) \in Seq(Cell) /\ Len(Content(h)) = buf[h].size
    BY <1>14, NowIs
  <2> QED  BY <1>9, <1>10, <2>1
<1>16. ViewVal = [h \in Handles |-> <<>>]
  BY <1>15 DEF ViewVal
<1>17. ViewNull = [h \in Handles |-> TRUE]
  BY <1>9, <1>10 DEF ViewNull
<1>18. Values!Init
  BY <1>16, <1>17, Zenon DEF Values!Init, ViewVal, ViewNull
<1> QED  BY <1>14, <1>18

\* What a step keeps, and what it is to BufferValues.
Good == Fine(now)' /\ Values!Next

\* Construction.
LEMMA ConstructGood ==
  ASSUME Fine(now), NEW h \in Handles,
         Default(h) \/ FromData(h) \/ WithCapacity(h) \/ ReadAlias(h) \/ WriteAlias(h)
  PROVE  Good
<1>1. CASE Default(h)
  <2>1. PICK o, v : o = Null /\ v = <<>> /\ Shares(h, o, v)
    BY <1>1, DefaultEffect
  <2>2. Sees(h, v, o.isnull) /\ Fine(now)' /\ o.isnull = TRUE
    BY <2>1, SharesSeen DEF Null
  <2> QED  BY <2>1, <2>2, ClearStep DEF Good
<1>2. CASE FromData(h)
  <2>1. buf[h] = Null /\ \E src \in Sources : Effect(h, src)
    BY <1>2, FromDataEffect
  <2> QED  BY <2>1, EffectSeen, ConstructStep DEF Good
<1>3. CASE WithCapacity(h)
  <2>1. PICK v : v = <<>> /\ buf[h] = Null /\ Effect(h, v)
    BY <1>3, WithCapacityEffect
  <2>2. Content(h) = v
    <3>1. Content(h) \in Seq(Cell) /\ Len(Content(h)) = buf[h].size
      BY NowIs
    <3>2. buf[h].size = 0
      BY <2>1 DEF Null
    <3> QED  BY <2>1, <3>1, <3>2
  <2> QED  BY <2>1, <2>2, EffectSeen, TouchStep DEF Good
<1>4. ASSUME buf[h] = Null, \E u \in Elem : Effect(h, <<u>>) PROVE Good
  <2>1. PICK u \in Elem : Effect(h, <<u>>)
    BY <1>4
  <2>2. PICK x, zero : x = <<u>> /\ zero = 0
    OBVIOUS
  <2>3. x \in Seq(Cell) /\ Len(x) = 1
    BY <2>2 DEF Cell
  <2>4. zero \in 0..buf[h].size /\ Content(h) \in Seq(Cell) /\ Len(Content(h)) = 0
    <3>1. Content(h) \in Seq(Cell) /\ Len(Content(h)) = buf[h].size
      BY NowIs
    <3>2. buf[h].size = 0
      BY <1>4 DEF Null
    <3> QED  BY <2>2, <3>1, <3>2
  <2>5. Spliced(Content(h), zero, x, x)
    BY <2>2, <2>3, <2>4 DEF Spliced
  <2>6. Sees(h, x, FALSE) /\ Fine(now)'
    BY <2>1, <2>2, EffectSeen
  <2>7. \E w \in Elem : x = <<w>>
    BY <2>2
  <2>8. Values!Next
    BY <2>3, <2>4, <2>5, <2>6, <2>7, InsertStep
  <2> QED  BY <2>6, <2>8 DEF Good
<1>5. CASE ReadAlias(h)
  <2>1. buf[h] = Null
    BY <1>5 DEF ReadAlias
  <2> QED  BY <1>4, <1>5, <2>1, ReadAliasEffect
<1>6. CASE WriteAlias(h)
  <2>1. buf[h] = Null
    BY <1>6 DEF WriteAlias
  <2> QED  BY <1>4, <1>6, <2>1, WriteAliasEffect
<1> QED  BY <1>1, <1>2, <1>3, <1>5, <1>6

\* A value is put in at a place: append(), prepend() and insert().
LEMMA SpliceGood ==
  ASSUME Fine(now), NEW h \in Handles, NEW i \in 0..buf[h].size, NEW x \in Seq(Cell),
         (\E u \in Elem : x = <<u>>) \/ (\E g \in Handles : x = Content(g)),
         \E w : Effect(h, w) /\ Spliced(Content(h), i, x, w)
  PROVE  Good
<1>1. PICK w : Effect(h, w) /\ Spliced(Content(h), i, x, w)
  OBVIOUS
<1>2. Sees(h, w, FALSE) /\ Fine(now)'
  BY <1>1, EffectSeen
<1>3. Values!Next
  BY <1>1, <1>2, InsertStep
<1> QED  BY <1>2, <1>3 DEF Good

\* Operations on one element.
LEMMA ElementGood ==
  ASSUME Fine(now), Legal, NEW h \in Handles, NEW u \in Elem,
         AppendUnit(h, u) \/ PrependUnit(h, u) \/ \E i \in 0..buf[h].size : InsertUnit(h, i, u)
  PROVE  Good
<1>1. PICK x, zero : x = <<u>> /\ x \in Seq(Cell) /\ (\E y \in Elem : x = <<y>>) /\ zero = 0
  <2>1. PICK x, zero : x = <<u>> /\ zero = 0
    OBVIOUS
  <2>2. x \in Seq(Cell)
    BY <2>1 DEF Cell
  <2>3. \E y \in Elem : x = <<y>>
    BY <2>1
  <2> QED  BY <2>1, <2>2, <2>3
<1>2. zero \in 0..buf[h].size /\ buf[h].size \in 0..buf[h].size
  <2>1. buf[h].size \in Nat
    BY NowIs
  <2> QED  BY <1>1, <2>1
<1>3. CASE AppendUnit(h, u)
  BY <1>1, <1>2, <1>3, AppendUnitEffect, SpliceGood
<1>4. CASE PrependUnit(h, u)
  BY <1>1, <1>2, <1>4, PrependUnitEffect, SpliceGood
<1>5. ASSUME NEW i \in 0..buf[h].size, InsertUnit(h, i, u) PROVE Good
  BY <1>1, <1>5, InsertUnitEffect, SpliceGood DEF Legal
<1> QED  BY <1>3, <1>4, <1>5

\* Operations with another object as their argument.
LEMMA BufferGood ==
  ASSUME Fine(now), Legal, NEW h \in Handles, NEW g \in Handles, h \in Strings <=> g \in Strings,
         AppendBuffer(h, g) \/ PrependBuffer(h, g) \/ \E i \in 0..buf[h].size : InsertBuffer(h, i, g)
  PROVE  Good
<1>1. PICK x, zero : x = Content(g) /\ x \in Seq(Cell) /\ (\E f \in Handles : x = Content(f)) /\ zero = 0
  <2>1. PICK x, zero : x = Content(g) /\ zero = 0
    OBVIOUS
  <2>2. x \in Seq(Cell)
    BY <2>1, NowIs
  <2>3. \E f \in Handles : x = Content(f)
    BY <2>1
  <2> QED  BY <2>1, <2>2, <2>3
<1>2. zero \in 0..buf[h].size /\ buf[h].size \in 0..buf[h].size
  <2>1. buf[h].size \in Nat
    BY NowIs
  <2> QED  BY <1>1, <2>1
<1>3. CASE AppendBuffer(h, g)
  <2>1. \E w : Effect(h, w) /\ Spliced(Content(h), buf[h].size, x, w)
    BY <1>1, <1>3, AppendBufferEffect DEF Legal
  <2> QED  BY <1>1, <1>2, <2>1, SpliceGood
<1>4. CASE PrependBuffer(h, g)
  <2>1. \E w : Effect(h, w) /\ Spliced(Content(h), zero, x, w)
    BY <1>1, <1>4, PrependBufferEffect DEF Legal
  <2> QED  BY <1>1, <1>2, <2>1, SpliceGood
<1>5. ASSUME NEW i \in 0..buf[h].size, InsertBuffer(h, i, g) PROVE Good
  <2>1. \E w : Effect(h, w) /\ Spliced(Content(h), i, x, w)
    BY <1>1, <1>5, InsertBufferEffect DEF Legal
  <2> QED  BY <1>1, <2>1, SpliceGood
<1> QED  BY <1>3, <1>4, <1>5

\* The others of all objects.
LEMMA SizesGood ==
  ASSUME Fine(now), NEW h \in Handles,
         \/ Squeeze(h)
         \/ \E n \in Capacities: Reserve(h, n)
         \/ \E n \in 0..MaxSize, u \in Elem: Resize(h, n, u)
         \/ \E i \in 0..(buf[h].size - 1), u \in Elem: Store(h, i, u)
  PROVE  Good \/ UNCHANGED vars
<1>1. ASSUME Effect(h, Content(h)) PROVE Good
  <2>1. PICK v : v = Content(h)
    OBVIOUS
  <2>2. Sees(h, v, FALSE) /\ Fine(now)'
    BY <1>1, <2>1, EffectSeen
  <2> QED  BY <2>1, <2>2, TouchStep DEF Good
<1>2. CASE Squeeze(h)
  BY <1>1, <1>2, SqueezeEffect
<1>3. ASSUME NEW n \in Capacities, Reserve(h, n) PROVE Good \/ UNCHANGED vars
  BY <1>1, <1>3, ReserveEffect
<1>4. ASSUME NEW n \in 0..MaxSize, NEW u \in Elem, Resize(h, n, u) PROVE Good
  <2>1. buf[h].size \in Nat /\ n \in Nat /\ n <= MaxSize
    <3>1. buf[h].size \in Nat
      BY NowIs
    <3> QED  BY <3>1, BufferAssumption
  <2>2. CASE n <= buf[h].size /\ Effect(h, SubSeq(Content(h), 1, n))
    <3>1. PICK v : v = SubSeq(Content(h), 1, n)
      OBVIOUS
    <3>2. Sees(h, v, FALSE) /\ Fine(now)'
      BY <2>2, <3>1, EffectSeen
    <3>3. n \in 0..buf[h].size
      BY <2>1, <2>2
    <3>4. Values!Next
      BY <3>1, <3>2, <3>3, TruncateStep
    <3> QED  BY <3>2, <3>4 DEF Good
  <2>3. ASSUME n > buf[h].size,
               \E w : Effect(h, w) /\ Spliced(Content(h), buf[h].size, [i \in 1..(n - buf[h].size) |-> u], w)
        PROVE  Good
    <3>1. PICK k : k = n - buf[h].size /\ k \in Nat /\ k >= 1 /\ buf[h].size + k <= MaxSize
      <4>1. PICK m \in Nat : m = buf[h].size /\ n > m
        BY <2>1, <2>3
      <4>2. n - m \in Nat /\ n - m >= 1 /\ m + (n - m) <= MaxSize
        BY <2>1, <4>1, BufferAssumption
      <4> QED  BY <4>1, <4>2
    <3>2. PICK w : Effect(h, w) /\ Spliced(Content(h), buf[h].size, [i \in 1..k |-> u], w)
      BY <2>3, <3>1
    <3>3. Sees(h, w, FALSE) /\ Fine(now)'
      BY <3>2, EffectSeen
    <3>4. Values!Next
      BY <3>1, <3>2, <3>3, ExtendStep
    <3> QED  BY <3>3, <3>4 DEF Good
  <2> QED  BY <1>4, <2>2, <2>3, ResizeEffect
<1>5. ASSUME NEW i \in 0..(buf[h].size - 1), NEW u \in Elem, Store(h, i, u) PROVE Good
  <2>1. PICK k, v : k = i + 1 /\ v = [Content(h) EXCEPT ![k] = u] /\ k \in DOMAIN Content(h) /\ Effect(h, v)
    BY <1>5, StoreEffect
  <2>2. Sees(h, v, FALSE) /\ Fine(now)'
    BY <2>1, EffectSeen
  <2>3. Values!Next
    BY <2>1, <2>2, StoreStep
  <2> QED  BY <2>2, <2>3 DEF Good
<1> QED  BY <1>2, <1>3, <1>4, <1>5

\* Assignments.
LEMMA AssignGood ==
  ASSUME Fine(now), NEW h \in Handles, NEW g \in Handles, g # h, h \in Strings => g \in Strings, Assign(h, g)
  PROVE  Good
<1>1. PICK o, v : o = buf[g] /\ v = Content(g) /\ Shares(h, o, v)
  BY AssignEffect
<1>2. Sees(h, v, o.isnull) /\ Fine(now)'
  BY <1>1, SharesSeen
<1>3. Values!Next
  BY <1>1, <1>2, AssignStep
<1> QED  BY <1>2, <1>3 DEF Good

\* ltrim(), rtrim() and the conversions.
LEMMA StringGood ==
  ASSUME Fine(now), Legal, NEW h \in Strings,
         LTrim(h) \/ RTrim(h) \/ \E g \in Bytes: ToCString(h, g) \/ ToByteArray(g, h)
  PROVE  Good
<1> h \in Handles
  BY DEF Handles
<1>1. CASE LTrim(h)
  <2>1. PICK k \in 0..buf[h].size :
           /\ \A j \in 1..k : Content(h)[j] \in Trimmed
           /\ k = buf[h].size \/ Content(h)[k + 1] \notin Trimmed
           /\ Effect(h, SubSeq(Content(h), k + 1, buf[h].size))
    BY <1>1, LTrimEffect
  <2>2. PICK v : v = SubSeq(Content(h), k + 1, buf[h].size)
    OBVIOUS
  <2>3. Sees(h, v, FALSE) /\ Fine(now)'
    BY <2>1, <2>2, EffectSeen
  <2>4. Values!Next
    BY <2>1, <2>2, <2>3, LTrimStep
  <2> QED  BY <2>3, <2>4 DEF Good
<1>2. CASE RTrim(h)
  <2>1. PICK k \in 0..buf[h].size :
           /\ \A j \in (k + 1)..buf[h].size : Content(h)[j] \in Trimmed
           /\ k = 0 \/ Content(h)[k] \notin Trimmed
           /\ Effect(h, SubSeq(Content(h), 1, k))
    BY <1>2, RTrimEffect
  <2>2. PICK v : v = SubSeq(Content(h), 1, k)
    OBVIOUS
  <2>3. Sees(h, v, FALSE) /\ Fine(now)'
    BY <2>1, <2>2, EffectSeen
  <2>4. Values!Next
    BY <2>1, <2>2, <2>3, RTrimStep
  <2> QED  BY <2>3, <2>4 DEF Good
<1>3. ASSUME NEW g \in Bytes, ToCString(h, g) PROVE Good
  <2>1. g \in Handles
    BY DEF Handles
  <2>2. PICK v : v = Content(g) /\ Effect(h, v) /\ buf[g].isnull = FALSE
    BY <1>3, ToCStringEffect DEF Legal
  <2>3. Sees(h, v, buf[g].isnull) /\ Fine(now)'
    BY <2>2, EffectSeen
  <2>4. Values!Next
    BY <2>1, <2>2, <2>3, AssignStep
  <2> QED  BY <2>3, <2>4 DEF Good
<1>4. ASSUME NEW g \in Bytes, ToByteArray(g, h) PROVE Good
  <2>1. g \in Handles /\ g # h /\ g \notin Strings
    BY BufferAssumption DEF Handles
  <2>2. Assign(g, h)
    BY <1>4 DEF ToByteArray
  <2> QED  BY <2>1, <2>2, AssignGood
<1> QED  BY <1>1, <1>2, <1>3, <1>4

\* Every step keeps the invariant and is a step of the values.
LEMMA StepGood ==
  ASSUME Fine(now), Legal, [Next]_vars
  PROVE  Fine(now)' /\ (Values!Next \/ UNCHANGED vars)
<1>1. ASSUME UNCHANGED vars PROVE Fine(now)'
  <2>1. now' = now
    BY <1>1 DEF vars, now
  <2> QED  BY <2>1
<1>2. ASSUME NEW h \in Handles,
        \/ Default(h) \/ FromData(h) \/ WithCapacity(h) \/ ReadAlias(h) \/ WriteAlias(h)
        \/ Squeeze(h)
        \/ \E n \in Capacities: Reserve(h, n)
        \/ \E n \in 0..MaxSize, u \in Elem: Resize(h, n, u)
        \/ \E u \in Elem: AppendUnit(h, u) \/ PrependUnit(h, u)
        \/ \E i \in 0..buf[h].size, u \in Elem: InsertUnit(h, i, u)
        \/ \E i \in 0..(buf[h].size - 1), u \in Elem: Store(h, i, u)
      PROVE Good \/ UNCHANGED vars
  BY <1>2, ConstructGood, ElementGood, SizesGood
<1>3. ASSUME NEW h \in Strings, LTrim(h) \/ RTrim(h) \/ \E g \in Bytes: ToCString(h, g) \/ ToByteArray(g, h)
      PROVE Good
  BY <1>3, StringGood
<1>4. ASSUME NEW T \in {Strings, Bytes}, NEW h \in T, NEW g \in T,
        \/ AppendBuffer(h, g) \/ PrependBuffer(h, g)
        \/ \E i \in 0..buf[h].size: InsertBuffer(h, i, g)
        \/ h # g /\ Assign(h, g)
      PROVE Good
  <2>1. h \in Handles /\ g \in Handles /\ (h \in Strings <=> g \in Strings)
    BY BufferAssumption DEF Handles
  <2> QED  BY <1>4, <2>1, BufferGood, AssignGood
<1>5. Good \/ UNCHANGED vars
  BY <1>2, <1>3, <1>4 DEF Next
<1> QED  BY <1>1, <1>5 DEF Good

\* The inductive invariant.
Inv == Fine(now)

\* The invariant holds in every reachable state.
THEOREM Invariance ==
  ASSUME Legal
  PROVE  Spec => []Inv
<1>1. Init => Inv
  BY InitFine DEF Inv
<1>2. Inv /\ [Next]_vars => Inv'
  BY StepGood DEF Inv
<1> QED  BY <1>1, <1>2, PTL DEF Spec

\* The fields and the memory have their types, and only an object that aliases
\* read-only memory has the second reference of readAliasDummy.
THEOREM TypeCorrect ==
  ASSUME Legal
  PROVE  Spec => []TypeOK
<1>1. ASSUME Inv PROVE TypeOK
  <2>1. now \in State /\ now.mem = mem /\ now.buf = buf /\ now.wild = wild /\ Fine(now)
    BY <1>1 DEF Inv, Fine, now
  <2>2. mem \in [Blocks -> Seq(Cell)] /\ buf \in [Handles -> Object] /\ wild \in BOOLEAN
    BY <2>1, StateParts
  <2>3. ASSUME NEW h \in Handles
        PROVE  /\ buf[h].d \in DOMAIN mem
               /\ buf[h].size \in 0..MaxSize /\ buf[h].cap \in 0..(Wrap - 1)
               /\ buf[h].isnull \in BOOLEAN /\ (buf[h].dummy <=> buf[h].d = Rom)
    <3>1. /\ buf[h].d \in Blocks /\ buf[h].size \in Nat /\ buf[h].cap \in Nat
          /\ buf[h].size <= MaxSize /\ buf[h].cap <= Largest
      BY <2>1, NowIs
    <3>2. buf[h].size \in 0..MaxSize /\ buf[h].cap \in 0..(Wrap - 1)
      BY <3>1, LargestIs, BufferAssumption
    <3>3. buf[h].isnull \in BOOLEAN
      BY <2>2 DEF Object
    <3>4. buf[h].dummy <=> buf[h].d = Rom
      BY <2>1 DEF Fine, Sound
    <3> QED  BY <2>2, <3>1, <3>2, <3>3, <3>4
  <2> QED  BY <2>2, <2>3 DEF TypeOK, Blocks
<1> QED  BY <1>1, Invariance, PTL

\* After every operation of CString and ByteArray the block is as long as the
\* object's capacity, and one longer for the terminator of a string, although
\* byte arrays allocate blocks that strings then share.
THEOREM BlocksSuffice ==
  ASSUME Legal
  PROVE  Spec => []Allocated
<1>1. ASSUME Inv PROVE Allocated
  <2>1. Fine(now)
    BY <1>1 DEF Inv
  <2> QED  BY <2>1, NowIs DEF Allocated
<1> QED  BY <1>1, Invariance, PTL

\* memcpy(), memmove(), fill and terminate() of every operation stay in the block,
\* whatever capacity ensureFreeCapacity(), reserve() and squeeze() have left.
THEOREM NeverOutOfBounds ==
  ASSUME Legal
  PROVE  Spec => []InBounds
<1>1. ASSUME Inv PROVE InBounds
  BY <1>1 DEF Inv, Fine, InBounds, now
<1> QED  BY <1>1, Invariance, PTL

\* The data of every string are followed by the terminator, although arrays
\* that do not know of it share the block and write to it.
THEOREM StringsTerminated ==
  ASSUME Legal
  PROVE  Spec => []Terminated
<1>1. ASSUME Inv, NEW h \in Strings PROVE Cells(now, buf[h].d, buf[h].size, 1) = <<Term>>
  <2> h \in Handles
    BY DEF Handles
  <2>1. Fine(now) /\ now \in State /\ Sound(now, h) /\ now.buf = buf /\ now.mem = mem
    BY <1>1 DEF Inv, Fine, now
  <2>2. PICK m, len, one \in Nat : /\ m = buf[h].size /\ len = Len(mem[buf[h].d]) /\ one = 1 /\ m + one <= len
    <3>1. buf[h].size \in Nat /\ Len(mem[buf[h].d]) \in Nat /\ buf[h].size + TermLen(h) <= Len(mem[buf[h].d])
      BY <2>1, FitsBlock
    <3>2. TermLen(h) = 1
      BY TermLenIs
    <3> QED  BY <3>1, <3>2
  <2>3. buf[h].d \in Blocks
    BY <2>1, NowIs
  <2>4. PICK s \in State : s = now
    BY <2>1
  <2>5. PICK b \in Blocks : b = buf[h].d
    BY <2>3
  <2>6. PICK x : x = Cells(s, b, m, one)
    OBVIOUS
  <2>7. /\ x \in Seq(Cell) /\ Len(x) = one
        /\ \A i \in 1..one : m + i <= Len(s.mem[b]) => x[i] = s.mem[b][m + i]
    BY <2>6, CellsIs
  <2>8. x[1] = Term
    <3>1. mem[buf[h].d][m + 1] = Term
      BY <2>1, <2>2 DEF Sound
    <3>2. s.mem[b][m + one] = Term /\ m + one <= Len(s.mem[b])
      BY <2>1, <2>2, <2>4, <2>5, <3>1
    <3> QED  BY <2>2, <2>7, <3>2
  <2>9. x = <<Term>>
    <3>1. Len(x) = 1
      BY <2>2, <2>7
    <3> QED  BY <2>7, <2>8, <3>1
  <2> QED  BY <2>2, <2>4, <2>5, <2>6, <2>9
<1>2. ASSUME Inv PROVE Terminated
  BY <1>1, <1>2 DEF Terminated
<1> QED  BY <1>2, Invariance, PTL

\* Memory that is only lent for reading, and the array of all null buffers,
\* keep their contents.
THEOREM StaticsKept ==
  ASSUME Legal
  PROVE  Spec => []ReadOnly
<1>1. ASSUME Inv PROVE ReadOnly
  BY <1>1 DEF Inv, Fine, ReadOnly, now
<1> QED  BY <1>1, Invariance, PTL

\* Every step maps to a step of the values or a stutter.
LEMMA ValuesStep ==
  ASSUME Legal, Inv, [Next]_vars
  PROVE  [Values!Next]_<<[h \in Handles |-> Content(h)], [h \in Handles |-> buf[h].isnull]>>
<1>1. Values!Next \/ UNCHANGED vars
  BY StepGood DEF Inv
<1>2. ASSUME UNCHANGED vars PROVE ViewVal' = ViewVal /\ ViewNull' = ViewNull
  <2>1. now' = now /\ buf' = buf
    BY <1>2 DEF vars, now
  <2>2. \A h \in Handles : Content(h)' = Content(h)
    BY <2>1 DEF Content
  <2> QED  BY <2>1, <2>2 DEF ViewVal, ViewNull
<1>3. ASSUME UNCHANGED vars PROVE UNCHANGED <<[h \in Handles |-> Content(h)], [h \in Handles |-> buf[h].isnull]>>
  BY <1>2, <1>3, Zenon DEF ViewVal, ViewNull
<1> QED  BY <1>1, <1>3

\* Copy-on-write by use_count() is invisible: an operation on one object changes
\* no other, and gives it what the same operation would give an unshared value.
THEOREM ValuesImplemented ==
  ASSUME Legal
  PROVE  Spec => ValueSemantics
<1>1. Init => Values!Init
  BY InitFine
<1>2. Inv /\ [Next]_vars => [Values!Next]_<<[h \in Handles |-> Content(h)], [h \in Handles |-> buf[h].isnull]>>
  BY ValuesStep
<1> QED  BY <1>1, <1>2, Invariance, PTL DEF Spec, ValueSemantics, Values!Spec
=============================================================================
