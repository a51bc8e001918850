-------------------------- MODULE RingBufferProofs --------------------------
(***************************************************************************)
(* Theorems about RingBuffer, for any capacities, lengths and elements.    *)
(***************************************************************************)
EXTENDS RingBuffer, TLAPS

\* The place i elements behind the oldest element.
At(i) == (Oldest + i) % capacity

\* A call never does more than the thread that made it may.
WriterOK ==
    /\ wr.at = "idle" => wr = WrIdle
    /\ wr.done <= wr.len
    /\ count + wLag + wr.len <= capacity
    /\ wr.at = "copy" /\ wr.data = <<>> => wr.done = wr.len
    /\ wr.at = "copy" /\ wr.data # <<>> =>
         wr.len <= Len(wr.data) /\ wr.len1 = Least(wr.len, UpToEnd(writeOffs))
    /\ wr.at = "moved" => wr.done = wr.len /\ capacity > 0
                          /\ (wr.data # <<>> => wr.len <= Len(wr.data))

ReaderOK ==
    /\ rd.at = "idle" => rd = RdIdle(rd.data)
    /\ rLag + rd.len <= count
    /\ rd.at # "idle" => /\ Len(rd.data) <= rd.len
                         /\ rd.fn # "none"
                         /\ rd.fn = "advanceRead" => rd.data = <<>>
    /\ rd.at = "copy" => rd.len1 = Least(rd.len, UpToEnd(readOffs))
    /\ rd.at = "moved" => rd.fn # "peek" /\ capacity > 0 /\ Copied

Offsets == capacity > 0 => FirstFree = At(count)

\* The writer's elements are behind the others, those of the reader are the oldest.
Contents ==
    /\ wr.at # "idle" /\ wr.data # <<>> =>
         \A i \in 0..(wr.done - 1) : buf[At(count + i)] = wr.data[i + 1]
    /\ rd.at # "idle" => \A i \in 1..Len(rd.data) : rd.data[i] = buf[At(i - 1)]

Types == TypeOK /\ readOffs \in Nat /\ writeOffs \in Nat

Inv == Types /\ WriterOK /\ ReaderOK /\ Offsets /\ Contents

-----------------------------------------------------------------------------
(* Places in a circle.                                                     *)

LEMMA ModPlus ==
  ASSUME NEW c \in Nat, c > 0, NEW a \in 0..(c - 1), NEW n \in 0..c
  PROVE  (a + n) % c = IF a + n < c THEN a + n ELSE a + n - c
  BY SMT

LEMMA ModMinus ==
  ASSUME NEW c \in Nat, c > 0, NEW a \in 0..(c - 1), NEW n \in 0..c
  PROVE  (a - n) % c = IF n <= a THEN a - n ELSE a - n + c
  BY SMT

\* Two steps around are one.
LEMMA ModAdd ==
  ASSUME NEW c \in Nat, c > 0, NEW a \in 0..(c - 1), NEW m \in 0..c, NEW n \in 0..(c - m)
  PROVE  /\ (a + m) % c \in 0..(c - 1)
         /\ (((a + m) % c) + n) % c = (a + (m + n)) % c
<1>1. (a + m) % c = IF a + m < c THEN a + m ELSE a + m - c
  BY ModPlus
<1>2. (a + m) % c \in 0..(c - 1)
  BY <1>1
<1>3. (((a + m) % c) + n) % c = IF ((a + m) % c) + n < c THEN ((a + m) % c) + n ELSE ((a + m) % c) + n - c
  BY <1>2, ModPlus
<1>4. (a + (m + n)) % c = IF a + (m + n) < c THEN a + (m + n) ELSE a + (m + n) - c
  BY ModPlus
<1> QED  BY <1>1, <1>2, <1>3, <1>4

\* Forward and back.
LEMMA ModBack ==
  ASSUME NEW c \in Nat, c > 0, NEW a \in 0..(c - 1), NEW n \in 0..c
  PROVE  (((a + n) % c) - n) % c = a
<1>1. (a + n) % c = IF a + n < c THEN a + n ELSE a + n - c
  BY ModPlus
<1>2. (a + n) % c \in 0..(c - 1)
  BY <1>1
<1>3. (((a + n) % c) - n) % c = IF n <= (a + n) % c THEN ((a + n) % c) - n ELSE ((a + n) % c) - n + c
  BY <1>2, ModMinus
<1> QED  BY <1>1, <1>2, <1>3

\* Back and forward.
LEMMA ModForth ==
  ASSUME NEW c \in Nat, c > 0, NEW a \in 0..(c - 1), NEW n \in 0..c
  PROVE  (((a - n) % c) + n) % c = a
<1>1. (a - n) % c = IF n <= a THEN a - n ELSE a - n + c
  BY ModMinus
<1>2. (a - n) % c \in 0..(c - 1)
  BY <1>1
<1>3. (((a - n) % c) + n) % c = IF ((a - n) % c) + n < c THEN ((a - n) % c) + n ELSE ((a - n) % c) + n - c
  BY <1>2, ModPlus
<1> QED  BY <1>1, <1>2, <1>3

LEMMA ModInjective ==
  ASSUME NEW c \in Nat, c > 0, NEW a \in 0..(c - 1), NEW m \in 0..(c - 1), NEW n \in 0..(c - 1),
         (a + m) % c = (a + n) % c
  PROVE  m = n
<1>1. (a + m) % c = IF a + m < c THEN a + m ELSE a + m - c
  BY ModPlus
<1>2. (a + n) % c = IF a + n < c THEN a + n ELSE a + n - c
  BY ModPlus
<1> QED  BY <1>1, <1>2

LEMMA BoundedSeqDef ==
  ASSUME NEW S, NEW n \in Nat
  PROVE  /\ \A s \in BoundedSeq(S, n) : s \in Seq(S) /\ Len(s) \in 0..n
         /\ \A s \in Seq(S) : Len(s) <= n => s \in BoundedSeq(S, n)
<1>1. BoundedSeq(S, n) = UNION {[1..m -> S] : m \in 0..n}
  BY DEF BoundedSeq, SeqOf
<1>2. ASSUME NEW m \in 0..n, NEW s \in [1..m -> S] PROVE s \in Seq(S) /\ Len(s) \in 0..n
  BY <1>2
<1>3. ASSUME NEW s \in Seq(S), Len(s) <= n PROVE s \in BoundedSeq(S, n)
  <2>1. Len(s) \in 0..n /\ s \in [1..Len(s) -> S]
    BY <1>3
  <2> QED  BY <2>1, <1>1
<1> QED  BY <1>1, <1>2, <1>3

LEMMA NoWrap == ASSUME NEW a \in 0..MaxSize PROVE Wrapped(a) = a
  BY CapacitiesAssumption DEF Wrapped

\* What a SizeType holds of a buffer's numbers.
LEMMA Fits ==
  ASSUME Types
  PROVE  /\ capacity \in Nat /\ 2 * capacity <= MaxSize + 1
         /\ count \in 0..capacity /\ wLag \in 0..capacity /\ rLag \in 0..capacity
         /\ wr.len \in Nat /\ wr.len1 \in Nat /\ wr.done \in Nat
         /\ wr.data \in Seq(Elem) /\ Len(wr.data) \in 0..MaxLen
         /\ rd.len \in Nat /\ rd.len1 \in Nat
         /\ rd.data \in Seq(Cell) /\ Len(rd.data) \in 0..MaxLen
         /\ wr = [at |-> wr.at, data |-> wr.data, len |-> wr.len, len1 |-> wr.len1, done |-> wr.done]
         /\ rd = [at |-> rd.at, fn |-> rd.fn, data |-> rd.data, len |-> rd.len, len1 |-> rd.len1]
         /\ capacity > 0 => readOffs \in 0..(capacity - 1) /\ writeOffs \in 0..(capacity - 1)
<1>1. wr \in WriteCall /\ rd \in ReadCall
  BY DEF Types, TypeOK
<1>2. wr.data \in BoundedSeq(Elem, MaxLen) /\ rd.data \in BoundedSeq(Cell, MaxLen)
  BY <1>1 DEF WriteCall, ReadCall
<1>3. /\ wr.data \in Seq(Elem) /\ Len(wr.data) \in 0..MaxLen
      /\ rd.data \in Seq(Cell) /\ Len(rd.data) \in 0..MaxLen
  BY <1>2, BoundedSeqDef, MaxLenAssumption
<1>4. /\ wr.len \in Nat /\ wr.len1 \in Nat /\ wr.done \in Nat
      /\ rd.len \in Nat /\ rd.len1 \in Nat
      /\ wr = [at |-> wr.at, data |-> wr.data, len |-> wr.len, len1 |-> wr.len1, done |-> wr.done]
      /\ rd = [at |-> rd.at, fn |-> rd.fn, data |-> rd.data, len |-> rd.len, len1 |-> rd.len1]
  BY <1>1, MaxLenAssumption DEF WriteCall, ReadCall
<1>5. capacity \in Nat /\ 2 * capacity <= MaxSize + 1
  BY CapacitiesAssumption DEF Types, TypeOK
<1> QED  BY <1>3, <1>4, <1>5 DEF Types, TypeOK, Slots

\* Offsets stay in the buffer, and go around it.
LEMMA Around ==
  ASSUME Types, capacity > 0, NEW offs \in 0..(capacity - 1), NEW len \in 0..capacity
  PROVE  /\ UpToEnd(offs) = capacity - offs
         /\ NextOffs(offs, len) = (offs + len) % capacity
         /\ NextOffs(offs, len) \in 0..(capacity - 1)
<1>0. capacity \in Nat /\ 2 * capacity <= MaxSize + 1 /\ MaxSize \in Nat
  BY Fits, CapacitiesAssumption
<1>1. UpToEnd(offs) = capacity - offs
  BY <1>0, NoWrap DEF UpToEnd
<1>2. NextOffs(offs, len) = (offs + len) % capacity
  BY <1>0, NoWrap DEF NextOffs
<1>3. (offs + len) % capacity \in 0..(capacity - 1)
  BY <1>0, ModPlus
<1> QED  BY <1>1, <1>2, <1>3

\* The slot of the i-th element of a call is i places behind where it starts.
LEMMA SlotIs ==
  ASSUME Types, capacity > 0, NEW offs \in 0..(capacity - 1), NEW len \in 0..capacity,
         NEW i \in 0..(len - 1)
  PROVE  Slot(offs, Least(len, UpToEnd(offs)), i) = (offs + i) % capacity
<1>0. capacity \in Nat
  BY Fits
<1>1. UpToEnd(offs) = capacity - offs
  BY Around
<1>2. (offs + i) % capacity = IF offs + i < capacity THEN offs + i ELSE offs + i - capacity
  BY <1>0, ModPlus
<1> QED  BY <1>0, <1>1, <1>2 DEF Slot, Least

LEMMA OldestIn ==
  ASSUME Types, ReaderOK, capacity > 0
  PROVE  Oldest \in 0..(capacity - 1)
<1>1. capacity \in Nat /\ readOffs \in 0..(capacity - 1) /\ rd.len \in 0..capacity
  BY Fits DEF ReaderOK
<1>2. (readOffs - rd.len) % capacity \in 0..(capacity - 1)
  BY <1>1, ModMinus
<1> QED  BY <1>1, <1>2 DEF Oldest

\* Where the writer writes, and the reader reads.
LEMMA WriterSlot ==
  ASSUME Inv, wr.at = "copy", wr.data # <<>>, NEW i \in 0..(wr.len - 1)
  PROVE  Slot(writeOffs, wr.len1, i) = At(count + i)
<1>0. /\ capacity \in Nat /\ count \in 0..capacity /\ wLag \in 0..capacity
      /\ wr.len \in Nat /\ count + wLag + wr.len <= capacity
  BY Fits DEF Inv, WriterOK
<1>1. capacity > 0
  BY <1>0
<1>2. writeOffs \in 0..(capacity - 1) /\ Oldest \in 0..(capacity - 1)
  BY <1>1, Fits, OldestIn DEF Inv
<1>3. Slot(writeOffs, wr.len1, i) = (writeOffs + i) % capacity
  BY <1>0, <1>1, <1>2, SlotIs, SMTT(30) DEF Inv, WriterOK
<1>4. writeOffs = (Oldest + count) % capacity
  BY <1>1 DEF Inv, Offsets, FirstFree, At
<1>5. (writeOffs + i) % capacity = (Oldest + (count + i)) % capacity
  BY <1>0, <1>1, <1>2, <1>4, ModAdd, SMTT(30)
<1> QED  BY <1>3, <1>5 DEF At

LEMMA ReaderSlot ==
  ASSUME Inv, rd.at = "copy", NEW i \in 0..(rd.len - 1)
  PROVE  Slot(readOffs, rd.len1, i) = At(i)
<1>0. /\ capacity \in Nat /\ count \in 0..capacity /\ rLag \in 0..capacity
      /\ rd.len \in Nat /\ rd.len <= count
  BY Fits DEF Inv, ReaderOK
<1>1. capacity > 0 /\ readOffs \in 0..(capacity - 1)
  BY <1>0, Fits DEF Inv
<1>2. rd.len \in 0..capacity /\ rd.len1 = Least(rd.len, UpToEnd(readOffs))
  BY <1>0 DEF Inv, ReaderOK
<1>3. Slot(readOffs, rd.len1, i) = (readOffs + i) % capacity
  BY <1>1, <1>2, SlotIs DEF Inv
<1> QED  BY <1>3 DEF At, Oldest

LEMMA InSlots ==
  ASSUME Inv, capacity > 0, NEW i \in 0..(capacity - 1)
  PROVE  At(i) \in Slots
<1>1. capacity \in Nat /\ Oldest \in 0..(capacity - 1)
  BY Fits, OldestIn DEF Inv
<1> QED  BY <1>1, ModPlus DEF At, Slots

\* Different places are different slots.
LEMMA Distinct ==
  ASSUME Inv, capacity > 0, NEW i \in 0..(capacity - 1), NEW j \in 0..(capacity - 1), i # j
  PROVE  At(i) # At(j) /\ At(i) \in Slots
<1>1. capacity \in Nat /\ Oldest \in 0..(capacity - 1)
  BY Fits, OldestIn DEF Inv
<1>2. At(i) # At(j)
  BY <1>1, ModInjective DEF At
<1>3. At(i) \in Slots
  BY <1>1, ModPlus DEF At, Slots
<1> QED  BY <1>2, <1>3

-----------------------------------------------------------------------------
(* The initial states, and the steps one by one.                           *)

LEMMA EmptyIs ==
  ASSUME NEW S
  PROVE  <<>> \in BoundedSeq(S, MaxLen) /\ Len(<<>>) = 0
<1>1. <<>> \in Seq(S) /\ Len(<<>>) = 0 /\ 0 <= MaxLen
  BY MaxLenAssumption
<1> QED  BY <1>1, BoundedSeqDef, MaxLenAssumption

LEMMA LeastIs ==
  ASSUME NEW a \in Nat, NEW b \in Nat
  PROVE  Least(a, b) \in Nat /\ Least(a, b) <= a /\ Least(a, b) <= b
  BY DEF Least

LEMMA LeastBelow ==
  ASSUME NEW n \in Nat, NEW a \in 0..n, NEW b \in Nat
  PROVE  Least(a, b) \in 0..n
  BY DEF Least

\* An offset is in the buffer, so that what is left behind it is a length.
LEMMA UpToEndIs ==
  ASSUME Types, NEW offs \in Nat
  PROVE  UpToEnd(offs) \in Nat
<1>1. capacity - offs \in Int /\ MaxSize + 1 \in Nat /\ MaxSize + 1 > 0
  BY Fits, CapacitiesAssumption
<1>2. (capacity - offs) % (MaxSize + 1) \in Nat
  BY <1>1
<1> QED  BY <1>2 DEF UpToEnd, Wrapped

LEMMA InitInv == Init => Inv
<1> SUFFICES ASSUME Init PROVE Inv
  OBVIOUS
<1>1. /\ capacity \in Nat /\ 0 \in 0..MaxLen
      /\ WrIdle \in WriteCall /\ RdIdle(<<>>) \in ReadCall
  BY EmptyIs, MaxLenAssumption, CapacitiesAssumption DEF Init, WrIdle, RdIdle, WriteCall, ReadCall
<1>2. Types
  <2>1. buf \in [Slots -> Cell]
    BY DEF Init, Cell
  <2>2. capacity > 0 => readOffs \in Slots /\ writeOffs \in Slots
    BY <1>1 DEF Init, Slots
  <2>3. readOffs \in Nat /\ writeOffs \in Nat
    BY CapacitiesAssumption DEF Init
  <2>4. count \in 0..capacity /\ wLag \in 0..capacity /\ rLag \in 0..capacity
    BY <1>1 DEF Init
  <2>5. capacity \in Capacities /\ wr \in WriteCall /\ rd \in ReadCall /\ trapped \in BOOLEAN
    BY <1>1 DEF Init
  <2> QED  BY <2>1, <2>2, <2>3, <2>4, <2>5 DEF Types, TypeOK
<1>3. WriterOK /\ ReaderOK
  BY <1>1 DEF Init, WriterOK, ReaderOK, WrIdle, RdIdle
<1>4. Offsets
  BY <1>1, ModPlus DEF Init, Offsets, FirstFree, Oldest, At, WrIdle, RdIdle
<1>5. Contents
  BY DEF Init, Contents, WrIdle, RdIdle
<1> QED  BY <1>2, <1>3, <1>4, <1>5 DEF Inv

\* Steps that leave the reader's part alone move no element.
LEMMA SamePlaces ==
  ASSUME UNCHANGED <<capacity, readOffs, rd>>
  PROVE  /\ Oldest' = Oldest
         /\ \A i : At(i)' = At(i)
  BY DEF Oldest, At

LEMMA WriteBeginInv ==
  ASSUME Inv, NEW data \in BoundedSeq(Elem, MaxLen), NEW lag \in 0..wLag, WriteBegin(data, lag)
  PROVE  Inv'
<1>0. /\ capacity \in Nat /\ 2 * capacity <= MaxSize + 1 /\ MaxSize \in Nat
      /\ count \in 0..capacity /\ wLag \in 0..capacity
      /\ count + wLag <= capacity
      /\ Len(data) \in 0..MaxLen /\ MaxLen \in Nat
  BY Fits, BoundedSeqDef, MaxLenAssumption, CapacitiesAssumption, SMTT(30) DEF Inv, WriterOK
<1> DEFINE len == Least(Len(data), StaleWriteSize(lag))
<1>a. StaleWriteSize(lag) \in Nat /\ StaleWriteSize(lag) = capacity - (count + lag)
  BY <1>0 DEF StaleWriteSize, WriteSize
<1>b. len \in Nat /\ len <= Len(data) /\ len <= StaleWriteSize(lag)
  BY <1>0, <1>a, LeastIs
<1>1. len \in 0..MaxLen /\ len <= Len(data) /\ count + lag + len <= capacity
  BY <1>0, <1>a, <1>b
<1>2. UpToEnd(writeOffs) \in Nat
  BY UpToEndIs DEF Inv, Types
<1>3. Least(len, UpToEnd(writeOffs)) \in 0..MaxLen
  <2> HIDE DEF len
  <2> QED  BY <1>0, <1>1, <1>2, LeastBelow
<1>4. /\ wr' = [at |-> "copy", data |-> data, len |-> len,
                len1 |-> Least(len, UpToEnd(writeOffs)), done |-> 0]
      /\ wr.at = "idle" /\ wLag' = lag
      /\ UNCHANGED <<buf, capacity, readOffs, writeOffs, count, rLag, rd, trapped>>
  BY DEF WriteBegin, LoadW
<1>5. wr' \in WriteCall
  BY <1>1, <1>3, <1>4, MaxLenAssumption DEF WriteCall
<1>6. Types'
  BY <1>0, <1>4, <1>5 DEF Inv, Types, TypeOK, Slots, Cell, ReadCall
<1>7. WriterOK'
  BY <1>0, <1>1, <1>4 DEF WriterOK, UpToEnd, Wrapped
<1>8. ReaderOK'
  BY <1>4 DEF Inv, ReaderOK, UpToEnd, Wrapped, Copied
<1>9. Offsets'
  BY <1>4, SamePlaces DEF Inv, Offsets, FirstFree
<1>10. Contents'
  BY <1>4, SamePlaces DEF Inv, Contents
<1> QED  BY <1>6, <1>7, <1>8, <1>9, <1>10 DEF Inv

LEMMA AdvanceWriteBeginInv ==
  ASSUME Inv, NEW n \in 0..MaxLen, NEW lag \in 0..wLag, AdvanceWriteBegin(n, lag)
  PROVE  Inv'
<1>0. /\ capacity \in Nat /\ MaxLen \in Nat
      /\ count \in 0..capacity /\ wLag \in 0..capacity
      /\ count + wLag <= capacity
  BY Fits, MaxLenAssumption DEF Inv, WriterOK
<1> DEFINE len == Least(n, StaleWriteSize(lag))
<1>1. len \in 0..MaxLen /\ count + lag + len <= capacity
  BY <1>0 DEF Least, StaleWriteSize, WriteSize
<1>4. /\ wr' = [at |-> "copy", data |-> <<>>, len |-> len, len1 |-> 0, done |-> len]
      /\ wr.at = "idle" /\ wLag' = lag
      /\ UNCHANGED <<buf, capacity, readOffs, writeOffs, count, rLag, rd, trapped>>
  BY DEF AdvanceWriteBegin, LoadW
<1>5. wr' \in WriteCall
  BY <1>0, <1>1, <1>4, EmptyIs DEF WriteCall
<1>6. Types'
  BY <1>0, <1>4, <1>5 DEF Inv, Types, TypeOK, Slots, Cell, ReadCall
<1>7. WriterOK'
  BY <1>0, <1>1, <1>4 DEF WriterOK, UpToEnd, Wrapped
<1>8. ReaderOK'
  BY <1>4 DEF Inv, ReaderOK, UpToEnd, Wrapped, Copied
<1>9. Offsets'
  BY <1>4, SamePlaces DEF Inv, Offsets, FirstFree
<1>10. Contents'
  BY <1>4, SamePlaces DEF Inv, Contents
<1> QED  BY <1>6, <1>7, <1>8, <1>9, <1>10 DEF Inv

LEMMA WriteCopyInv == ASSUME Inv, WriteCopy PROVE Inv'
<1>0. /\ capacity \in Nat /\ count \in 0..capacity /\ wLag \in 0..capacity /\ rLag \in 0..capacity
      /\ wr.len \in Nat /\ wr.done \in Nat /\ wr.done < wr.len
      /\ count + wLag + wr.len <= capacity
      /\ wr.at = "copy" /\ wr.data # <<>>
      /\ wr.len <= Len(wr.data) /\ wr.data \in Seq(Elem)
      /\ rd.data \in Seq(Cell) /\ rd.len \in Nat /\ rLag + rd.len <= count
  BY Fits, SMTT(30) DEF Inv, WriterOK, ReaderOK, WriteCopy
<1>1. capacity > 0 /\ count + wr.done \in 0..(capacity - 1)
  BY <1>0
<1>2. Slot(writeOffs, wr.len1, wr.done) = At(count + wr.done)
  BY <1>0, WriterSlot
<1>3. /\ buf' = [buf EXCEPT ![At(count + wr.done)] = wr.data[wr.done + 1]]
      /\ wr' = [wr EXCEPT !.done = wr.done + 1]
      /\ UNCHANGED <<capacity, readOffs, writeOffs, count, wLag, rLag, rd, trapped>>
  BY <1>2 DEF WriteCopy, Source
<1>4. At(count + wr.done) \in Slots /\ wr.data[wr.done + 1] \in Elem
  <2>1. wr.done + 1 \in 1..Len(wr.data)
    BY <1>0, Fits, SMTT(30) DEF Inv
  <2> QED  BY <2>1, <1>0, <1>1, InSlots
<1>5. wr' \in WriteCall
  <2>1. wr.done + 1 \in 0..MaxLen
    BY <1>0, Fits, MaxLenAssumption, SMTT(30) DEF Inv
  <2> QED  BY <2>1, <1>3 DEF WriteCall, Inv, Types, TypeOK
<1>6. Types'
  BY <1>3, <1>4, <1>5 DEF Inv, Types, TypeOK, Slots, Cell, ReadCall
<1>7. WriterOK'
  <2>1. /\ wr'.at = "copy" /\ wr'.data = wr.data /\ wr'.len = wr.len /\ wr'.len1 = wr.len1
        /\ wr'.done = wr.done + 1
    BY <1>0, <1>3, Fits DEF Inv
  <2>2. wr'.done <= wr'.len /\ count' + wLag' + wr'.len <= capacity'
    BY <1>0, <1>3, <2>1
  <2>3. wr'.len1 = Least(wr'.len, UpToEnd(writeOffs)')
    BY <1>0, <1>3, <2>1 DEF Inv, WriterOK, UpToEnd, Wrapped
  <2> QED  BY <1>0, <2>1, <2>2, <2>3 DEF WriterOK
<1>8. ReaderOK'
  BY <1>3 DEF Inv, ReaderOK, UpToEnd, Wrapped, Copied
<1>9. Offsets'
  BY <1>0, <1>3, SamePlaces, Fits DEF Inv, Offsets, FirstFree
<1>10. Contents'
  <2>1. ASSUME NEW i \in 0..(capacity - 1), i # count + wr.done PROVE buf'[At(i)] = buf[At(i)]
    <3>1. At(i) # At(count + wr.done) /\ At(i) \in Slots
      BY <2>1, <1>1, Distinct
    <3> QED  BY <3>1, <1>3, <1>4 DEF Inv, Types, TypeOK
  <2>2. buf'[At(count + wr.done)] = wr.data[wr.done + 1]
    BY <1>3, <1>4 DEF Inv, Types, TypeOK
  <2>3. wr'.done = wr.done + 1 /\ wr'.data = wr.data /\ wr'.at = wr.at
    BY <1>3, Fits DEF Inv
  <2>4. ASSUME NEW i \in 0..(wr'.done - 1) PROVE buf'[At(count + i)'] = wr.data[i + 1]
    <3>1. CASE i = wr.done
      BY <3>1, <2>2, <1>3, SamePlaces
    <3>2. CASE i < wr.done
      <4>1. count + i \in 0..(capacity - 1) /\ count + i # count + wr.done /\ i \in 0..(wr.done - 1)
        BY <3>2, <1>0, SMTT(30)
      <4>2. buf[At(count + i)] = wr.data[i + 1]
        BY <4>1, <1>0 DEF Inv, Contents
      <4> QED  BY <4>1, <4>2, <2>1, <1>3, SamePlaces
    <3> QED  BY <3>1, <3>2, <2>3, <1>0
  <2>5. ASSUME NEW i \in 1..Len(rd.data), rd.at # "idle" PROVE rd.data[i] = buf'[At(i - 1)']
    <3>1. i - 1 \in 0..(capacity - 1) /\ i - 1 # count + wr.done
      BY <2>5, <1>0 DEF Inv, ReaderOK
    <3>2. rd.data[i] = buf[At(i - 1)]
      BY <2>5 DEF Inv, Contents
    <3> QED  BY <3>1, <3>2, <2>1, <1>3, SamePlaces
  <2> QED  BY <2>3, <2>4, <2>5, <1>3 DEF Contents
<1> QED  BY <1>6, <1>7, <1>8, <1>9, <1>10 DEF Inv

LEMMA WriteMoveInv == ASSUME Inv, WriteMove PROVE Inv'
<1>0. /\ capacity \in Nat /\ count \in 0..capacity /\ wLag \in 0..capacity
      /\ wr.len \in 0..capacity /\ wr.done \in Nat /\ wr.done = wr.len /\ capacity > 0
      /\ count + wLag + wr.len <= capacity
      /\ writeOffs \in 0..(capacity - 1) /\ wr.at = "copy"
      /\ wr.data # <<>> => wr.len <= Len(wr.data)
  BY Fits DEF Inv, WriterOK, WriteMove
<1>1. writeOffs' = (writeOffs + wr.len) % capacity /\ writeOffs' \in 0..(capacity - 1)
  BY <1>0, Around DEF Inv, WriteMove
<1>2. /\ wr' = [at |-> "moved", data |-> wr.data, len |-> wr.len, len1 |-> wr.len1, done |-> wr.done]
      /\ UNCHANGED <<buf, capacity, readOffs, count, wLag, rLag, rd, trapped>>
  BY Fits DEF WriteMove, Inv
<1>3. wr' \in WriteCall
  BY <1>2 DEF WriteCall, Inv, Types, TypeOK
<1>4. Types'
  BY <1>0, <1>1, <1>2, <1>3 DEF Inv, Types, TypeOK, Slots, Cell, ReadCall
<1>5. WriterOK'
  BY <1>0, <1>2 DEF WriterOK
<1>6. ReaderOK'
  BY <1>2 DEF Inv, ReaderOK, UpToEnd, Wrapped, Copied
<1>7. Offsets'
  <2>1. (writeOffs' - wr.len) % capacity = writeOffs
    BY <1>0, <1>1, ModBack
  <2>2. FirstFree' = FirstFree
    BY <2>1, <1>0, <1>2 DEF FirstFree
  <2>3. At(count)' = At(count)
    BY <1>2, SamePlaces
  <2> QED  BY <2>2, <2>3, <1>2 DEF Inv, Offsets
<1>8. Contents'
  BY <1>0, <1>2, SamePlaces DEF Inv, Contents
<1> QED  BY <1>4, <1>5, <1>6, <1>7, <1>8 DEF Inv

LEMMA WritePublishInv == ASSUME Inv, WritePublish PROVE Inv'
<1>0. /\ capacity \in Nat /\ count \in 0..capacity /\ wLag \in 0..capacity /\ rLag \in 0..capacity
      /\ wr.len \in 0..capacity /\ capacity > 0 /\ wr.at = "moved"
      /\ count + wLag + wr.len <= capacity
      /\ rd.len \in Nat /\ rLag + rd.len <= count
      /\ writeOffs \in 0..(capacity - 1)
  BY Fits, SMTT(30) DEF Inv, WriterOK, ReaderOK, WritePublish
<1>1. /\ count' = count + wr.len /\ rLag' = rLag + wr.len /\ wLag' = 0 /\ wr' = WrIdle
      /\ UNCHANGED <<buf, capacity, readOffs, writeOffs, rd, trapped>>
  BY DEF WritePublish
<1>2. wr' \in WriteCall
  BY <1>1, EmptyIs, MaxLenAssumption DEF WriteCall, WrIdle
<1>3. count' \in 0..capacity' /\ rLag' \in 0..capacity' /\ wLag' \in 0..capacity'
  BY <1>0, <1>1
<1>4. Types'
  BY <1>1, <1>2, <1>3 DEF Inv, Types, TypeOK, Slots, Cell, ReadCall
<1>5. WriterOK'
  BY <1>0, <1>1 DEF WriterOK, WrIdle
<1>6. ReaderOK'
  BY <1>0, <1>1 DEF Inv, ReaderOK, UpToEnd, Wrapped, Copied
<1>7. Offsets'
  <2>0. Oldest \in 0..(capacity - 1)
    BY <1>0, OldestIn DEF Inv
  <2>1. (writeOffs - wr.len) % capacity = (Oldest + count) % capacity
    BY <1>0 DEF Inv, Offsets, FirstFree, At
  <2>2. writeOffs = (Oldest + (count + wr.len)) % capacity
    <3>1. /\ (Oldest + count) % capacity \in 0..(capacity - 1)
          /\ (((Oldest + count) % capacity) + wr.len) % capacity = (Oldest + (count + wr.len)) % capacity
      <4>1. wr.len \in 0..(capacity - count)
        BY <1>0
      <4> QED  BY <1>0, <4>1, <2>0, ModAdd
    <3>2. (((writeOffs - wr.len) % capacity) + wr.len) % capacity = writeOffs
      BY <1>0, ModForth
    <3> QED  BY <3>1, <3>2, <2>1
  <2>3. FirstFree' = writeOffs
    BY <1>1 DEF FirstFree, WrIdle
  <2>4. Oldest' = Oldest
    BY <1>1 DEF Oldest
  <2> QED  BY <2>2, <2>3, <2>4, <1>1 DEF Offsets, At
<1>8. Contents'
  BY <1>1, SamePlaces DEF Inv, Contents, WrIdle
<1> QED  BY <1>4, <1>5, <1>6, <1>7, <1>8 DEF Inv

-----------------------------------------------------------------------------
(* The reader's steps.                                                     *)

LEMMA ReadBeginInv ==
  ASSUME Inv, NEW fn \in {"read", "advanceRead", "peek"}, NEW n \in 0..MaxLen, NEW lag \in 0..rLag,
         ReadBegin(fn, n, lag)
  PROVE  Inv'
<1>0. /\ capacity \in Nat /\ MaxLen \in Nat
      /\ count \in 0..capacity /\ rLag \in 0..capacity /\ rLag <= count
      /\ rd.len \in Nat
  BY Fits, MaxLenAssumption DEF Inv, ReaderOK
<1> DEFINE len == Least(n, ReadSize(lag))
<1>1. len \in 0..MaxLen /\ lag + len <= count
  <2>1. ReadSize(lag) \in Nat /\ ReadSize(lag) = count - lag
    BY <1>0 DEF ReadSize
  <2>2. len \in Nat /\ len <= n /\ len <= ReadSize(lag)
    BY <2>1, <1>0, LeastIs
  <2> HIDE DEF len
  <2> QED  BY <2>1, <2>2, <1>0
<1>2. UpToEnd(readOffs) \in Nat
  BY UpToEndIs DEF Inv, Types
<1>3. Least(len, UpToEnd(readOffs)) \in 0..MaxLen
  <2> HIDE DEF len
  <2> QED  BY <1>0, <1>1, <1>2, LeastBelow
<1>4. /\ rd' = [at |-> "copy", fn |-> fn, data |-> <<>>, len |-> len,
                len1 |-> Least(len, UpToEnd(readOffs))]
      /\ rd.at = "idle" /\ rLag' = lag
      /\ UNCHANGED <<buf, capacity, readOffs, writeOffs, count, wLag, wr, trapped>>
  BY DEF ReadBegin, LoadR
<1>5. rd' \in ReadCall
  BY <1>1, <1>3, <1>4, EmptyIs DEF ReadCall
<1>6. Types'
  BY <1>0, <1>4, <1>5 DEF Inv, Types, TypeOK, Slots, Cell, WriteCall
<1>7. WriterOK'
  BY <1>4 DEF Inv, WriterOK, UpToEnd, Wrapped
<1>8. ReaderOK'
  <2> HIDE DEF len
  <2> QED  BY <1>0, <1>1, <1>4 DEF ReaderOK, UpToEnd, Wrapped
<1>9. Oldest' = Oldest /\ \A i : At(i)' = At(i)
  BY <1>4 DEF At, Oldest
<1>10. Offsets'
  BY <1>4, <1>9 DEF Inv, Offsets, FirstFree
<1>11. Contents'
  BY <1>4, <1>9 DEF Inv, Contents
<1> QED  BY <1>6, <1>7, <1>8, <1>10, <1>11 DEF Inv

LEMMA ReadCopyInv == ASSUME Inv, ReadCopy PROVE Inv'
<1> DEFINE k == Len(rd.data)
<1>0. /\ capacity \in Nat /\ count \in 0..capacity /\ rLag \in 0..capacity
      /\ rd.len \in Nat /\ rLag + rd.len <= count
      /\ rd.data \in Seq(Cell) /\ k \in Nat /\ k < rd.len
      /\ rd.at = "copy" /\ rd.fn # "advanceRead" /\ rd.len \in 0..MaxLen
  <2>1. rd.at = "copy" /\ rd.fn # "advanceRead" /\ Len(rd.data) # rd.len /\ Len(rd.data) <= rd.len
    BY DEF Inv, ReaderOK, ReadCopy, Copied
  <2>2. rd.len \in 0..MaxLen
    BY DEF Inv, Types, TypeOK, ReadCall
  <2> QED  BY <2>1, <2>2, Fits DEF Inv, ReaderOK
<1>1. capacity > 0 /\ k \in 0..(capacity - 1) /\ k \in 0..(rd.len - 1)
  BY <1>0
<1>2. Slot(readOffs, rd.len1, k) = At(k)
  BY <1>0, <1>1, ReaderSlot
<1>3. /\ rd' = [at |-> rd.at, fn |-> rd.fn, data |-> Append(rd.data, buf[At(k)]),
                len |-> rd.len, len1 |-> rd.len1]
      /\ UNCHANGED <<buf, capacity, readOffs, writeOffs, count, wLag, rLag, wr, trapped>>
  BY <1>2, Fits DEF ReadCopy, Inv
<1>4. buf[At(k)] \in Cell
  BY <1>1, InSlots DEF Inv, Types, TypeOK
<1>5. /\ rd'.data \in Seq(Cell) /\ Len(rd'.data) = k + 1
      /\ rd'.data[k + 1] = buf[At(k)] /\ \A i \in 1..k : rd'.data[i] = rd.data[i]
  <2>1. rd'.data = Append(rd.data, buf[At(k)])
    BY <1>3
  <2> QED  BY <1>0, <1>4, <2>1
<1>6. rd' \in ReadCall
  <2>1. rd'.data \in BoundedSeq(Cell, MaxLen)
    BY <1>0, <1>5, BoundedSeqDef, MaxLenAssumption
  <2>2. rd \in ReadCall
    BY DEF Inv, Types, TypeOK
  <2> QED  BY <1>3, <2>1, <2>2 DEF ReadCall
<1>7. Types'
  BY <1>3, <1>6 DEF Inv, Types, TypeOK, Slots, Cell, WriteCall
<1>8. WriterOK'
  BY <1>3 DEF Inv, WriterOK, UpToEnd, Wrapped
<1>9. ReaderOK'
  <2>1. /\ rd'.at = "copy" /\ rd'.len = rd.len /\ rd'.len1 = rd.len1 /\ rd'.fn = rd.fn
        /\ rd.fn # "none" /\ rd.len1 = Least(rd.len, UpToEnd(readOffs))
    BY <1>0, <1>3 DEF Inv, ReaderOK
  <2>2. UpToEnd(readOffs)' = UpToEnd(readOffs)
    BY <1>3 DEF UpToEnd, Wrapped
  <2> QED  BY <1>0, <1>3, <1>5, <2>1, <2>2 DEF ReaderOK
<1>10. Oldest' = Oldest /\ \A i : At(i)' = At(i)
  BY <1>0, <1>3 DEF At, Oldest
<1>11. Offsets'
  BY <1>3, <1>10 DEF Inv, Offsets, FirstFree
<1>12. Contents'
  <2>1. ASSUME NEW i \in 1..Len(rd'.data) PROVE rd'.data[i] = buf'[At(i - 1)']
    <3>1. CASE i = k + 1
      BY <3>1, <1>0, <1>3, <1>5, <1>10
    <3>2. CASE i \in 1..k
      <4>1. rd.data[i] = buf[At(i - 1)]
        BY <3>2, <1>0 DEF Inv, Contents
      <4> QED  BY <4>1, <3>2, <1>3, <1>5, <1>10
    <3> QED  BY <3>1, <3>2, <1>0, <1>5
  <2>2. /\ wr'.at # "idle" /\ wr'.data # <<>> =>
             \A i \in 0..(wr'.done - 1) : buf'[At(count + i)'] = wr'.data[i + 1]
    BY <1>3, <1>10 DEF Inv, Contents
  <2> QED  BY <2>1, <2>2 DEF Contents
<1> QED  BY <1>7, <1>8, <1>9, <1>11, <1>12 DEF Inv

LEMMA PeekReturnInv == ASSUME Inv, PeekReturn PROVE Inv'
<1>1. /\ rd' = [at |-> "idle", fn |-> "none", data |-> rd.data, len |-> 0, len1 |-> 0]
      /\ rd.at = "copy"
      /\ UNCHANGED <<buf, capacity, readOffs, writeOffs, count, wLag, rLag, wr, trapped>>
  BY DEF PeekReturn, RdIdle
<1>2. rd' \in ReadCall
  BY <1>1, MaxLenAssumption DEF Inv, Types, TypeOK, ReadCall
<1>3. Types'
  BY <1>1, <1>2 DEF Inv, Types, TypeOK, Slots, Cell, WriteCall
<1>4. WriterOK'
  BY <1>1 DEF Inv, WriterOK, UpToEnd, Wrapped
<1>5. ReaderOK'
  <2>1. rLag' + rd'.len <= count'
    BY <1>1, Fits DEF Inv, ReaderOK
  <2> QED  BY <1>1, <2>1 DEF ReaderOK, RdIdle
<1>6. Oldest' = Oldest /\ \A i : At(i)' = At(i)
  BY <1>1 DEF At, Oldest
<1>7. Offsets'
  BY <1>1, <1>6 DEF Inv, Offsets, FirstFree
<1>8. Contents'
  BY <1>1, <1>6 DEF Inv, Contents
<1> QED  BY <1>3, <1>4, <1>5, <1>7, <1>8 DEF Inv

LEMMA ReadMoveInv == ASSUME Inv, ReadMove PROVE Inv'
<1>0. /\ capacity \in Nat /\ capacity > 0 /\ count \in 0..capacity /\ rLag \in 0..capacity
      /\ rd.len \in 0..capacity /\ rLag + rd.len <= count
      /\ readOffs \in 0..(capacity - 1)
      /\ rd.at = "copy" /\ rd.fn # "peek" /\ Copied
  BY Fits DEF Inv, ReaderOK, ReadMove
<1>1. readOffs' = (readOffs + rd.len) % capacity /\ readOffs' \in 0..(capacity - 1)
  BY <1>0, Around DEF Inv, ReadMove
<1>2. /\ rd' = [at |-> "moved", fn |-> rd.fn, data |-> rd.data, len |-> rd.len, len1 |-> rd.len1]
      /\ UNCHANGED <<buf, capacity, writeOffs, count, wLag, rLag, wr, trapped>>
  BY Fits DEF ReadMove, Inv
<1>3. rd' \in ReadCall
  BY <1>2 DEF Inv, Types, TypeOK, ReadCall
<1>4. Types'
  BY <1>0, <1>1, <1>2, <1>3 DEF Inv, Types, TypeOK, Slots, Cell, WriteCall
<1>5. WriterOK'
  BY <1>2 DEF Inv, WriterOK, UpToEnd, Wrapped
<1>6. ReaderOK'
  BY <1>0, <1>2 DEF Inv, ReaderOK, Copied
<1>7. Oldest' = Oldest /\ \A i : At(i)' = At(i)
  <2>1. (readOffs' - rd.len) % capacity = readOffs
    BY <1>0, <1>1, ModBack
  <2>2. Oldest' = Oldest
    BY <2>1, <1>0, <1>2 DEF Oldest
  <2> QED  BY <2>2, <1>2 DEF At
<1>8. Offsets'
  BY <1>2, <1>7 DEF Inv, Offsets, FirstFree
<1>9. Contents'
  BY <1>0, <1>2, <1>7 DEF Inv, Contents
<1> QED  BY <1>4, <1>5, <1>6, <1>8, <1>9 DEF Inv

\* What the reader has read leaves the queue: every other element moves up.
LEMMA Published ==
  ASSUME Inv, ReadPublish
  PROVE  /\ Oldest' = At(rd.len)
         /\ \A i \in 0..(capacity - rd.len) : (Oldest' + i) % capacity = At(rd.len + i)
<1>0. /\ capacity \in Nat /\ capacity > 0 /\ rd.len \in 0..capacity
      /\ readOffs \in 0..(capacity - 1) /\ rd.at = "moved"
      /\ capacity' = capacity /\ readOffs' = readOffs /\ rd' = RdIdle(rd.data)
  BY Fits DEF Inv, ReaderOK, ReadPublish
<1>1. Oldest = (readOffs - rd.len) % capacity /\ Oldest' = readOffs
  BY <1>0 DEF Oldest, RdIdle
<1>2. Oldest' = At(rd.len)
  BY <1>0, <1>1, ModForth DEF At
<1>3. ASSUME NEW i \in 0..(capacity - rd.len) PROVE (Oldest' + i) % capacity = At(rd.len + i)
  <2>1. Oldest \in 0..(capacity - 1)
    BY <1>0, OldestIn DEF Inv
  <2>2. (((Oldest + rd.len) % capacity) + i) % capacity = (Oldest + (rd.len + i)) % capacity
    BY <1>0, <2>1, ModAdd
  <2> QED  BY <1>0, <1>2, <2>2 DEF At
<1> QED  BY <1>2, <1>3

LEMMA ReadPublishInv == ASSUME Inv, ReadPublish PROVE Inv'
<1>0. /\ capacity \in Nat /\ capacity > 0 /\ count \in 0..capacity
      /\ wLag \in 0..capacity /\ rLag \in 0..capacity
      /\ rd.len \in 0..capacity /\ rLag + rd.len <= count
      /\ wr.len \in Nat /\ wr.done \in Nat /\ wr.done <= wr.len
      /\ count + wLag + wr.len <= capacity
      /\ rd.at = "moved"
  BY Fits DEF Inv, ReaderOK, WriterOK, ReadPublish
<1>1. /\ rd' = [at |-> "idle", fn |-> "none", data |-> rd.data, len |-> 0, len1 |-> 0]
      /\ count' = count - rd.len /\ wLag' = wLag + rd.len /\ rLag' = 0
      /\ UNCHANGED <<buf, capacity, readOffs, writeOffs, wr, trapped>>
  BY DEF ReadPublish, RdIdle
<1>2. rd' \in ReadCall
  BY <1>1, MaxLenAssumption DEF Inv, Types, TypeOK, ReadCall
<1>3. count' \in 0..capacity' /\ wLag' \in 0..capacity' /\ rLag' \in 0..capacity'
  BY <1>0, <1>1
<1>4. Types'
  BY <1>1, <1>2, <1>3 DEF Inv, Types, TypeOK, Slots, Cell, WriteCall
<1>5. WriterOK'
  <2>1. count' + wLag' + wr'.len <= capacity'
    BY <1>0, <1>1
  <2> QED  BY <1>1, <2>1 DEF Inv, WriterOK, UpToEnd, Wrapped
<1>6. ReaderOK'
  BY <1>0, <1>1 DEF ReaderOK, RdIdle
<1>7. Offsets'
  <2>1. (Oldest' + count') % capacity = At(count)
    <3>1. count' \in 0..(capacity - rd.len) /\ rd.len + count' = count
      BY <1>0, <1>1
    <3>2. (Oldest' + count') % capacity = At(rd.len + count')
      BY <3>1, Published
    <3> QED  BY <3>1, <3>2
  <2>2. FirstFree' = FirstFree
    BY <1>1 DEF FirstFree
  <2> QED  BY <2>1, <2>2, <1>1 DEF Inv, Offsets, At
<1>8. Contents'
  <2>1. ASSUME wr.at # "idle", wr.data # <<>>, NEW i \in 0..(wr.done - 1)
        PROVE  buf[(Oldest' + (count' + i)) % capacity] = wr.data[i + 1]
    <3>1. /\ count' + i \in 0..(capacity - rd.len)
          /\ rd.len + (count' + i) = count + i
      BY <1>0, <1>1
    <3>2. (Oldest' + (count' + i)) % capacity = At(rd.len + (count' + i))
      BY <3>1, Published
    <3>3. buf[At(count + i)] = wr.data[i + 1]
      BY <2>1 DEF Inv, Contents
    <3> QED  BY <3>1, <3>2, <3>3
  <2> QED  BY <1>1, <2>1 DEF Contents, At
<1> QED  BY <1>4, <1>5, <1>6, <1>7, <1>8 DEF Inv

-----------------------------------------------------------------------------
(* Both threads.                                                           *)

LEMMA ClearInv == ASSUME Inv, Clear PROVE Inv'
<1>0. capacity \in Nat /\ wr.len \in Nat /\ wr.at = "idle" /\ rd.at = "idle"
      /\ wr = WrIdle /\ rd = RdIdle(rd.data)
  BY Fits DEF Inv, WriterOK, ReaderOK, Clear
<1>1. /\ readOffs' = 0 /\ writeOffs' = 0 /\ count' = 0 /\ wLag' = 0 /\ rLag' = 0
      /\ UNCHANGED <<buf, capacity, wr, rd, trapped>>
  BY DEF Clear
<1>2. Types'
  BY <1>0, <1>1 DEF Inv, Types, TypeOK, Slots, Cell, WriteCall, ReadCall
<1>3. WriterOK'
  BY <1>0, <1>1 DEF WriterOK, WrIdle
<1>4. ReaderOK'
  BY <1>0, <1>1 DEF ReaderOK, RdIdle
<1>5. Offsets'
  <2>1. FirstFree' = 0 /\ Oldest' = 0
    BY <1>0, <1>1 DEF FirstFree, Oldest
  <2>2. capacity > 0 => (0 + 0) % capacity = 0
    BY <1>0
  <2> QED  BY <2>1, <2>2, <1>1 DEF Offsets, At
<1>6. Contents'
  BY <1>0, <1>1 DEF Contents
<1> QED  BY <1>2, <1>3, <1>4, <1>5, <1>6 DEF Inv

\* Steps that change nothing but the flag.
LEMMA SameInv ==
  ASSUME Inv, trapped' \in BOOLEAN,
         UNCHANGED <<buf, capacity, readOffs, writeOffs, count, wLag, rLag, wr, rd>>
  PROVE  Inv'
<1>1. Types'
  BY DEF Inv, Types, TypeOK, Slots, Cell, WriteCall, ReadCall
<1>2. WriterOK' /\ ReaderOK'
  BY DEF Inv, WriterOK, ReaderOK, UpToEnd, Wrapped, Copied
<1>3. Oldest' = Oldest /\ FirstFree' = FirstFree /\ \A i : At(i)' = At(i)
  BY DEF Oldest, FirstFree, At
<1>4. Offsets' /\ Contents'
  BY <1>3 DEF Inv, Offsets, Contents
<1> QED  BY <1>1, <1>2, <1>4 DEF Inv

LEMMA StepInv == Inv /\ [Next]_vars => Inv'
<1> SUFFICES ASSUME Inv, [Next]_vars PROVE Inv'
  OBVIOUS
<1>1. CASE Writer
  BY <1>1, WriteBeginInv, AdvanceWriteBeginInv, WriteCopyInv, WriteMoveInv, WritePublishInv DEF Writer
<1>2. CASE Reader
  BY <1>2, ReadBeginInv, ReadCopyInv, PeekReturnInv, ReadMoveInv, ReadPublishInv DEF Reader
<1>3. CASE Clear
  BY <1>3, ClearInv
<1>4. CASE Trap
  BY <1>4, SameInv DEF Trap
<1>5. CASE UNCHANGED vars
  BY <1>5, SameInv DEF vars, Inv, Types, TypeOK
<1> QED  BY <1>1, <1>2, <1>3, <1>4, <1>5 DEF Next

\* The inductive invariant: what the variables hold, what a call in progress
\* may do, and where the elements are.
THEOREM Invariance == Spec => []Inv
<1>1. Init => Inv
  BY InitInv
<1>2. Inv /\ [Next]_vars => Inv'
  BY StepInv
<1> QED  BY <1>1, <1>2, PTL DEF Spec

\* Whatever the capacities, lengths and elements: the two offsets, each moved
\* by its own thread, and the count always describe one stretch of the
\* buffer, and a thread that has missed the other's progress can only think
\* it has less room, or less to read, than it has.
THEOREM OffsetsAlwaysAgree == Spec => []OffsetsAgree
<1>1. Inv => OffsetsAgree
  <2> SUFFICES ASSUME Inv PROVE OffsetsAgree
    OBVIOUS
  <2>1. capacity > 0 => FirstFree = (Oldest + count) % capacity
    BY DEF Inv, Offsets, At
  <2>2. count + wLag <= capacity /\ rLag <= count
    BY Fits DEF Inv, WriterOK, ReaderOK
  <2> QED  BY <2>1, <2>2 DEF OffsetsAgree
<1> QED  BY <1>1, Invariance, PTL

LEMMA WritingIs ==
  ASSUME Inv, NEW slot \in Writing
  PROVE  \E i \in count..(capacity - wLag - 1) : slot = At(i)
<1>1. wr.at = "copy" /\ wr.data # <<>>
  BY DEF Writing
<1>2. PICK i \in 0..(wr.len - 1) : slot = Slot(writeOffs, wr.len1, i)
  BY <1>1 DEF Writing
<1>3. slot = At(count + i)
  BY <1>1, <1>2, WriterSlot
<1>4. count + i \in count..(capacity - wLag - 1)
  <2>1. count + wLag + wr.len <= capacity
    BY DEF Inv, WriterOK
  <2>2. capacity \in Nat /\ count \in Nat /\ wLag \in Nat /\ wr.len \in Nat
    BY Fits DEF Inv
  <2> QED  BY <2>1, <2>2
<1> QED  BY <1>3, <1>4

LEMMA ReadingIs ==
  ASSUME Inv, NEW slot \in Reading
  PROVE  \E i \in 0..(count - rLag - 1) : slot = At(i)
<1>1. rd.at = "copy"
  BY DEF Reading
<1>2. PICK i \in 0..(rd.len - 1) : slot = Slot(readOffs, rd.len1, i)
  BY <1>1 DEF Reading
<1>3. slot = At(i)
  BY <1>1, <1>2, ReaderSlot
<1>4. i \in 0..(count - rLag - 1)
  BY Fits DEF Inv, ReaderOK
<1> QED  BY <1>3, <1>4

\* The slots freed that the writer does not know of are the last before the
\* oldest element.
LEMMA FreedIs ==
  ASSUME Inv, capacity > 0, NEW slot \in From(Oldest - wLag, wLag)
  PROVE  \E i \in (capacity - wLag)..(capacity - 1) : slot = At(i)
<1>0. capacity \in Nat /\ wLag \in 0..capacity /\ Oldest \in 0..(capacity - 1)
  BY Fits, OldestIn DEF Inv
<1>1. PICK i \in 0..(wLag - 1) : slot = (Oldest - wLag + i) % capacity
  BY DEF From
<1>2. wLag - i \in 0..capacity /\ capacity - wLag + i \in 0..capacity
  BY <1>0
<1>3. Oldest - wLag + i = Oldest - (wLag - i) /\ capacity - wLag + i \in (capacity - wLag)..(capacity - 1)
  BY <1>0
<1>4. (Oldest - (wLag - i)) % capacity =
        IF wLag - i <= Oldest THEN Oldest - (wLag - i) ELSE Oldest - (wLag - i) + capacity
  BY <1>0, <1>2, ModMinus
<1>5. (Oldest + (capacity - wLag + i)) % capacity =
        IF Oldest + (capacity - wLag + i) < capacity THEN Oldest + (capacity - wLag + i)
        ELSE Oldest + (capacity - wLag + i) - capacity
  BY <1>0, <1>2, ModPlus
<1>6. slot = At(capacity - wLag + i)
  BY <1>0, <1>1, <1>3, <1>4, <1>5 DEF At
<1> QED  BY <1>3, <1>6

\* Whatever the capacities, lengths and elements: no slot is written while
\* the other thread reads it, or may still read it as far as the writer can
\* know, and no slot is read before the reader has seen it published.
THEOREM NeverRaces == Spec => []NoRace
<1>1. Inv => NoRace
  <2> SUFFICES ASSUME Inv, capacity > 0 PROVE NoRace
    BY DEF NoRace
  <2>0. /\ capacity \in Nat /\ count \in 0..capacity /\ wLag \in 0..capacity /\ rLag \in 0..capacity
        /\ Oldest \in 0..(capacity - 1)
    BY Fits, OldestIn DEF Inv
  <2>1. ASSUME NEW slot \in Writing, slot \in Reading \cup From(Oldest - wLag, wLag) PROVE FALSE
    <3>1. PICK i \in count..(capacity - wLag - 1) : slot = At(i)
      BY WritingIs
    <3>2. PICK j \in 0..(capacity - 1) : j # i /\ slot = At(j)
      <4>1. CASE slot \in Reading
        <5>1. PICK j \in 0..(count - rLag - 1) : slot = At(j)
          BY <4>1, ReadingIs
        <5>2. j \in 0..(capacity - 1) /\ j # i
          BY <2>0, <3>1
        <5> QED  BY <5>1, <5>2
      <4>2. CASE slot \in From(Oldest - wLag, wLag)
        <5>1. PICK j \in (capacity - wLag)..(capacity - 1) : slot = At(j)
          BY <4>2, FreedIs
        <5>2. j \in 0..(capacity - 1) /\ j # i
          BY <2>0, <3>1
        <5> QED  BY <5>1, <5>2
      <4> QED  BY <2>1, <4>1, <4>2
    <3>3. i \in 0..(capacity - 1)
      BY <2>0, <3>1
    <3> QED  BY <3>1, <3>2, <3>3, Distinct
  <2>2. ASSUME NEW slot \in Reading PROVE slot \in From(Oldest, count - rLag)
    BY ReadingIs DEF From, At
  <2> QED  BY <2>1, <2>2 DEF NoRace
<1> QED  BY <1>1, Invariance, PTL

-----------------------------------------------------------------------------
(* A queue.                                                                *)

Queue == [i \in 1..count |-> buf[(Oldest + i - 1) % capacity]]
Got   == IF rd.at = "idle" THEN rd.data ELSE <<>>

QueueOK ==
    /\ Queue \in Seq(Cell) /\ Len(Queue) = count
    /\ \A i \in 1..count : Queue[i] = buf[At(i - 1)]

LEMMA QueueIs == Inv => QueueOK
<1> SUFFICES ASSUME Inv PROVE QueueOK
  OBVIOUS
<1>0. count \in Nat /\ capacity \in Nat /\ count <= capacity
  BY Fits DEF Inv
<1>1. ASSUME NEW i \in 1..count PROVE Queue[i] = buf[At(i - 1)] /\ Queue[i] \in Cell
  <2>1. capacity > 0 /\ i - 1 \in 0..(capacity - 1)
    BY <1>0
  <2>2. Oldest + i - 1 = Oldest + (i - 1)
    BY <2>1, OldestIn DEF Inv
  <2>3. Queue[i] = buf[At(i - 1)]
    BY <2>2 DEF Queue, At
  <2>4. buf[At(i - 1)] \in Cell
    BY <2>1, InSlots DEF Inv, Types, TypeOK
  <2> QED  BY <2>3, <2>4
<1>2. Queue = [i \in 1..count |-> Queue[i]]
  BY DEF Queue
<1>3. Queue \in [1..count -> Cell]
  BY <1>1, <1>2
<1> QED  BY <1>0, <1>1, <1>3 DEF QueueOK

LEMMA QueueIsNext == Inv' => QueueOK'
BY QueueIs, PTL

LEMMA SameSeq ==
  ASSUME NEW S, NEW s \in Seq(S), NEW t \in Seq(S), Len(s) = Len(t),
         \A i \in 1..Len(s) : s[i] = t[i]
  PROVE  s = t
  OBVIOUS

LEMMA SeqIs ==
  ASSUME NEW S, NEW n \in Nat, NEW s \in [1..n -> S]
  PROVE  s \in Seq(S) /\ Len(s) = n
  OBVIOUS

LEMMA JoinIs ==
  ASSUME NEW S, NEW s \in Seq(S), NEW t \in Seq(S), NEW u \in Seq(S), Len(u) = Len(s) + Len(t),
         \A i \in 1..Len(s) : u[i] = s[i],
         \A i \in 1..Len(t) : u[Len(s) + i] = t[i]
  PROVE  u = s \o t
<1>1. s \o t \in Seq(S) /\ Len(s \o t) = Len(s) + Len(t)
  OBVIOUS
<1>2. ASSUME NEW i \in 1..Len(u) PROVE u[i] = (s \o t)[i]
  <2>1. CASE i <= Len(s)
    BY <2>1
  <2>2. CASE i > Len(s)
    <3>1. i - Len(s) \in 1..Len(t) /\ Len(s) + (i - Len(s)) = i
      BY <2>2
    <3>2. (s \o t)[i] = t[i - Len(s)]
      BY <3>1, <2>2
    <3> QED  BY <3>1, <3>2
  <2> QED  BY <2>1, <2>2
<1> QED  BY <1>1, <1>2, SameSeq

LEMMA PrefixIs ==
  ASSUME NEW S, NEW s \in Seq(S), NEW t \in Seq(S), Len(t) <= Len(s),
         \A i \in 1..Len(t) : t[i] = s[i]
  PROVE  t = Fifo!Prefix(s, Len(t))
<1>1. Fifo!Prefix(s, Len(t)) \in Seq(S) /\ Len(Fifo!Prefix(s, Len(t))) = Len(t)
  BY DEF Fifo!Prefix
<1>2. \A i \in 1..Len(t) : Fifo!Prefix(s, Len(t))[i] = s[i]
  BY DEF Fifo!Prefix
<1> QED  BY <1>1, <1>2, SameSeq

LEMMA RemainderIs ==
  ASSUME NEW S, NEW s \in Seq(S), NEW t \in Seq(S), NEW n \in 0..Len(s), Len(t) = Len(s) - n,
         \A i \in 1..Len(t) : t[i] = s[n + i]
  PROVE  t = Fifo!Remainder(s, n)
<1>1. Fifo!Remainder(s, n) \in Seq(S) /\ Len(Fifo!Remainder(s, n)) = Len(t)
  BY DEF Fifo!Remainder
<1>2. \A i \in 1..Len(t) : Fifo!Remainder(s, n)[i] = s[n + i]
  BY DEF Fifo!Remainder
<1> QED  BY <1>1, <1>2, SameSeq

\* The queue stays the same if its elements do.
LEMMA SameQueue ==
  ASSUME Inv, Inv', count' = count, \A i \in 0..(count - 1) : buf'[At(i)'] = buf[At(i)]
  PROVE  Queue' = Queue
<1>1. /\ Queue \in Seq(Cell) /\ Len(Queue) = count
      /\ \A i \in 1..count : Queue[i] = buf[At(i - 1)]
  BY QueueIs DEF QueueOK
<1>2. /\ Queue' \in Seq(Cell) /\ Len(Queue') = count
      /\ \A i \in 1..count : Queue'[i] = buf'[At(i - 1)']
  BY QueueIsNext DEF QueueOK, Cell
<1>3. ASSUME NEW i \in 1..count PROVE Queue'[i] = Queue[i]
  <2>1. i - 1 \in 0..(count - 1)
    BY Fits DEF Inv
  <2> QED  BY <1>1, <1>2, <2>1
<1> QED  BY <1>1, <1>2, <1>3, SameSeq

-----------------------------------------------------------------------------
(* What each step is to the queue.                                         *)

LEMMA BeginOffers ==
  ASSUME Inv, Inv', NEW data \in BoundedSeq(Elem, MaxLen), NEW lag \in 0..wLag, WriteBegin(data, lag)
  PROVE  Fifo!Offer(data) /\ data \in BoundedSeq(Cell, MaxLen)
<1>1. wr.data = <<>> /\ wr'.data = data /\ UNCHANGED <<buf, capacity, readOffs, count, rd>>
  BY DEF WriteBegin, Inv, WriterOK, WrIdle
<1>2. UNCHANGED <<Queue, capacity, Got>>
  BY <1>1 DEF Queue, Oldest, Got
<1>3. data \in BoundedSeq(Cell, MaxLen)
  <2>1. data \in Seq(Elem) /\ Len(data) <= MaxLen
    BY BoundedSeqDef, MaxLenAssumption
  <2>2. data \in Seq(Cell)
    BY <2>1 DEF Cell
  <2> QED  BY <2>1, <2>2, BoundedSeqDef, MaxLenAssumption
<1> QED  BY <1>1, <1>2, <1>3 DEF Fifo!Offer, Queue, Got

LEMMA WriteCopyStutters ==
  ASSUME Inv, Inv', WriteCopy
  PROVE  UNCHANGED Fifo!vars
<1>0. /\ capacity \in Nat /\ capacity > 0 /\ count \in Nat /\ wLag \in Nat /\ wr.len \in Nat /\ wr.done \in Nat
      /\ wr.done < wr.len /\ count + wLag + wr.len <= capacity
      /\ wr.at = "copy" /\ wr.data # <<>>
  BY Fits DEF Inv, WriterOK, WriteCopy
<1>1. Slot(writeOffs, wr.len1, wr.done) = At(count + wr.done)
  BY <1>0, WriterSlot
<1>2. /\ buf' = [buf EXCEPT ![At(count + wr.done)] = wr.data[wr.done + 1]]
      /\ wr' = [wr EXCEPT !.done = wr.done + 1]
      /\ UNCHANGED <<capacity, readOffs, count, rd>>
  BY <1>1 DEF WriteCopy, Source
<1>3. ASSUME NEW i \in 0..(count - 1) PROVE buf'[At(i)'] = buf[At(i)]
  <2>1. At(i) # At(count + wr.done) /\ At(i) \in Slots
    <3>1. i \in 0..(capacity - 1) /\ count + wr.done \in 0..(capacity - 1) /\ i # count + wr.done
      BY <1>0
    <3> QED  BY <3>1, <1>0, Distinct
  <2>2. At(i)' = At(i)
    BY <1>2, SamePlaces
  <2> QED  BY <2>1, <2>2, <1>2 DEF Inv, Types, TypeOK
<1>4. Queue' = Queue
  BY <1>2, <1>3, SameQueue
<1>5. wr'.data = wr.data
  BY <1>2, Fits DEF Inv
<1> QED  BY <1>2, <1>4, <1>5 DEF Fifo!vars, Queue

LEMMA WritePublishPuts ==
  ASSUME Inv, Inv', WritePublish
  PROVE  \/ \E n \in 0..Len(wr.data) : Fifo!Put(n)
         \/ \E s \in BoundedSeq(Cell, capacity) : Fifo!Expose(s)
<1>0. /\ capacity \in Nat /\ capacity > 0 /\ count \in Nat /\ wLag \in Nat /\ wr.len \in Nat
      /\ wr.done = wr.len /\ count + wLag + wr.len <= capacity
      /\ wr.at = "moved" /\ (wr.data # <<>> => wr.len <= Len(wr.data))
  BY Fits DEF Inv, WriterOK, WritePublish
<1>n. PICK n \in Nat : n = wr.len
  BY <1>0
<1>s. PICK s : s = [i \in 1..n |-> buf[At(count + i - 1)]]
  OBVIOUS
<1>1. /\ count' = count + n /\ wr'.data = <<>>
      /\ UNCHANGED <<buf, capacity, readOffs, rd>>
  BY <1>n DEF WritePublish, WrIdle
<1>2. Oldest' = Oldest /\ \A i : At(i)' = At(i)
  BY <1>1, SamePlaces
<1>3. s \in Seq(Cell) /\ Len(s) = n /\ \A i \in 1..n : s[i] = buf[At(count + i - 1)]
  <2>1. ASSUME NEW i \in 1..n PROVE buf[At(count + i - 1)] \in Cell
    <3>1. count + i - 1 \in 0..(capacity - 1)
      BY <1>0, <1>n
    <3> QED  BY <3>1, <1>0, InSlots DEF Inv, Types, TypeOK
  <2>2. s \in [1..n -> Cell]
    BY <2>1, <1>s
  <2> QED  BY <2>2, <1>s, SeqIs
<1>4. Queue' = Queue \o s
  <2>1. Queue \in Seq(Cell) /\ Len(Queue) = count /\ \A i \in 1..count : Queue[i] = buf[At(i - 1)]
    BY QueueIs DEF QueueOK
  <2>2. /\ Queue' \in Seq(Cell) /\ Len(Queue') = count + n
        /\ \A i \in 1..(count + n) : Queue'[i] = buf[At(i - 1)]
    BY <1>1, <1>2, QueueIsNext DEF QueueOK, Cell
  <2>3. \A i \in 1..count : Queue'[i] = Queue[i]
    BY <1>0, <2>1, <2>2
  <2>4. ASSUME NEW i \in 1..n PROVE Queue'[count + i] = s[i]
    <3>1. PICK j \in 1..(count + n) : j = count + i
      BY <1>0
    <3>2. Queue'[j] = buf[At(j - 1)]
      BY <2>2
    <3>3. j - 1 = count + i - 1
      BY <1>0, <3>1
    <3>4. s[i] = buf[At(j - 1)]
      BY <1>3, <3>3
    <3> QED  BY <3>1, <3>2, <3>4
  <2> QED  BY <1>3, <2>1, <2>2, <2>3, <2>4, JoinIs
<1>5. Got' = Got
  BY <1>1 DEF Got
<1>6. CASE wr.data = <<>>
  <2>1. s \in BoundedSeq(Cell, capacity)
    BY <1>0, <1>n, <1>3, BoundedSeqDef
  <2>2. Len(Queue) + Len(s) <= capacity
    BY <1>0, <1>n, <1>3, QueueIs DEF QueueOK
  <2>3. Fifo!Expose(s)
    BY <1>1, <1>4, <1>5, <1>6, <2>2 DEF Fifo!Expose, Queue, Got
  <2> QED  BY <2>1, <2>3
<1>7. CASE wr.data # <<>>
  <2>1. wr.data \in Seq(Elem) /\ n \in 0..Len(wr.data)
    BY <1>0, <1>n, <1>7, Fits DEF Inv
  <2>2. s = Fifo!Prefix(wr.data, n)
    <3>1. ASSUME NEW i \in 1..n PROVE s[i] = wr.data[i]
      <4>1. i - 1 \in 0..(wr.done - 1) /\ count + (i - 1) = count + i - 1 /\ (i - 1) + 1 = i
        BY <1>0, <1>n
      <4>2. buf[At(count + (i - 1))] = wr.data[(i - 1) + 1]
        BY <4>1, <1>0, <1>7 DEF Inv, Contents
      <4> QED  BY <1>3, <4>1, <4>2
    <3>2. wr.data \in Seq(Cell)
      BY <2>1 DEF Cell
    <3> QED  BY <1>3, <2>1, <3>1, <3>2, PrefixIs
  <2>3. Len(Queue) + n <= capacity
    BY <1>0, <1>n, QueueIs DEF QueueOK
  <2>4. Fifo!Put(n)
    <3>1. Queue' = Queue \o Fifo!Prefix(wr.data, n)
      BY <1>4, <2>2
    <3>2. n <= Len(wr.data)
      BY <2>1
    <3> QED  BY <1>1, <1>5, <2>3, <3>1, <3>2 DEF Fifo!Put, Queue, Got
  <2> QED  BY <2>1, <2>4
<1> QED  BY <1>6, <1>7

LEMMA PeekReturnPeeks ==
  ASSUME Inv, Inv', PeekReturn
  PROVE  \E n \in 0..Len(Queue) : Fifo!Peek(n)
<1>0. /\ capacity \in Nat /\ count \in 0..capacity /\ rLag \in Nat /\ rd.len \in Nat /\ rLag + rd.len <= count
      /\ rd.at = "copy" /\ rd.fn = "peek" /\ Copied
      /\ rd.data \in Seq(Cell)
  BY Fits DEF Inv, ReaderOK, PeekReturn
<1>n. PICK n \in Nat : n = rd.len
  BY <1>0
<1>1. Len(rd.data) = n
  BY <1>0, <1>n DEF Copied
<1>2. Queue \in Seq(Cell) /\ Len(Queue) = count /\ \A i \in 1..count : Queue[i] = buf[At(i - 1)]
  BY QueueIs DEF QueueOK
<1>4. n <= count
  BY <1>0, <1>n
<1>3. ASSUME NEW i \in 1..n PROVE rd.data[i] = Queue[i]
  <2>1. i \in 1..Len(rd.data) /\ i \in 1..count
    BY <1>0, <1>1, <1>4
  <2>2. rd.data[i] = buf[At(i - 1)]
    BY <1>0, <2>1 DEF Inv, Contents
  <2> QED  BY <1>2, <2>1, <2>2
<1>5. rd.data = Fifo!Prefix(Queue, n)
  BY <1>0, <1>1, <1>2, <1>3, <1>4, PrefixIs
<1>6. Got' = rd.data /\ UNCHANGED <<Queue, capacity, wr>>
  BY <1>0 DEF PeekReturn, RdIdle, Got, Queue, Oldest
<1>7. Fifo!Peek(n)
  <2>1. Got' = Fifo!Prefix(Queue, n) /\ n <= Len(Queue)
    BY <1>2, <1>4, <1>5, <1>6
  <2> QED  BY <1>6, <2>1 DEF Fifo!Peek, Queue, Got
<1> QED  BY <1>2, <1>4, <1>7

LEMMA ReadMoveStutters ==
  ASSUME Inv, Inv', ReadMove
  PROVE  UNCHANGED Fifo!vars
<1>0. /\ capacity \in Nat /\ capacity > 0
      /\ rd.len \in 0..capacity /\ readOffs \in 0..(capacity - 1) /\ rd.at = "copy"
  BY Fits DEF Inv, ReaderOK, ReadMove
<1>1. readOffs' = (readOffs + rd.len) % capacity
  BY <1>0, Around DEF Inv, ReadMove
<1>2. rd'.at = "moved" /\ rd'.len = rd.len /\ UNCHANGED <<buf, capacity, count, wr>>
  BY Fits DEF ReadMove, Inv
<1>3. Oldest' = Oldest
  <2>1. (readOffs' - rd.len) % capacity = readOffs
    BY <1>0, <1>1, ModBack
  <2> QED  BY <2>1, <1>0, <1>2 DEF Oldest
<1> QED  BY <1>0, <1>2, <1>3 DEF Fifo!vars

LEMMA ReadPublishTakes ==
  ASSUME Inv, Inv', ReadPublish
  PROVE  \E n \in 0..Len(Queue) : Fifo!Take(n) \/ Fifo!Discard(n)
<1>0. /\ capacity \in Nat /\ capacity > 0 /\ count \in 0..capacity /\ rLag \in Nat
      /\ rd.len \in Nat /\ rLag + rd.len <= count
      /\ rd.at = "moved" /\ Copied /\ rd.data \in Seq(Cell)
      /\ (rd.fn = "advanceRead" => rd.data = <<>>)
  BY Fits DEF Inv, ReaderOK, ReadPublish
<1>n. PICK n \in Nat : n = rd.len
  BY <1>0
<1>1. /\ rd'.at = "idle" /\ rd'.data = rd.data /\ count' = count - n
      /\ UNCHANGED <<buf, capacity, wr>>
  BY <1>n DEF ReadPublish, RdIdle
<1>2. Queue \in Seq(Cell) /\ Len(Queue) = count /\ \A i \in 1..count : Queue[i] = buf[At(i - 1)]
  BY QueueIs DEF QueueOK
<1>3. n <= count
  BY <1>0, <1>n
<1>4. Queue' = Fifo!Remainder(Queue, n)
  <2>1. Queue' \in Seq(Cell) /\ Len(Queue') = count - n
    BY <1>1, QueueIsNext DEF QueueOK, Cell
  <2>2. ASSUME NEW i \in 1..(count - n) PROVE Queue'[i] = Queue[n + i]
    <3>1. i - 1 \in 0..(capacity - rd.len) /\ rd.len + (i - 1) = n + i - 1 /\ n + i \in 1..count
      BY <1>0, <1>n, <1>3
    <3>2. (Oldest' + (i - 1)) % capacity = At(n + i - 1)
      BY <3>1, Published
    <3>3. Queue'[i] = buf[(Oldest' + (i - 1)) % capacity]
      <4>1. i \in 1..count' /\ \A j \in 1..count' : Queue'[j] = buf'[At(j - 1)']
        BY <1>1, QueueIsNext DEF QueueOK
      <4> QED  BY <4>1, <1>1 DEF At
    <3> QED  BY <3>1, <3>2, <3>3, <1>2
  <2>3. n \in 0..Len(Queue) /\ Len(Queue') = Len(Queue) - n
    BY <1>0, <1>2, <1>3, <2>1
  <2>4. \A i \in 1..Len(Queue') : Queue'[i] = Queue[n + i]
    BY <2>1, <2>2
  <2> QED  BY <1>2, <2>1, <2>3, <2>4, RemainderIs
<1>5. Got = <<>> /\ Got' = rd.data
  BY <1>0, <1>1 DEF Got
<1>6. CASE rd.fn = "advanceRead"
  <2>1. Fifo!Discard(n)
    <3>1. Got' = Got /\ n <= Len(Queue)
      BY <1>0, <1>2, <1>3, <1>5, <1>6
    <3> QED  BY <1>1, <1>4, <3>1 DEF Fifo!Discard, Queue, Got
  <2> QED  BY <2>1, <1>2, <1>3
<1>7. CASE rd.fn # "advanceRead"
  <2>1. Len(rd.data) = n
    BY <1>0, <1>n, <1>7 DEF Copied
  <2>2. \A i \in 1..n : rd.data[i] = Queue[i]
    BY <1>0, <1>2, <1>3, <2>1 DEF Inv, Contents
  <2>3. rd.data = Fifo!Prefix(Queue, n)
    BY <1>0, <1>2, <1>3, <2>1, <2>2, PrefixIs
  <2>4. Fifo!Take(n)
    <3>1. Got' = Fifo!Prefix(Queue, n) /\ n <= Len(Queue)
      BY <1>2, <1>3, <1>5, <2>3
    <3> QED  BY <1>1, <1>4, <3>1 DEF Fifo!Take, Queue, Got
  <2> QED  BY <2>4, <1>2, <1>3
<1> QED  BY <1>6, <1>7

LEMMA ClearDiscards ==
  ASSUME Inv, Inv', Clear
  PROVE  \E n \in 0..Len(Queue) : Fifo!Discard(n)
<1>n. PICK n \in Nat : n = count
  BY Fits DEF Inv
<1>1. count' = 0 /\ UNCHANGED <<capacity, rd, wr>>
  BY DEF Clear
<1>2. Queue \in Seq(Cell) /\ Len(Queue) = n
  BY <1>n, QueueIs DEF QueueOK
<1>3. Queue' = Fifo!Remainder(Queue, n)
  <2>1. Queue' \in Seq(Cell) /\ Len(Queue') = 0
    BY <1>1, QueueIsNext DEF QueueOK, Cell
  <2>2. PICK t \in Seq(Cell) : t = Queue'
    BY <2>1
  <2>3. PICK s \in Seq(Cell) : s = Queue
    BY <1>2
  <2>4. n \in 0..Len(s) /\ Len(t) = Len(s) - n /\ \A i \in 1..Len(t) : t[i] = s[n + i]
    BY <1>2, <2>1, <2>2, <2>3
  <2>5. t = Fifo!Remainder(s, n)
    BY <2>4, RemainderIs
  <2> QED  BY <2>2, <2>3, <2>5
<1>4. Fifo!Discard(n)
  <2>1. Got' = Got /\ n <= Len(Queue)
    BY <1>1, <1>2 DEF Got
  <2> QED  BY <1>1, <1>3, <2>1 DEF Fifo!Discard, Queue, Got
<1> QED  BY <1>2, <1>4

LEMMA SameBounds == ASSUME NEW S, NEW n PROVE Fifo!BoundedSeq(S, n) = BoundedSeq(S, n)
BY DEF BoundedSeq, SeqOf, Fifo!BoundedSeq, Fifo!SeqOf

LEMMA InitFifo == Init => Fifo!Init
<1> SUFFICES ASSUME Init PROVE Fifo!Init
  OBVIOUS
<1>1. Queue = <<>>
  <2>1. Queue \in Seq(Cell) /\ Len(Queue) = 0
    BY InitInv, QueueIs DEF QueueOK, Init
  <2> QED  BY <2>1
<1>2. wr.data = <<>> /\ Got = <<>> /\ capacity \in Capacities
  BY DEF Init, WrIdle, RdIdle, Got
<1> QED  BY <1>1, <1>2 DEF Fifo!Init, Queue, Got

LEMMA StepFifo == Inv /\ Inv' /\ [Next]_vars => [Fifo!Next]_(Fifo!vars)
<1> SUFFICES ASSUME Inv, Inv', [Next]_vars PROVE Fifo!Next \/ UNCHANGED Fifo!vars
  OBVIOUS
<1>1. ASSUME NEW lag \in 0..wLag, NEW data \in BoundedSeq(Elem, MaxLen), WriteBegin(data, lag)
      PROVE  Fifo!Next
  BY <1>1, BeginOffers, SameBounds DEF Fifo!Next
<1>2. ASSUME NEW lag \in 0..wLag, NEW n \in 0..MaxLen, AdvanceWriteBegin(n, lag)
      PROVE  UNCHANGED Fifo!vars
  <2>1. wr.data = <<>> /\ wr'.data = <<>> /\ UNCHANGED <<buf, capacity, readOffs, count, rd>>
    BY <1>2 DEF AdvanceWriteBegin, Inv, WriterOK, WrIdle
  <2> QED  BY <2>1 DEF Fifo!vars, Oldest
<1>3. CASE WriteCopy
  BY <1>3, WriteCopyStutters
<1>4. CASE WriteMove
  <2>1. wr'.data = wr.data /\ UNCHANGED <<buf, capacity, readOffs, count, rd>>
    BY <1>4, Fits DEF WriteMove, Inv
  <2> QED  BY <2>1 DEF Fifo!vars, Oldest
<1>5. CASE WritePublish
  BY <1>5, WritePublishPuts, SameBounds DEF Fifo!Next
<1>6. ASSUME NEW lag \in 0..rLag, NEW n \in 0..MaxLen, NEW fn \in {"read", "advanceRead", "peek"},
             ReadBegin(fn, n, lag)
      PROVE  Fifo!Next
  <2>1. rd.at = "idle" /\ rd'.at = "copy" /\ UNCHANGED <<buf, capacity, readOffs, count, wr>>
    BY <1>6 DEF ReadBegin
  <2>2. Fifo!Ask
    BY <2>1 DEF Fifo!Ask, Oldest
  <2> QED  BY <2>2 DEF Fifo!Next
<1>7. CASE ReadCopy
  <2>1. rd.at = "copy" /\ rd'.at = "copy" /\ UNCHANGED <<buf, capacity, readOffs, count, wr>>
    BY <1>7, Fits DEF ReadCopy, Inv
  <2> QED  BY <2>1 DEF Fifo!vars, Oldest
<1>8. CASE PeekReturn
  BY <1>8, PeekReturnPeeks DEF Fifo!Next, Queue
<1>9. CASE ReadMove
  BY <1>9, ReadMoveStutters
<1>10. CASE ReadPublish
  BY <1>10, ReadPublishTakes DEF Fifo!Next, Queue
<1>11. CASE Clear
  BY <1>11, ClearDiscards DEF Fifo!Next, Queue
<1>12. CASE Trap
  BY <1>12 DEF Trap, Fifo!vars, Oldest
<1>13. CASE UNCHANGED vars
  BY <1>13 DEF vars, Fifo!vars, Oldest
<1> QED
  BY <1>1, <1>2, <1>3, <1>4, <1>5, <1>6, <1>7, <1>8, <1>9, <1>10, <1>11, <1>12, <1>13
  DEF Next, Writer, Reader

\* Whatever the capacities, lengths and elements: between one writer and one
\* reader the ring buffer is a queue.  Every element written comes out once,
\* in the order of the writes.
THEOREM IsFifo == Spec => ImplementsFifo
<1>1. Init => Fifo!Init
  BY InitFifo
<1>2. Inv /\ Inv' /\ [Next]_vars => [Fifo!Next]_(Fifo!vars)
  BY StepFifo
<1> QED  BY <1>1, <1>2, Invariance, PTL DEF Spec, ImplementsFifo, Fifo!Spec

=============================================================================
