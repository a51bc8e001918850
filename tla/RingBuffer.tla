----------------------------- MODULE RingBuffer -----------------------------
(***************************************************************************)
(* nxcommon/RingBuffer.h and its C twin ringbuf.c: a queue between one     *)
(* writer thread and one reader thread, without locks.  Every copied       *)
(* element, every offset and every atomic access is a step of its own, so  *)
(* the two threads interleave anywhere.                                    *)
(*                                                                         *)
(* The one atomic is mcount.  Its loads acquire, its additions and         *)
(* subtractions release.  A load need not return the latest value: it may  *)
(* miss what the other thread has published since this thread last saw it. *)
(* wLag is how many elements have been read that the writer does not know  *)
(* to be read, rLag how many have been written that the reader does not    *)
(* know to be there.  A thread's own addition or subtraction acts on the   *)
(* latest value, and its later loads return nothing older.                 *)
(***************************************************************************)
EXTENDS Integers, Sequences, SequencesExt

CONSTANTS
    Elem,        \* the elements written
    Junk,        \* what an uninitialised slot holds
    Capacities,  \* 0 stands for a null RingBuffer
    MaxLen,      \* the longest write, read, peek and skip asked for
    MaxSize      \* the largest SizeType

ASSUME JunkAssumption == Junk \notin Elem
ASSUME MaxLenAssumption == MaxLen \in Nat
\* The sum of an offset and a length fits into a SizeType.
ASSUME CapacitiesAssumption ==
    /\ MaxSize \in Nat
    /\ Capacities \subseteq Nat
    /\ \A c \in Capacities : 2 * c <= MaxSize + 1

VARIABLES
    buf, capacity, readOffs, writeOffs, count,
    wLag, rLag,  \* what the writer, and the reader, may not have seen yet
    wr,          \* the writer's call in progress
    rd,          \* the reader's call in progress, or what the last returned
    trapped      \* a division by zero has ended the program

vars == <<buf, capacity, readOffs, writeOffs, count, wLag, rLag, wr, rd, trapped>>

Cell  == Elem \cup {Junk}
Slots == 0..(capacity - 1)

\* Between calls.
WrIdle == [at |-> "idle", data |-> <<>>, len |-> 0, len1 |-> 0, done |-> 0]
RdIdle(data) == [at |-> "idle", fn |-> "none", data |-> data, len |-> 0, len1 |-> 0]

\* A null RingBuffer has capacity 0, its readOffs is 1, and its constructor
\* leaves writeOffs uninitialised.
Init ==
    /\ capacity \in Capacities
    /\ buf = [i \in Slots |-> Junk]
    /\ readOffs = IF capacity = 0 THEN 1 ELSE 0
    /\ writeOffs \in IF capacity = 0 THEN 0..MaxSize ELSE {0}
    /\ count = 0
    /\ wLag = 0 /\ rLag = 0
    /\ wr = WrIdle
    /\ rd = RdIdle(<<>>)
    /\ trapped = FALSE

IsNull == readOffs > capacity

Wrapped(n)  == n % (MaxSize + 1)
Least(a, b) == IF a < b THEN a ELSE b

\* Where the i-th element (from 0) goes: len1 elements up to the end of the
\* buffer, the others from its start on.
Slot(offs, len1, i) == IF i < len1 THEN offs + i ELSE i - len1

BadNextOffs(offs, len) == IF offs + len > capacity THEN offs + len - capacity ELSE offs + len
NextOffs(offs, len)    == Wrapped(offs + len) % capacity

UpToEnd(offs) == Wrapped(capacity - offs)

-----------------------------------------------------------------------------
(* The writer: write() and advanceWrite().                                 *)

\* writeSize(), with a count that may be old.
BadWriteSize(seen) == capacity - seen + 1
WriteSize(seen)    == capacity - seen

\* The load of mcount that starts a call, missing `lag' elements.
BadLoadW(lag) == lag \in 0..wLag /\ UNCHANGED wLag
LoadW(lag)    == lag \in 0..wLag /\ wLag' = lag

StaleWriteSize(lag) == WriteSize(count + lag)

WriteBegin(data, lag) ==
    /\ wr.at = "idle"
    /\ LoadW(lag)
    /\ LET len == Least(Len(data), StaleWriteSize(lag)) IN
       wr' = [at |-> "copy", data |-> data, len |-> len,
              len1 |-> Least(len, UpToEnd(writeOffs)), done |-> 0]
    /\ UNCHANGED <<buf, capacity, readOffs, writeOffs, count, rLag, rd, trapped>>

AdvanceWriteBegin(n, lag) ==
    /\ wr.at = "idle"
    /\ LoadW(lag)
    /\ LET len == Least(n, StaleWriteSize(lag)) IN
       wr' = [at |-> "copy", data |-> <<>>, len |-> len, len1 |-> 0, done |-> len]
    /\ UNCHANGED <<buf, capacity, readOffs, writeOffs, count, rLag, rd, trapped>>

\* One element of the two memcpys.
BadSource(i) == IF i < wr.len1 THEN i + 1 ELSE i - wr.len1 + 1
Source(i)    == i + 1

WriteCopy ==
    /\ wr.at = "copy"
    /\ wr.done < wr.len
    /\ buf' = [buf EXCEPT ![Slot(writeOffs, wr.len1, wr.done)] = wr.data[Source(wr.done)]]
    /\ wr' = [wr EXCEPT !.done = wr.done + 1]
    /\ UNCHANGED <<capacity, readOffs, writeOffs, count, wLag, rLag, rd, trapped>>

WriteMove ==
    /\ wr.at = "copy"
    /\ wr.done = wr.len
    /\ capacity > 0
    /\ writeOffs' = NextOffs(writeOffs, wr.len)
    /\ wr' = [wr EXCEPT !.at = "moved"]
    /\ UNCHANGED <<buf, capacity, readOffs, count, wLag, rLag, rd, trapped>>

\* The addition to mcount, and the return.
WritePublish ==
    /\ wr.at = "moved"
    /\ count' = count + wr.len
    /\ rLag' = rLag + wr.len
    /\ wLag' = 0
    /\ wr' = WrIdle
    /\ UNCHANGED <<buf, capacity, readOffs, writeOffs, rd, trapped>>

-----------------------------------------------------------------------------
(* The reader: read(), advanceRead() (skip()) and peek().                  *)

LoadR(lag) == lag \in 0..rLag /\ rLag' = lag

\* readSize(), with a count that may be old.
ReadSize(lag) == count - lag

ReadBegin(fn, n, lag) ==
    /\ rd.at = "idle"
    /\ LoadR(lag)
    /\ LET len == Least(n, ReadSize(lag)) IN
       rd' = [at |-> "copy", fn |-> fn, data |-> <<>>, len |-> len,
              len1 |-> Least(len, UpToEnd(readOffs))]
    /\ UNCHANGED <<buf, capacity, readOffs, writeOffs, count, wLag, wr, trapped>>

Copied == rd.fn = "advanceRead" \/ Len(rd.data) = rd.len

ReadCopy ==
    /\ rd.at = "copy"
    /\ ~Copied
    /\ rd' = [rd EXCEPT !.data =
                 Append(rd.data, buf[Slot(readOffs, rd.len1, Len(rd.data))])]
    /\ UNCHANGED <<buf, capacity, readOffs, writeOffs, count, wLag, rLag, wr, trapped>>

PeekReturn ==
    /\ rd.at = "copy"
    /\ rd.fn = "peek"
    /\ Copied
    /\ rd' = RdIdle(rd.data)
    /\ UNCHANGED <<buf, capacity, readOffs, writeOffs, count, wLag, rLag, wr, trapped>>

ReadMove ==
    /\ rd.at = "copy"
    /\ rd.fn # "peek"
    /\ Copied
    /\ capacity > 0
    /\ readOffs' = NextOffs(readOffs, rd.len)
    /\ rd' = [rd EXCEPT !.at = "moved"]
    /\ UNCHANGED <<buf, capacity, writeOffs, count, wLag, rLag, wr, trapped>>

\* The subtraction from mcount, and the return.
ReadPublish ==
    /\ rd.at = "moved"
    /\ count' = count - rd.len
    /\ wLag' = wLag + rd.len
    /\ rLag' = 0
    /\ rd' = RdIdle(rd.data)
    /\ UNCHANGED <<buf, capacity, readOffs, writeOffs, wr, trapped>>

-----------------------------------------------------------------------------

\* clear(), which neither thread may run in parallel with: whoever calls it
\* has waited for both, and both wait for it.
Clear ==
    /\ wr.at = "idle" /\ rd.at = "idle"
    /\ readOffs' = 0
    /\ writeOffs' = 0
    /\ count' = 0
    /\ wLag' = 0 /\ rLag' = 0
    /\ UNCHANGED <<buf, capacity, wr, rd, trapped>>

\* "% mcapacity" in a buffer of capacity 0.
Trap ==
    /\ capacity = 0
    /\ \/ wr.at = "copy" /\ wr.done = wr.len
       \/ rd.at = "copy" /\ rd.fn # "peek" /\ Copied
    /\ trapped' = TRUE
    /\ UNCHANGED <<buf, capacity, readOffs, writeOffs, count, wLag, rLag, wr, rd>>

Writer ==
    \/ \E lag \in 0..wLag :
          \/ \E data \in BoundedSeq(Elem, MaxLen) : WriteBegin(data, lag)
          \/ \E n \in 0..MaxLen : AdvanceWriteBegin(n, lag)
    \/ WriteCopy \/ WriteMove \/ WritePublish

Reader ==
    \/ \E lag \in 0..rLag, n \in 0..MaxLen, fn \in {"read", "advanceRead", "peek"} :
          ReadBegin(fn, n, lag)
    \/ ReadCopy \/ PeekReturn \/ ReadMove \/ ReadPublish

Next == ~trapped /\ (Writer \/ Reader \/ Clear \/ Trap)

Spec == Init /\ [][Next]_vars

-----------------------------------------------------------------------------
(* What has to hold.                                                       *)

WriteCall == [at   : {"idle", "copy", "moved"},
              data : BoundedSeq(Elem, MaxLen),
              len  : 0..MaxLen,
              len1 : 0..MaxLen,
              done : 0..MaxLen]

ReadCall == [at   : {"idle", "copy", "moved"},
             fn   : {"none", "read", "advanceRead", "peek"},
             data : BoundedSeq(Cell, MaxLen),
             len  : 0..MaxLen,
             len1 : 0..MaxLen]

TypeOK ==
    /\ capacity \in Capacities
    /\ buf \in [Slots -> Cell]
    /\ capacity > 0 => readOffs \in Slots /\ writeOffs \in Slots
    /\ count \in 0..capacity
    /\ wLag \in 0..capacity
    /\ rLag \in 0..capacity
    /\ wr \in WriteCall
    /\ rd \in ReadCall
    /\ trapped \in BOOLEAN

\* The oldest element, and the first free slot, by the calls that have
\* returned: an offset moves before mcount does.
Oldest == IF rd.at = "moved" THEN (readOffs - rd.len) % capacity ELSE readOffs
FirstFree == IF wr.at = "moved" THEN (writeOffs - wr.len) % capacity ELSE writeOffs

From(start, n) == {(start + i) % capacity : i \in 0..(n - 1)}

\* Two offsets and a count, each written by another thread or at another
\* time, always describe one and the same stretch of the buffer; and what
\* either thread missed can at worst make its buffer look too full, or too
\* empty (writeSize() and readSize() never wrap).
OffsetsAgree ==
    /\ capacity > 0 => FirstFree = (Oldest + count) % capacity
    /\ count + wLag <= capacity
    /\ rLag <= count

\* The slots a call in progress accesses.
Writing == IF wr.at = "copy" /\ wr.data # <<>>
           THEN {Slot(writeOffs, wr.len1, i) : i \in 0..(wr.len - 1)} ELSE {}
Reading == IF rd.at = "copy" /\ rd.fn # "advanceRead"
           THEN {Slot(readOffs, rd.len1, i) : i \in 0..(rd.len - 1)} ELSE {}

\* No data race: the writer stays away from the slots the reader is reading
\* or has read without the writer having seen it, and the reader reads only
\* slots whose publication it has seen.
NoRace ==
    capacity > 0 =>
        /\ Writing \cap (Reading \cup From(Oldest - wLag, wLag)) = {}
        /\ Reading \subseteq From(Oldest, count - rLag)

\* "A ring buffer implements a queue": every element written comes out once,
\* in order, wherever the copying wraps around and the threads interleave.
Fifo == INSTANCE BoundedFifo WITH
    Elem  <- Cell,
    queue <- [i \in 1..count |-> buf[(Oldest + i - 1) % capacity]],
    offer <- wr.data,
    got   <- IF rd.at = "idle" THEN rd.data ELSE <<>>

ImplementsFifo == Fifo!Spec

\* RingBuffer.h:124-126: capacity and count are enough to make "all modifying
\* members of this class no-ops" on a null RingBuffer.
NullIsNoOp == ~trapped

\* The same comment, of isNull(): a null RingBuffer stays one.
NullStaysNull == [][IsNull => IsNull']_vars

=============================================================================
