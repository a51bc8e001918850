-------------------------- MODULE RangedStreambuf --------------------------
(***************************************************************************)
(* A RangedStreambuf (stream/RangedStreambuf.h): a window on a backend     *)
(* stream, from where the backend stands at construction.  The backend is  *)
(* a file buffer, which has one position; the window is read or written.   *)
(* A character is the place in the backend where it stands.                *)
(***************************************************************************)
EXTENDS Integers, FiniteSetsExt, SequencesExt

CONSTANTS MaxBackend,      \* bounds: the backend's size,
          MaxRead,         \*   the longest read or write
          NegativeSeeks    \* whether positions before the window are sought

ASSUME BoundsAssumption == MaxBackend \in Nat /\ MaxRead \in Nat \ {0} /\ NegativeSeeks \in BOOLEAN

VARIABLES
    backendSize, backendPos,   \* the backend
    mode, startPos, maxWrite,
    curReadPos, curWritePos,
    got,                       \* what the last read returned
    written                    \* the places that have been written

windowVars == <<backendSize, backendPos, mode, startPos, maxWrite, curReadPos, curWritePos, got, written>>

fixed == <<mode, startPos, maxWrite>>
Offsets == -(MaxBackend + 1)..(MaxBackend + 1)
CurPos == IF mode = "in" THEN curReadPos ELSE curWritePos

WindowTypeOK ==
    /\ mode \in {"in", "out"}
    /\ curReadPos \in 0..maxWrite /\ curWritePos \in 0..maxWrite
    /\ Len(got) <= MaxRead

WindowInit ==
    /\ backendSize \in 0..MaxBackend
    /\ backendPos \in 0..backendSize
    /\ mode \in {"in", "out"}
    /\ startPos = backendPos
    /\ maxWrite \in 0..MaxBackend
    /\ curReadPos = 0 /\ curWritePos = 0
    /\ got = <<>>
    /\ written = {}

-----------------------------------------------------------------------------
\* Mutant: the position of the window does not move with what was read.
NotCounted(n) == curReadPos

ReadPosAfter(n) == curReadPos + n

Chars(from, n) == [i \in 1..Max({0, Min({n, backendSize - from})}) |-> from + i - 1]

Transfer(chars) ==
    /\ got' = chars
    /\ backendPos' = backendPos + Len(chars)
    /\ curReadPos' = ReadPosAfter(Len(chars))
    /\ UNCHANGED <<fixed, backendSize, curWritePos, written>>

\* Mutant: a block may be as long as the window, wherever it begins.
WholeWindow(n, cur) == Min({n, maxWrite})

InRange(n, cur) == Min({n, maxWrite - cur})

xsgetn(n) == mode = "in" /\ Transfer(Chars(backendPos, InRange(n, curReadPos)))

uflow ==
    /\ mode = "in"
    /\ IF curReadPos >= maxWrite THEN Transfer(<<>>) ELSE Transfer(Chars(backendPos, 1))

underflow ==
    /\ mode = "in"
    /\ got' = IF curReadPos >= maxWrite THEN <<>> ELSE Chars(backendPos, 1)
    /\ UNCHANGED <<fixed, backendSize, backendPos, curReadPos, curWritePos, written>>

(* putback(c) of the character that was read; the first places of a window *)
(* that does not begin at the backend's beginning are refused.             *)
pbackfail ==
    /\ mode = "in"
    /\ curReadPos > startPos
    /\ backendPos' = backendPos - 1 /\ curReadPos' = curReadPos - 1
    /\ got' = <<>>
    /\ UNCHANGED <<fixed, backendSize, curWritePos, written>>

Put(n) ==
    /\ written' = written \cup backendPos..(backendPos + n - 1)
    /\ backendPos' = backendPos + n
    /\ backendSize' = Max({backendSize, backendPos'})
    /\ curWritePos' = curWritePos + n
    /\ UNCHANGED <<fixed, curReadPos, got>>

xsputn(n) == mode = "out" /\ Put(InRange(n, curWritePos))

(* sputc() is the only caller, and it always hands over a character: the   *)
(* branch for eof is not reached.                                          *)
overflow == mode = "out" /\ curWritePos < maxWrite /\ Put(1)

-----------------------------------------------------------------------------
(* The backend refuses negative positions, and says so by -1.              *)
BackendSeek(p) == backendPos' = IF p >= 0 THEN p ELSE backendPos
BackendAnswer(p) == IF p >= 0 THEN p ELSE -1

\* Mutant: positions are those of the backend.
Absolute(p) == p

ToBackend(p) == startPos + p

(* Sets both positions, whatever the mode (`mode | in').                   *)
SeekTo(p) ==
    /\ p <= maxWrite   \* otherwise an exception
    /\ curReadPos' = p /\ curWritePos' = p
    /\ BackendSeek(ToBackend(p))
    /\ got' = <<>>
    /\ UNCHANGED <<fixed, backendSize, written>>

seekpos(p) ==
    /\ p >= 0 \/ NegativeSeeks
    /\ SeekTo(p)

seekoffEnd(off) ==
    /\ maxWrite + off >= 0 \/ NegativeSeeks
    /\ SeekTo(maxWrite + off)

\* Mutant: only the end of the window is a bound.
Below(p) == p <= maxWrite

InBounds(p) == p >= 0 /\ p <= maxWrite

(* The backend's answer, not the offset, is what moves the position.       *)
seekoffCur(off) ==
    LET moved == BackendAnswer(backendPos + off) - (startPos + CurPos)
    IN  /\ InBounds(off + CurPos)   \* otherwise an exception
        /\ BackendSeek(backendPos + off)
        /\ IF mode = "in"
           THEN curReadPos' = curReadPos + moved /\ UNCHANGED curWritePos
           ELSE curWritePos' = curWritePos + moved /\ UNCHANGED curReadPos
        /\ got' = <<>>
        /\ UNCHANGED <<fixed, backendSize, written>>

WindowNext ==
    \/ uflow \/ underflow \/ pbackfail \/ overflow
    \/ \E n \in 0..MaxRead : xsgetn(n) \/ xsputn(n)
    \/ \E off \in Offsets : seekpos(off) \/ seekoffEnd(off) \/ seekoffCur(off)

WindowSpec == WindowInit /\ [][WindowNext]_windowVars

-----------------------------------------------------------------------------
(* The backend stands where the window's own position says: neither is     *)
(* ever asked for, so that they must move together.                        *)
Synced == backendPos = startPos + CurPos

(* The window is never left, and nothing outside of it is written.         *)
InWindow ==
    /\ backendPos \in startPos..(startPos + maxWrite)
    /\ written \subseteq startPos..(startPos + maxWrite - 1)

(* To its reader the window is a stream of its own (to a writer, an empty  *)
(* one).                                                                   *)
Stream == INSTANCE InputStream WITH
    chars <- IF mode = "in" THEN Chars(startPos, maxWrite) ELSE <<>>,
    bound <- maxWrite, pos <- curReadPos, got <- got
ReadsWindow == Stream!Spec
=============================================================================
