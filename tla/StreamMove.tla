----------------------------- MODULE StreamMove -----------------------------
(***************************************************************************)
(* StreamMove() (stream/streamutil.cpp): moves `len' characters from the   *)
(* get position of an iostream to `toPos', in chunks of the buffer.  The   *)
(* regions may overlap, the target may go past the end of the stream, and  *)
(* the source may, in which case the stream fails.                         *)
(*                                                                         *)
(* A character of the stream is the place where it stood at the beginning, *)
(* or Hole for what a file has between its old end and a write behind it.  *)
(***************************************************************************)
EXTENDS Integers, FiniteSetsExt

CONSTANTS Buffer,      \* sizeof(buf): 32768 in the code
          MaxSize,     \* bounds: the size of the stream,
          MaxLen       \*   the length of the move

ASSUME BufferAssumption == Buffer \in Nat \ {0} /\ MaxSize \in Nat /\ MaxLen \in Nat

VARIABLES
    file,                     \* a file stream reads and writes at one position and may
                              \* be positioned behind its end; a string stream not
    size, content,            \* the stream: place -> character
    getPos, putPos, fail,     \* its positions and its state
    fromStart, toStart, len,  \* the call
    buf,                      \* what the last read() put into the buffer
    numMoved, pc

vars == <<file, size, content, getPos, putPos, fail, fromStart, toStart, len, buf, numMoved, pc>>

Hole == -1
Places == 0..(MaxSize + MaxLen)
Original == [p \in 0..(size - 1) |-> p]   \* at Init

TypeOK ==
    /\ DOMAIN content = 0..(size - 1)
    /\ {getPos, putPos, fromStart, toStart} \subseteq Places
    /\ numMoved \in 0..len
    /\ pc \in {"read", "write", "seek", "returned"}

Init ==
    /\ file \in BOOLEAN
    /\ size \in 0..MaxSize
    /\ content = Original
    /\ fromStart \in 0..size /\ toStart \in 0..size /\ len \in 0..MaxLen
    /\ getPos = fromStart
    /\ putPos \in IF file THEN {getPos} ELSE {0, size}
    /\ fail = FALSE
    /\ buf = <<>>
    /\ numMoved = 0
    /\ pc = IF fromStart = toStart \/ len = 0 THEN "returned" ELSE "read"

\* Mutant: the test for overlapping regions forgets the length.
OverlapsByOne == toStart = fromStart + 1

TowardsEnd == toStart > fromStart /\ fromStart + len > toStart

\* Mutants: a whole buffer is moved every time; only whole buffers are moved.
WholeBuffer == Buffer
OnlyWhole == IF len - numMoved < Buffer THEN 0 ELSE Buffer

NumToRead == Min({len - numMoved, Buffer})

\* Mutant: towards the end, every chunk is taken one place too far.
OffByOne == IF TowardsEnd THEN len - numMoved - NumToRead + 1 ELSE numMoved

(* The distance from the beginning of the region to the next chunk.        *)
ChunkOffset == IF TowardsEnd THEN len - numMoved - NumToRead ELSE numMoved

Moves(newGet, newPut) ==
    getPos' = newGet /\ putPos' = newPut

(* seekg() only towards the end; read() sets failbit when it comes short.  *)
ReadFrom == IF TowardsEnd THEN fromStart + ChunkOffset ELSE getPos

Read ==
    /\ pc = "read"
    /\ pc' = "write"
    /\ LET end == Min({ReadFrom + NumToRead, size}) 
           ok == ~fail /\ end = ReadFrom + NumToRead
       IN  /\ fail' = ~ok
           /\ buf' = IF ok THEN [i \in 1..NumToRead |-> content[ReadFrom + i - 1]] ELSE buf
           /\ IF fail THEN Moves(getPos, putPos)
              ELSE Moves(end, IF file THEN end ELSE putPos)
    /\ UNCHANGED <<file, size, content, fromStart, toStart, len, numMoved>>

(* seekp() and write(), which a stream that has failed ignores.            *)
Write ==
    /\ pc = "write"
    /\ pc' = IF TowardsEnd THEN IF numMoved + NumToRead < len THEN "read" ELSE "returned"
             ELSE "seek"
    /\ LET at == toStart + ChunkOffset
           end == at + NumToRead
           ok == ~fail /\ (file \/ at <= size)
       IN  /\ fail' = ~ok
           /\ IF ok
              THEN /\ size' = Max({size, end})
                   /\ content' = [p \in 0..(size' - 1) |->
                                    IF p \in at..(end - 1) THEN buf[p - at + 1]
                                    ELSE IF p < size THEN content[p] ELSE Hole]
                   /\ Moves(IF file THEN end ELSE getPos, end)
              ELSE UNCHANGED <<size, content>> /\ Moves(getPos, putPos)
    /\ numMoved' = numMoved + NumToRead
    /\ UNCHANGED <<file, fromStart, toStart, len, buf>>

\* Mutant: the next chunk is read from where the stream stands.
StaysThere == getPos

SeekNext == fromStart + numMoved

Seek ==
    /\ pc = "seek"
    /\ pc' = IF numMoved < len THEN "read" ELSE "returned"
    /\ IF fail THEN Moves(getPos, putPos)
       ELSE Moves(SeekNext, IF file THEN SeekNext ELSE putPos)
    /\ UNCHANGED <<file, size, content, fail, fromStart, toStart, len, buf, numMoved>>

Terminated == pc = "returned" /\ UNCHANGED vars

Next == Read \/ Write \/ Seek \/ Terminated

Spec == Init /\ [][Next]_vars /\ WF_vars(Next)

-----------------------------------------------------------------------------
Source == fromStart..(fromStart + len - 1)
Target == toStart..(toStart + len - 1)

(* What the call promises: the target holds what the source held, and      *)
(* every other place what it held.                                         *)
Moved ==
    pc = "returned" /\ ~fail /\ fromStart # toStart =>
        /\ Target \subseteq DOMAIN content
        /\ \A p \in DOMAIN content :
             content[p] = IF p \in Target THEN fromStart + (p - toStart) ELSE p

(* Nothing is overwritten before it has been moved: the part of the source *)
(* that is still to be read is intact, whichever way the regions overlap.  *)
ToRead == IF TowardsEnd THEN fromStart..(fromStart + len - numMoved - 1)
          ELSE (fromStart + numMoved)..(fromStart + len - 1)
SourceIntact ==
    pc \in {"read", "seek"} => \A p \in ToRead \cap DOMAIN content : content[p] = p

(* At no time, also if it fails, has the move written anything outside the *)
(* target, or to it anything but what belongs there.                       *)
OnlyTarget ==
    \A p \in DOMAIN content : content[p] # p =>
        p \in Target /\ content[p] \in {fromStart + (p - toStart), Hole}

Returns == <>(pc = "returned")
=============================================================================
