---------------------------- MODULE StreamProofs ----------------------------
(***************************************************************************)
(* Theorems about StreamMove, for any buffer, stream and length, and about *)
(* RangedStreambuf, for any window on any file.                            *)
(***************************************************************************)
EXTENDS StreamMove, RangedStreambuf, SequenceTheorems, TLAPS

\* The places of the region that have been moved, from its beginning.
Gone == IF TowardsEnd THEN (len - numMoved)..(len - 1) ELSE 0..(numMoved - 1)

Types ==
    /\ file \in BOOLEAN /\ fail \in BOOLEAN
    /\ size \in Nat /\ getPos \in Nat /\ putPos \in Nat
    /\ fromStart \in Nat /\ toStart \in 0..size
    /\ len \in Nat /\ numMoved \in 0..len
    /\ pc \in {"read", "write", "seek", "returned"}
    /\ DOMAIN content = 0..(size - 1)

Control ==
    /\ pc # "returned" => fromStart # toStart
    /\ pc \in {"read", "write"} => numMoved < len
    /\ pc = "returned" /\ fromStart # toStart => numMoved = len
    /\ pc = "read" /\ ~fail /\ ~TowardsEnd => getPos = fromStart + numMoved

\* The chunk in the buffer is the one that is written next.
Buffered ==
    pc = "write" /\ ~fail =>
        /\ fromStart + ChunkOffset + NumToRead <= size
        /\ \A i \in 1..NumToRead : buf[i] = fromStart + ChunkOffset + i - 1

Intact == pc # "returned" => \A p \in ToRead : p \in DOMAIN content => content[p] = p

Arrived ==
    ~fail => \A k \in Gone : toStart + k \in DOMAIN content /\ content[toStart + k] = fromStart + k

Elsewhere ==
    \A p \in DOMAIN content :
        \/ content[p] = p
        \/ content[p] = Hole /\ p \in Target
        \/ p - toStart \in Gone /\ content[p] = fromStart + (p - toStart)

Inv == Types /\ Control /\ Buffered /\ Intact /\ Arrived /\ Elsewhere

-----------------------------------------------------------------------------
\* The smaller of two numbers.
LEMMA MinIs == ASSUME NEW a \in Int, NEW b \in Int PROVE Min({a, b}) = IF a <= b THEN a ELSE b
BY DEF Min

\* The larger of two numbers.
LEMMA MaxIs == ASSUME NEW a \in Int, NEW b \in Int PROVE Max({a, b}) = IF a >= b THEN a ELSE b
BY DEF Max

\* The next chunk is not empty, and inside the region.
LEMMA ChunkIs ==
  ASSUME Types, numMoved < len
  PROVE  /\ NumToRead \in 1..(len - numMoved)
         /\ ChunkOffset = IF TowardsEnd THEN len - numMoved - NumToRead ELSE numMoved
         /\ ChunkOffset \in 0..(len - NumToRead)
<1>1. Buffer \in Nat /\ Buffer > 0 /\ len - numMoved \in Nat /\ len - numMoved > 0
  BY BufferAssumption DEF Types
<1>2. NumToRead = IF len - numMoved <= Buffer THEN len - numMoved ELSE Buffer
  BY <1>1, MinIs DEF NumToRead
<1>3. NumToRead \in 1..(len - numMoved)
  BY <1>1, <1>2
<1> QED  BY <1>1, <1>3 DEF ChunkOffset, Types

\* The directions: a region moved towards the end overlaps its target there.
LEMMA Directions ==
  ASSUME Types
  PROVE  /\ TowardsEnd => toStart > fromStart
         /\ ~TowardsEnd /\ fromStart # toStart => toStart < fromStart \/ fromStart + len <= toStart
  BY DEF Types, TowardsEnd

\* The invariant holds when the call begins ...
LEMMA InitInv == Init => Inv
<1> SUFFICES ASSUME Init PROVE Inv
  OBVIOUS
<1>1. /\ size \in Nat /\ fromStart \in Nat /\ toStart \in 0..size /\ len \in Nat
      /\ numMoved = 0 /\ getPos = fromStart /\ fail = FALSE /\ file \in BOOLEAN
      /\ DOMAIN content = 0..(size - 1) /\ \A p \in DOMAIN content : content[p] = p
  BY BufferAssumption DEF Init, Original
<1>2. putPos \in Nat
  BY <1>1 DEF Init
<1>3. \/ pc = "read" /\ fromStart # toStart /\ len # 0
      \/ pc = "returned" /\ (fromStart = toStart \/ len = 0)
  <2>1. pc = IF fromStart = toStart \/ len = 0 THEN "returned" ELSE "read"
    BY DEF Init
  <2> QED  BY <2>1
<1>4. Types
  <2>1. pc \in {"read", "write", "seek", "returned"}
    BY <1>3
  <2>2. numMoved \in 0..len
    BY <1>1
  <2> QED  BY <1>1, <1>2, <2>1, <2>2 DEF Types
<1>5. Control
  BY <1>1, <1>3 DEF Control
<1>6. Gone = {}
  BY <1>1 DEF Gone
<1> QED  BY <1>1, <1>3, <1>4, <1>5, <1>6 DEF Inv, Buffered, Intact, Arrived, Elsewhere

\* ... after a chunk has been read ...
LEMMA ReadInv == ASSUME Inv, Read PROVE Inv'
<1>0. /\ Types /\ pc = "read" /\ pc' = "write" /\ numMoved < len /\ fromStart # toStart
      /\ UNCHANGED <<file, size, content, fromStart, toStart, len, numMoved>>
  BY DEF Inv, Control, Read
<1>n. PICK n \in Nat : n = NumToRead /\ n > 0
  BY <1>0, ChunkIs DEF Types
<1>o. PICK o \in Nat : o = ChunkOffset
  BY <1>0, ChunkIs DEF Types
<1>1. ReadFrom \in Nat
  BY <1>0, <1>o DEF Types, ReadFrom
<1>e. PICK end \in Nat : end = Min({ReadFrom + n, size})
  BY <1>0, <1>1, MinIs DEF Types
<1>2. end <= size /\ (end = ReadFrom + n => ReadFrom + n <= size)
  BY <1>0, <1>1, <1>e, MinIs DEF Types
<1>3. UNCHANGED <<TowardsEnd, NumToRead, ChunkOffset, ToRead, Gone, Target>>
  BY <1>0 DEF TowardsEnd, NumToRead, ChunkOffset, ToRead, Gone, Target
<1>4. /\ fail' = ~(~fail /\ end = ReadFrom + n)
      /\ buf' = IF ~fail /\ end = ReadFrom + n THEN [i \in 1..n |-> content[ReadFrom + i - 1]] ELSE buf
      /\ getPos' \in {getPos, end} /\ putPos' \in {putPos, end}
  BY <1>n, <1>e DEF Read, Moves
<1>5. Types'
  BY <1>0, <1>4 DEF Types
<1>6. Control'
  BY <1>0 DEF Control
<1>7. Buffered'
  <2> SUFFICES ASSUME ~fail' PROVE /\ fromStart + o + n <= size
                                  /\ \A i \in 1..n : buf'[i] = fromStart + o + i - 1
    BY <1>0, <1>3, <1>n, <1>o DEF Buffered
  <2>1. ~fail /\ end = ReadFrom + n /\ buf' = [i \in 1..n |-> content[ReadFrom + i - 1]]
    BY <1>4
  <2>2. ReadFrom = fromStart + o
    BY <1>0, <1>o, <2>1, ChunkIs DEF Inv, Control, ReadFrom
  <2>3. ASSUME NEW i \in 1..n PROVE content[ReadFrom + i - 1] = fromStart + o + i - 1
    <3>1. fromStart + o + i - 1 \in ToRead
      BY <1>0, <1>n, <1>o, ChunkIs DEF Types, ToRead
    <3>2. fromStart + o + i - 1 \in DOMAIN content
      BY <1>0, <1>2, <2>1, <2>2 DEF Types
    <3>3. ReadFrom + i - 1 = fromStart + o + i - 1
      BY <2>2
    <3> QED  BY <1>0, <3>1, <3>2, <3>3 DEF Inv, Intact
  <2> QED  BY <1>2, <2>1, <2>2, <2>3
<1>8. Intact'
  BY <1>0, <1>3 DEF Inv, Intact
<1>9. Arrived'
  BY <1>0, <1>3, <1>4 DEF Inv, Arrived
<1>10. Elsewhere'
  BY <1>0, <1>3 DEF Inv, Elsewhere
<1> QED  BY <1>5, <1>6, <1>7, <1>8, <1>9, <1>10 DEF Inv

\* ... after it has been written ...
LEMMA WriteInv == ASSUME Inv, Write PROVE Inv'
<1>0. /\ Types /\ pc = "write" /\ numMoved < len /\ fromStart # toStart
      /\ UNCHANGED <<file, fromStart, toStart, len, buf>>
      /\ numMoved' = numMoved + NumToRead
  BY DEF Inv, Control, Write
<1>n. PICK n \in Nat : n = NumToRead /\ n > 0 /\ n <= len - numMoved
  BY <1>0, ChunkIs DEF Types
<1>o. PICK o \in Nat : o = ChunkOffset /\ o + n <= len
                       /\ o = IF TowardsEnd THEN len - numMoved - n ELSE numMoved
  BY <1>0, <1>n, ChunkIs DEF Types
<1>t. Types /\ numMoved \in Nat /\ len \in Nat /\ fromStart \in Nat /\ toStart \in Nat
      /\ size \in Nat /\ toStart <= size /\ numMoved' = numMoved + n
      /\ getPos \in Nat /\ putPos \in Nat /\ DOMAIN content = 0..(size - 1)
  BY <1>0, <1>n DEF Types
<1>1. TowardsEnd' = TowardsEnd /\ Target' = Target
  BY <1>0 DEF TowardsEnd, Target
<1>pc. /\ TowardsEnd => pc' = IF numMoved' < len THEN "read" ELSE "returned"
       /\ ~TowardsEnd => pc' = "seek"
  BY <1>0 DEF Write
<1>2. Control'
  <2>1. CASE TowardsEnd
    BY <1>0, <1>1, <1>n, <1>t, <1>pc, <2>1 DEF Control
  <2>2. CASE ~TowardsEnd
    BY <1>0, <1>1, <1>n, <1>t, <1>pc, <2>2 DEF Control
  <2> QED  BY <2>1, <2>2
<1>3. Buffered'
  BY <1>pc DEF Buffered
<1>4. /\ \A k \in Int : k \in Gone' <=> k \in Gone \/ (k >= o /\ k < o + n)
      /\ \A k \in Gone : k \in Int /\ 0 <= k /\ k < len /\ (k < o \/ k >= o + n)
      /\ \A k \in Gone' : k \in Int
  <2>1. CASE TowardsEnd
    BY <1>0, <1>1, <1>n, <1>o, <1>t, <2>1 DEF Gone
  <2>2. CASE ~TowardsEnd
    BY <1>0, <1>1, <1>n, <1>o, <1>t, <2>2 DEF Gone
  <2> QED  BY <2>1, <2>2
\* What is still to be read after the write is below, or above, all of it.
<1>5. ASSUME NEW p \in ToRead'
      PROVE  /\ p \in ToRead /\ p \in Int
             /\ p < toStart + o \/ p >= toStart + o + n
             /\ TowardsEnd => p < fromStart + o
  <2>1. CASE TowardsEnd
    BY <1>0, <1>1, <1>n, <1>o, <1>t, Directions, <2>1 DEF ToRead
  <2>2. CASE ~TowardsEnd
    BY <1>0, <1>1, <1>n, <1>o, <1>t, Directions, <2>2 DEF ToRead
  <2> QED  BY <2>1, <2>2
<1>6. CASE fail \/ ~(file \/ toStart + ChunkOffset <= size)
  <2>1. fail' = TRUE /\ size' = size /\ content' = content /\ getPos' = getPos /\ putPos' = putPos
    BY <1>6 DEF Write, Moves
  <2>2. pc' \in {"read", "write", "seek", "returned"}
    BY <1>pc
  <2>3. Types'
    BY <1>0, <1>n, <1>t, <2>1, <2>2 DEF Types
  <2>4. Intact'
    <3> SUFFICES ASSUME NEW p \in ToRead', p \in DOMAIN content' PROVE content'[p] = p
      BY DEF Intact
    <3>1. p \in ToRead /\ p \in DOMAIN content
      BY <1>5, <2>1
    <3> QED  BY <1>0, <2>1, <3>1 DEF Inv, Intact
  <2>5. Arrived'
    BY <2>1 DEF Arrived
  <2>6. Elsewhere'
    <3>1. ASSUME NEW p \in DOMAIN content
          PROVE  \/ content[p] = p
                 \/ content[p] = Hole /\ p \in Target
                 \/ p - toStart \in Gone' /\ content[p] = fromStart + (p - toStart)
      BY <1>4, <3>1 DEF Inv, Elsewhere
    <3> QED  BY <1>0, <1>1, <2>1, <3>1 DEF Elsewhere
  <2> QED  BY <1>2, <1>3, <2>3, <2>4, <2>5, <2>6 DEF Inv
<1>7. CASE ~fail /\ (file \/ toStart + ChunkOffset <= size)
  <2> DEFINE at == toStart + o
             end == at + n
  <2>a. at \in Nat /\ end \in Nat /\ at < end
    BY <1>n, <1>o, <1>t
  <2>b. fail' = FALSE /\ size' = Max({size, end})
        /\ content' = [p \in 0..(size' - 1) |->
                         IF p \in at..(end - 1) THEN buf[p - at + 1]
                         ELSE IF p < size THEN content[p] ELSE Hole]
        /\ getPos' \in {getPos, end} /\ putPos' = end
    BY <1>7, <1>n, <1>o DEF Write, Moves
  <2>c. size' \in Nat /\ size' >= size /\ size' >= end /\ (size' = size \/ size' = end)
    <3>1. Max({size, end}) = IF size >= end THEN size ELSE end
      BY <1>t, <2>a, MaxIs
    <3> HIDE DEF end
    <3> QED  BY <1>t, <2>a, <2>b, <3>1
  <2>d. DOMAIN content' = 0..(size' - 1)
    BY <2>b
  <2>e. fromStart + o + n <= size /\ \A i \in 1..n : buf[i] = fromStart + o + i - 1
    BY <1>0, <1>7, <1>n, <1>o DEF Inv, Buffered
  <2> HIDE DEF at, end
  \* What the write leaves at a place: the chunk, what was there, or a hole.
  <2>f. ASSUME NEW p \in Int, at <= p, p < end
        PROVE  p \in DOMAIN content' /\ content'[p] = fromStart + (p - toStart)
    <3>1. p \in 0..(size' - 1) /\ p \in at..(end - 1)
      <4> DEFINE newSize == size'
      <4>1. newSize \in Nat /\ newSize >= end /\ at \in Nat /\ end \in Nat
        BY <2>a, <2>c
      <4> HIDE DEF newSize
      <4>2. p \in 0..(newSize - 1) /\ p \in at..(end - 1)
        BY <2>f, <4>1
      <4> QED  BY <4>2 DEF newSize
    <3>2. p - at + 1 \in 1..n /\ fromStart + o + (p - at + 1) - 1 = fromStart + (p - toStart)
      BY <1>t, <2>a, <2>f DEF at, end
    <3> QED  BY <2>b, <2>d, <2>e, <3>1, <3>2
  <2>g. ASSUME NEW p \in 0..(size - 1), p < at \/ p >= end
        PROVE  p \in DOMAIN content' /\ content'[p] = content[p]
    BY <1>t, <2>a, <2>b, <2>c, <2>d, <2>g
  <2>h. ASSUME NEW p \in DOMAIN content', p >= size, p < at \/ p >= end
        PROVE  content'[p] = Hole /\ p < at
    BY <1>t, <2>a, <2>b, <2>c, <2>d, <2>h
  \* Only a move towards the end leaves a hole.
  <2>i. ~TowardsEnd => at <= size
    <3> SUFFICES ASSUME ~TowardsEnd PROVE at <= size
      OBVIOUS
    <3>1. CASE numMoved = 0
      BY <1>o, <1>t, <3>1 DEF at
    <3>2. CASE numMoved # 0
      <4>1. numMoved - 1 \in Gone
        BY <1>t, <3>2 DEF Gone
      <4>2. toStart + (numMoved - 1) \in DOMAIN content
        BY <1>7, <4>1 DEF Inv, Arrived
      <4> QED  BY <1>o, <1>t, <4>2 DEF at
    <3> QED  BY <3>1, <3>2
  <2>1. Types'
    <3>1. pc' \in {"read", "write", "seek", "returned"}
      BY <1>pc
    <3>2. getPos' \in Nat /\ putPos' \in Nat /\ fail' \in BOOLEAN
      BY <1>t, <2>a, <2>b
    <3> QED  BY <1>0, <1>n, <1>t, <2>c, <2>d, <3>1, <3>2 DEF Types
  <2>2. Intact'
    <3> SUFFICES ASSUME NEW p \in ToRead', p \in DOMAIN content' PROVE content'[p] = p
      BY DEF Intact
    <3>1. p \in Int /\ p \in ToRead /\ (p < at \/ p >= end)
      BY <1>5 DEF at, end
    <3>2. p < size
      <4>1. CASE TowardsEnd
        BY <1>5, <1>n, <1>o, <1>t, <2>e, <3>1, <4>1
      <4>2. CASE ~TowardsEnd
        BY <1>t, <2>a, <2>h, <2>i, <3>1, <4>2
      <4> QED  BY <4>1, <4>2
    <3>3. p \in 0..(size - 1)
      BY <1>t, <2>c, <2>d, <3>1, <3>2
    <3> QED  BY <1>0, <1>t, <2>g, <3>1, <3>3 DEF Inv, Intact
  <2>3. Arrived'
    <3> SUFFICES ASSUME NEW k \in Gone'
                 PROVE  toStart + k \in DOMAIN content' /\ content'[toStart + k] = fromStart + k
      BY <1>0 DEF Arrived
    <3>1. k \in Int /\ (k \in Gone \/ (k >= o /\ k < o + n))
      BY <1>4
    <3>2. CASE k \in Gone
      <4>1. toStart + k \in DOMAIN content /\ content[toStart + k] = fromStart + k
        BY <1>7, <3>2 DEF Inv, Arrived
      <4>2. toStart + k < at \/ toStart + k >= end
        BY <1>4, <1>t, <1>o, <1>n, <3>2 DEF at, end
      <4> QED  BY <1>t, <2>g, <4>1, <4>2
    <3>3. CASE k >= o /\ k < o + n
      <4>1. toStart + k \in Int /\ at <= toStart + k /\ toStart + k < end
            /\ fromStart + ((toStart + k) - toStart) = fromStart + k
        BY <1>t, <1>o, <1>n, <3>1, <3>3 DEF at, end
      <4> QED  BY <2>f, <4>1
    <3> QED  BY <3>1, <3>2, <3>3
  <2>4. Elsewhere'
    <3> SUFFICES ASSUME NEW p \in DOMAIN content'
                 PROVE  \/ content'[p] = p
                        \/ content'[p] = Hole /\ p \in Target
                        \/ p - toStart \in Gone' /\ content'[p] = fromStart + (p - toStart)
      BY <1>0, <1>1 DEF Elsewhere
    <3>0. p \in Int /\ 0 <= p
      BY <2>c, <2>d
    <3>1. CASE at <= p /\ p < end
      <4>1. p - toStart \in Int /\ p - toStart >= o /\ p - toStart < o + n
        BY <1>t, <1>o, <1>n, <3>0, <3>1 DEF at, end
      <4> QED  BY <1>4, <2>f, <3>0, <3>1, <4>1
    <3>2. CASE (p < at \/ p >= end) /\ p < size
      <4>1. p \in DOMAIN content /\ content'[p] = content[p]
        BY <1>t, <2>g, <3>0, <3>2
      <4>2. p - toStart \in Gone => p - toStart \in Gone'
        BY <1>4
      <4> QED  BY <4>1, <4>2 DEF Inv, Elsewhere
    <3>3. CASE (p < at \/ p >= end) /\ p >= size
      <4>1. content'[p] = Hole /\ p < at
        BY <2>h, <3>3
      <4>2. p \in Target
        BY <1>t, <1>o, <1>n, <3>0, <3>3, <4>1 DEF at, Target
      <4> QED  BY <4>1, <4>2
    <3> QED  BY <1>t, <2>a, <3>0, <3>1, <3>2, <3>3
  <2> QED  BY <1>2, <1>3, <2>1, <2>2, <2>3, <2>4 DEF Inv
<1> QED  BY <1>6, <1>7

\* ... and after the stream stands at the next one.
LEMMA SeekInv == ASSUME Inv, Seek PROVE Inv'
<1>0. /\ Types /\ pc = "seek" /\ fromStart # toStart
      /\ pc' = IF numMoved < len THEN "read" ELSE "returned"
      /\ UNCHANGED <<file, size, content, fail, fromStart, toStart, len, buf, numMoved>>
  BY DEF Inv, Control, Seek
<1>1. UNCHANGED <<TowardsEnd, ToRead, Gone, Target>>
  BY <1>0 DEF TowardsEnd, ToRead, Gone, Target
<1>2. /\ getPos' \in {getPos, fromStart + numMoved} /\ putPos' \in {putPos, fromStart + numMoved}
      /\ ~fail => getPos' = fromStart + numMoved
  BY DEF Seek, Moves, SeekNext
<1>3. Types'
  <2>1. pc' \in {"read", "write", "seek", "returned"}
    BY <1>0
  <2>2. fromStart + numMoved \in Nat
    BY <1>0 DEF Types
  <2> QED  BY <1>0, <1>2, <2>1, <2>2 DEF Types
<1>4. Control'
  <2>1. numMoved \in 0..len /\ len \in Nat
    BY <1>0 DEF Types
  <2> QED  BY <1>0, <1>2, <2>1 DEF Control
<1>5. Buffered'
  BY <1>0 DEF Buffered
<1>6. Intact'
  BY <1>0, <1>1 DEF Inv, Intact
<1>7. Arrived'
  BY <1>0, <1>1 DEF Inv, Arrived
<1>8. Elsewhere'
  BY <1>0, <1>1 DEF Inv, Elsewhere
<1> QED  BY <1>3, <1>4, <1>5, <1>6, <1>7, <1>8 DEF Inv

\* Nothing changes.
LEMMA StutterInv == ASSUME Inv, UNCHANGED vars PROVE Inv'
<1>1. /\ UNCHANGED <<TowardsEnd, NumToRead, ChunkOffset, ToRead, Gone, Target>>
      /\ UNCHANGED <<file, size, content, getPos, putPos, fail, fromStart, toStart, len, buf, numMoved, pc>>
  BY DEF vars, TowardsEnd, NumToRead, ChunkOffset, ToRead, Gone, Target
<1> QED  BY <1>1 DEF Inv, Types, Control, Buffered, Intact, Arrived, Elsewhere

(* The move keeps its invariant.                                           *)
THEOREM Invariance == Spec => []Inv
<1>1. Inv /\ [Next]_vars => Inv'
  BY ReadInv, WriteInv, SeekInv, StutterInv DEF Next, Terminated
<1> QED  BY InitInv, <1>1, PTL DEF Spec

(* SourceIntact, for any buffer and length: nothing of the source is       *)
(* overwritten before it has been read.                                    *)
THEOREM SourceStaysIntact == Spec => []SourceIntact
<1>1. Inv => SourceIntact
  BY DEF Inv, Intact, SourceIntact
<1> QED  BY Invariance, <1>1, PTL

(* OnlyTarget, for any buffer and length: a move, also one that fails,     *)
(* writes nothing outside the target and nothing wrong in it.              *)
THEOREM WritesOnlyTarget == Spec => []OnlyTarget
<1>1. ASSUME Types PROVE \A k \in Gone : k \in Int /\ 0 <= k /\ k < len
  BY <1>1 DEF Types, Gone
<1>2. Inv => OnlyTarget
  <2> SUFFICES ASSUME Inv, NEW p \in DOMAIN content, content[p] # p
               PROVE  p \in Target /\ content[p] \in {fromStart + (p - toStart), Hole}
    BY DEF OnlyTarget
  <2>1. p \in Int /\ toStart \in Int /\ len \in Nat
    BY DEF Inv, Types
  <2>2. CASE content[p] = Hole /\ p \in Target
    BY <2>2
  <2>3. CASE p - toStart \in Gone /\ content[p] = fromStart + (p - toStart)
    <3>1. 0 <= p - toStart /\ p - toStart < len
      BY <1>1, <2>3 DEF Inv
    <3>2. p \in Target
      BY <2>1, <3>1 DEF Target
    <3> QED  BY <2>3, <3>2
  <2> QED  BY <2>2, <2>3 DEF Inv, Elsewhere
<1> QED  BY Invariance, <1>2, PTL

(* Moved, for any buffer and length: a move that returns without a failure *)
(* has copied the whole region, over itself or not, and nothing else.      *)
THEOREM MovesAll == Spec => []Moved
<1>1. Inv => Moved
  <2> SUFFICES ASSUME Inv, pc = "returned", ~fail, fromStart # toStart
               PROVE  /\ Target \subseteq DOMAIN content
                      /\ \A p \in DOMAIN content :
                           content[p] = IF p \in Target THEN fromStart + (p - toStart) ELSE p
    BY DEF Moved
  <2>1. /\ numMoved = len /\ len \in Nat /\ toStart \in Int /\ fromStart \in Int
        /\ DOMAIN content = 0..(size - 1) /\ size \in Nat
    BY DEF Inv, Control, Types
  <2>2. Gone = 0..(len - 1)
    BY <2>1 DEF Gone
  <2>3. ASSUME NEW p \in Target
        PROVE  p \in DOMAIN content /\ content[p] = fromStart + (p - toStart)
    <3>1. p \in Int /\ p - toStart \in Gone /\ toStart + (p - toStart) = p
      BY <2>1, <2>2 DEF Target
    <3> QED  BY <3>1 DEF Inv, Arrived
  <2>4. ASSUME NEW p \in DOMAIN content, p \notin Target PROVE content[p] = p
    <3>1. p - toStart \notin Gone
      BY <2>1, <2>2, <2>4 DEF Target
    <3> QED  BY <2>4, <3>1 DEF Inv, Elsewhere
  <2> QED  BY <2>3, <2>4
<1> QED  BY Invariance, <1>1, PTL

-----------------------------------------------------------------------------
(* The window.                                                             *)

\* Where the window and its backend stand, and what has been written.
Window ==
    /\ backendSize \in Nat /\ startPos \in Nat /\ maxWrite \in Nat
    /\ mode \in {"in", "out"}
    /\ curReadPos \in 0..maxWrite /\ curWritePos \in 0..maxWrite
    /\ Synced
    /\ written \subseteq startPos..(startPos + maxWrite - 1)

\* The backend returns as many characters as it has.
LEMMA CharsIs ==
  ASSUME backendSize \in Nat, NEW from \in Nat, NEW n \in Nat,
         NEW l, l = IF n <= backendSize - from THEN n
                    ELSE IF from <= backendSize THEN backendSize - from ELSE 0
  PROVE  /\ l \in 0..n /\ l \in Nat
         /\ Chars(from, n) = [i \in 1..l |-> from + i - 1]
         /\ Chars(from, n) \in Seq(Nat) /\ Len(Chars(from, n)) = l
<1>1. l \in Nat /\ l <= n
  OBVIOUS
<1>2. Min({n, backendSize - from}) = IF n <= backendSize - from THEN n ELSE backendSize - from
  BY MinIs
<1>3. Max({0, Min({n, backendSize - from})}) = l
  <2>1. PICK m : m = Min({n, backendSize - from}) /\ m \in Int
    BY <1>2
  <2>2. Max({0, m}) = IF 0 >= m THEN 0 ELSE m
    BY <2>1 DEF Max
  <2> QED  BY <1>2, <2>1, <2>2
<1>4. Chars(from, n) = [i \in 1..l |-> from + i - 1]
  BY <1>3 DEF Chars
<1>5. [i \in 1..l |-> from + i - 1] \in Seq(Nat)
  BY <1>1
<1>6. Len([i \in 1..l |-> from + i - 1]) = l
  BY <1>1, <1>5, LenProperties
<1> QED  BY <1>1, <1>4, <1>5, <1>6

\* What a call may still transfer.
LEMMA InRangeIs ==
  ASSUME maxWrite \in Nat, NEW n \in Nat, NEW cur \in 0..maxWrite
  PROVE  InRange(n, cur) \in Nat /\ InRange(n, cur) <= n /\ cur + InRange(n, cur) <= maxWrite
         /\ InRange(n, cur) = IF n <= maxWrite - cur THEN n ELSE maxWrite - cur
<1>1. InRange(n, cur) = IF n <= maxWrite - cur THEN n ELSE maxWrite - cur
  BY MinIs DEF InRange
<1> QED  BY <1>1

\* It begins where the backend stands.
LEMMA WindowInitially == WindowInit => Window
BY BoundsAssumption DEF WindowInit, Window, Synced, CurPos

\* Reading.
LEMMA TransferKeeps ==
  ASSUME Window, mode = "in", NEW chars, Transfer(chars), Len(chars) \in Nat,
         curReadPos + Len(chars) <= maxWrite
  PROVE  Window'
BY DEF Window, Transfer, ReadPosAfter, fixed, Synced, CurPos

\* Writing.
LEMMA PutKeeps ==
  ASSUME Window, mode = "out", NEW n \in Nat, Put(n), curWritePos + n <= maxWrite
  PROVE  Window'
<1>1. /\ written' = written \cup backendPos..(backendPos + n - 1)
      /\ backendPos' = backendPos + n /\ curWritePos' = curWritePos + n
      /\ UNCHANGED <<mode, startPos, maxWrite, curReadPos>>
      /\ backendSize' = Max({backendSize, backendPos'})
  BY DEF Put, fixed
<1>2. backendPos = startPos + curWritePos /\ backendPos \in Nat
  BY DEF Window, Synced, CurPos
<1>3. backendSize' \in Nat
  <2>1. backendSize \in Int /\ backendPos' \in Int
    BY <1>1, <1>2 DEF Window
  <2>2. backendSize' = IF backendSize >= backendPos' THEN backendSize ELSE backendPos'
    BY <1>1, <2>1, MaxIs
  <2> QED  BY <1>1, <1>2, <2>2 DEF Window
<1>4. written' \subseteq startPos..(startPos + maxWrite - 1)
  BY <1>1, <1>2 DEF Window
<1> QED  BY <1>1, <1>2, <1>3, <1>4 DEF Window, Synced, CurPos

\* Seeking: to a place in the window, when no others are sought.
LEMMA SeekKeeps ==
  ASSUME Window, NEW p \in Nat, SeekTo(p)
  PROVE  Window'
<1>1. startPos + p >= 0 /\ p <= maxWrite
  BY DEF Window, SeekTo
<1> QED  BY <1>1 DEF Window, SeekTo, BackendSeek, ToBackend, fixed, Synced, CurPos

\* Where the backend accepts the offset, its answer moves the window's
\* position by it.
LEMMA SeekCurIs ==
  ASSUME Window, NEW off \in Int, seekoffCur(off)
  PROVE  /\ CurPos' = CurPos + off /\ backendPos' = backendPos + off
         /\ CurPos + off \in 0..maxWrite
<1>1. backendPos = startPos + CurPos /\ startPos \in Nat /\ CurPos \in Int
  BY DEF Window, Synced, CurPos
<1>2. CurPos + off \in 0..maxWrite /\ backendPos + off >= 0
  BY <1>1 DEF Window, seekoffCur, InBounds
<1>3. backendPos' = backendPos + off /\ BackendAnswer(backendPos + off) = backendPos + off
  BY <1>2 DEF seekoffCur, BackendSeek, BackendAnswer
<1>4. BackendAnswer(backendPos + off) - (startPos + CurPos) = off
  BY <1>1, <1>3
<1>5. CurPos' = CurPos + off
  BY <1>4 DEF seekoffCur, CurPos, fixed
<1> QED  BY <1>2, <1>3, <1>5

\* Seeking from the current place.
LEMMA SeekCurKeeps ==
  ASSUME Window, NEW off \in Int, seekoffCur(off)
  PROVE  Window'
<1>1. CurPos' = CurPos + off /\ backendPos' = backendPos + off /\ CurPos + off \in 0..maxWrite
  BY SeekCurIs
<1> QED  BY <1>1 DEF Window, seekoffCur, fixed, Synced, CurPos

\* Every operation keeps the window and the backend together.
LEMMA WindowStep ==
  ASSUME ~NegativeSeeks, Window, [WindowNext]_windowVars
  PROVE  Window'
<1>1. ASSUME NEW n \in 0..MaxRead, xsgetn(n) PROVE Window'
  <2>1. PICK r : r = InRange(n, curReadPos)
    OBVIOUS
  <2>2. r \in Nat /\ curReadPos + r <= maxWrite
    BY <2>1, BoundsAssumption, InRangeIs DEF Window
  <2>3. mode = "in" /\ Transfer(Chars(backendPos, r)) /\ backendPos \in Nat
    BY <1>1, <2>1 DEF xsgetn, Window, Synced, CurPos
  <2>4. Len(Chars(backendPos, r)) \in 0..r
    BY <2>2, <2>3, CharsIs DEF Window
  <2> QED  BY <2>2, <2>3, <2>4, TransferKeeps DEF Window
<1>2. ASSUME uflow PROVE Window'
  <2>1. CASE curReadPos >= maxWrite
    BY <1>2, <2>1, TransferKeeps DEF uflow, Window
  <2>2. CASE ~(curReadPos >= maxWrite)
    <3>1. mode = "in" /\ Transfer(Chars(backendPos, 1)) /\ backendPos \in Nat
      BY <1>2, <2>2 DEF uflow, Window, Synced, CurPos
    <3>2. Len(Chars(backendPos, 1)) \in 0..1
      BY <3>1, CharsIs DEF Window
    <3>3. PICK n : n = Len(Chars(backendPos, 1))
      OBVIOUS
    <3>4. n \in Nat /\ curReadPos + n <= maxWrite
      BY <2>2, <3>2, <3>3 DEF Window
    <3> QED  BY <3>1, <3>3, <3>4, TransferKeeps
  <2> QED  BY <2>1, <2>2
<1>3. ASSUME underflow PROVE Window'
  BY <1>3 DEF underflow, fixed, Window, Synced, CurPos
<1>4. ASSUME pbackfail PROVE Window'
  BY <1>4 DEF pbackfail, fixed, Window, Synced, CurPos
<1>5. ASSUME overflow PROVE Window'
  BY <1>5, PutKeeps DEF overflow, Window
<1>6. ASSUME NEW n \in 0..MaxRead, xsputn(n) PROVE Window'
  <2>1. PICK r : r = InRange(n, curWritePos)
    OBVIOUS
  <2>2. r \in Nat /\ curWritePos + r <= maxWrite
    BY <2>1, BoundsAssumption, InRangeIs DEF Window
  <2> QED  BY <1>6, <2>1, <2>2, PutKeeps DEF xsputn
<1>7. ASSUME NEW off \in Offsets, seekpos(off) \/ seekoffEnd(off) \/ seekoffCur(off)
      PROVE  Window'
  <2>1. off \in Int
    BY BoundsAssumption DEF Offsets
  <2>2. CASE seekpos(off)
    BY <2>1, <2>2, SeekKeeps DEF seekpos
  <2>3. CASE seekoffEnd(off)
    <3>1. PICK p : p = maxWrite + off
      OBVIOUS
    <3>2. p \in Nat /\ SeekTo(p)
      BY <2>1, <2>3, <3>1 DEF seekoffEnd, Window
    <3> QED  BY <3>2, SeekKeeps
  <2>4. CASE seekoffCur(off)
    BY <2>1, <2>4, SeekCurKeeps
  <2> QED  BY <1>7, <2>2, <2>3, <2>4
<1>8. ASSUME UNCHANGED windowVars PROVE Window'
  BY <1>8 DEF windowVars, Window, Synced, CurPos
<1> QED  BY <1>1, <1>2, <1>3, <1>4, <1>5, <1>6, <1>7, <1>8 DEF WindowNext
\* The characters of the window that the backend has.
LEMMA StreamIs ==
  ASSUME Window, NEW l,
         l = IF maxWrite <= backendSize - startPos THEN maxWrite
             ELSE IF startPos <= backendSize THEN backendSize - startPos ELSE 0
  PROVE  /\ l \in 0..maxWrite
         /\ Chars(startPos, maxWrite) = [i \in 1..l |-> startPos + i - 1]
         /\ Len(Chars(startPos, maxWrite)) = l
BY CharsIs DEF Window

\* What the backend returns to a reader is what its own stream would.
LEMMA AvailableIs ==
  ASSUME Window, mode = "in", NEW n \in Nat, NEW r \in Nat,
         r = IF n <= maxWrite - curReadPos THEN n ELSE maxWrite - curReadPos
  PROVE  Chars(backendPos, r) = Stream!Available(n)
<1>1. PICK l : l = IF maxWrite <= backendSize - startPos THEN maxWrite
                   ELSE IF startPos <= backendSize THEN backendSize - startPos ELSE 0
  OBVIOUS
<1>2. PICK s : s = Chars(startPos, maxWrite)
  OBVIOUS
<1>3. l \in Nat /\ l <= maxWrite /\ s = [i \in 1..l |-> startPos + i - 1] /\ Len(s) = l
  BY <1>1, <1>2, StreamIs DEF Window
<1>4. PICK p : p = curReadPos
  OBVIOUS
<1>5. /\ p \in Nat /\ startPos \in Nat /\ backendSize \in Nat /\ backendPos \in Nat
      /\ backendPos = startPos + p /\ p <= maxWrite /\ maxWrite \in Nat
  BY <1>4 DEF Window, Synced, CurPos
<1>6. PICK e : e = Min({p + n, l})
  OBVIOUS
<1>7. e = (IF p + n <= l THEN p + n ELSE l) /\ e \in Nat
  BY <1>3, <1>5, <1>6, MinIs
<1>8. PICK k : k = IF r <= backendSize - backendPos THEN r
                   ELSE IF backendPos <= backendSize THEN backendSize - backendPos ELSE 0
  OBVIOUS
<1>9. k \in Nat /\ Chars(backendPos, r) = [i \in 1..k |-> backendPos + i - 1]
  BY <1>5, <1>8, CharsIs
<1>10. PICK f : f = p + 1
  OBVIOUS
<1>11. f \in Int /\ e \in Int /\ k = (IF f <= e THEN e - f + 1 ELSE 0) /\ e <= l /\ f >= 1
  BY <1>1, <1>3, <1>4, <1>5, <1>7, <1>8, <1>10
<1>12. PICK a : a = SubSeq(s, f, e)
  OBVIOUS
<1>13. a \in Seq(Nat) /\ Len(a) = k /\ \A i \in 1..k : a[i] = backendPos + i - 1
  <2>1. \A i \in f..e : s[i] = startPos + i - 1 /\ s[i] \in Nat
    BY <1>3, <1>5, <1>11
  <2>2. /\ SubSeq(s, f, e) \in Seq(Nat) /\ Len(SubSeq(s, f, e)) = IF f <= e THEN e - f + 1 ELSE 0
        /\ \A i \in 1..(e - f + 1) : SubSeq(s, f, e)[i] = s[f + i - 1]
    BY <2>1, <1>11, SubSeqProperties
  <2>3. Len(a) = k /\ a \in Seq(Nat)
    BY <2>2, <1>11, <1>12
  <2>4. ASSUME NEW i \in 1..k PROVE a[i] = backendPos + i - 1
    <3>1. i \in 1..(e - f + 1) /\ f + i - 1 \in f..e
      BY <1>11
    <3>2. a[i] = s[f + i - 1] /\ s[f + i - 1] = startPos + (f + i - 1) - 1
      BY <3>1, <2>1, <2>2, <1>12
    <3> QED  BY <3>2, <1>5, <1>10
  <2> QED  BY <2>3, <2>4
<1>14. a = [i \in 1..k |-> backendPos + i - 1]
  <2>1. a = [i \in 1..k |-> a[i]]
    BY <1>13, LenProperties
  <2> QED  BY <2>1, <1>13
<1>15. Stream!Available(n) = SubSeq(s, p + 1, Stream!Min({p + n, Len(s)}))
  BY <1>2, <1>4, Zenon DEF Stream!Available
<1>16. Stream!Min({p + n, l}) = Min({p + n, l})
  BY Zenon DEF Stream!Min, Min
<1> QED  BY <1>3, <1>6, <1>9, <1>10, <1>12, <1>14, <1>15, <1>16

\* The stream that the reader of a window sees.
StreamChars == IF mode = "in" THEN Chars(startPos, maxWrite) ELSE <<>>

\* Nothing a reader does changes his stream, nor does anything a writer does.
LEMMA SameStream ==
  ASSUME UNCHANGED fixed, mode = "in" => UNCHANGED backendSize
  PROVE  UNCHANGED <<StreamChars, maxWrite>>
<1>1. mode' = mode /\ startPos' = startPos /\ maxWrite' = maxWrite
  BY DEF fixed
<1>2. CASE mode = "in"
  <2>1. backendSize' = backendSize
    BY <1>2
  <2> QED  BY <1>1, <1>2, <2>1 DEF StreamChars, Chars
<1>3. CASE mode # "in"
  BY <1>1, <1>3 DEF StreamChars
<1> QED  BY <1>1, <1>2, <1>3

\* A seek to a place in the window, or none at all.
LEMMA StreamSeek ==
  ASSUME UNCHANGED fixed, mode = "in" => UNCHANGED backendSize,
         got' = <<>>, curReadPos' \in 0..maxWrite
  PROVE  Stream!Next
<1>1. UNCHANGED <<StreamChars, maxWrite>>
  BY SameStream
<1>2. Stream!Seek
  BY DEF Stream!Seek
<1> QED  BY <1>1, <1>2, Zenon DEF Stream!Next, StreamChars

\* A read of as much as the stream has.
LEMMA StreamRead ==
  ASSUME Window, mode = "in", NEW n \in 0..MaxRead, NEW r,
         r = IF n <= maxWrite - curReadPos THEN n ELSE maxWrite - curReadPos,
         Transfer(Chars(backendPos, r))
  PROVE  Stream!Next
<1>1. n \in Nat /\ r \in Nat
  BY BoundsAssumption DEF Window
<1>2. PICK c : c = Chars(backendPos, r) /\ c = Stream!Available(n)
  BY <1>1, AvailableIs
<1>3. /\ got' = c /\ curReadPos' = curReadPos + Len(c)
      /\ UNCHANGED fixed /\ UNCHANGED backendSize
  BY <1>2 DEF Transfer, ReadPosAfter
<1>4. Stream!Read(n)
  BY <1>2, <1>3 DEF Stream!Read
<1>5. UNCHANGED <<StreamChars, maxWrite>>
  BY <1>3, SameStream
<1> QED  BY <1>4, <1>5, Zenon DEF Stream!Next, StreamChars

\* A step of the window is a step of the reader's stream, or changes nothing in it.
LEMMA StreamStep ==
  ASSUME ~NegativeSeeks, Window, [WindowNext]_windowVars
  PROVE  Stream!Next \/ UNCHANGED Stream!vars
<1>w. /\ backendSize \in Nat /\ startPos \in Nat /\ maxWrite \in Nat
      /\ curReadPos \in 0..maxWrite /\ curReadPos \in Nat
  BY DEF Window
<1>1. ASSUME NEW n \in 0..MaxRead, xsgetn(n) PROVE Stream!Next
  <2>1. PICK r : r = InRange(n, curReadPos)
    OBVIOUS
  <2>2. r = IF n <= maxWrite - curReadPos THEN n ELSE maxWrite - curReadPos
    <3>1. n \in Nat /\ maxWrite \in Nat /\ curReadPos \in 0..maxWrite
      BY <1>w, BoundsAssumption
    <3> QED  BY <3>1, <2>1, InRangeIs
  <2>3. mode = "in" /\ Transfer(Chars(backendPos, r))
    BY <1>1, <2>1 DEF xsgetn
  <2> QED  BY <2>2, <2>3, StreamRead
<1>2. ASSUME uflow PROVE Stream!Next
  <2>1. CASE curReadPos >= maxWrite
    <3>1. Transfer(<<>>)
      BY <1>2, <2>1 DEF uflow
    <3>2. got' = <<>> /\ curReadPos' = curReadPos /\ UNCHANGED fixed /\ UNCHANGED backendSize
      BY <1>w, <3>1 DEF Transfer, ReadPosAfter
    <3> QED  BY <1>w, <3>2, StreamSeek
  <2>2. CASE ~(curReadPos >= maxWrite)
    <3>1. mode = "in" /\ Transfer(Chars(backendPos, 1))
      BY <1>2, <2>2 DEF uflow
    <3>2. 1 \in 0..MaxRead /\ 1 = IF 1 <= maxWrite - curReadPos THEN 1 ELSE maxWrite - curReadPos
      BY <1>w, <2>2, BoundsAssumption
    <3> QED  BY <3>1, <3>2, StreamRead
  <2> QED  BY <2>1, <2>2
<1>3. ASSUME underflow PROVE Stream!Next
  <2>1. /\ mode = "in" /\ UNCHANGED fixed /\ UNCHANGED backendSize /\ curReadPos' = curReadPos
        /\ got' = IF curReadPos >= maxWrite THEN <<>> ELSE Chars(backendPos, 1)
    BY <1>3 DEF underflow
  <2>2. CASE curReadPos >= maxWrite
    BY <1>w, <2>1, <2>2, StreamSeek
  <2>3. CASE ~(curReadPos >= maxWrite)
    <3>1. 1 \in Nat /\ 1 = IF 1 <= maxWrite - curReadPos THEN 1 ELSE maxWrite - curReadPos
      BY <1>w, <2>3
    <3>2. Chars(backendPos, 1) = Stream!Available(1)
      BY <2>1, <3>1, AvailableIs
    <3>3. Stream!Peek
      BY <2>1, <2>3, <3>2 DEF Stream!Peek
    <3>4. UNCHANGED <<StreamChars, maxWrite>>
      BY <2>1, SameStream
    <3> QED  BY <3>3, <3>4, Zenon DEF Stream!Next, StreamChars
  <2> QED  BY <2>2, <2>3
<1>4. ASSUME pbackfail PROVE Stream!Next
  <2>1. /\ UNCHANGED fixed /\ UNCHANGED backendSize
        /\ curReadPos > startPos /\ curReadPos' = curReadPos - 1 /\ got' = <<>>
    BY <1>4 DEF pbackfail
  <2>2. Stream!PutBack
    BY <1>w, <2>1 DEF Stream!PutBack
  <2>3. UNCHANGED <<StreamChars, maxWrite>>
    BY <2>1, SameStream
  <2> QED  BY <2>2, <2>3, Zenon DEF Stream!Next, StreamChars
<1>5. ASSUME NEW n, mode = "out", Put(n) PROVE UNCHANGED Stream!vars
  <2>1. UNCHANGED fixed /\ UNCHANGED <<curReadPos, got>>
    BY <1>5 DEF Put
  <2>2. UNCHANGED <<StreamChars, maxWrite>>
    BY <1>5, <2>1, SameStream
  <2> QED  BY <2>1, <2>2, Zenon DEF Stream!vars, StreamChars
<1>6. ASSUME NEW p \in Nat, SeekTo(p) PROVE Stream!Next
  <2>1. /\ p \in 0..maxWrite /\ curReadPos' = p /\ got' = <<>>
        /\ UNCHANGED fixed /\ UNCHANGED backendSize
    BY <1>w, <1>6 DEF SeekTo
  <2> QED  BY <2>1, StreamSeek
<1>7. ASSUME NEW off \in Offsets, seekpos(off) \/ seekoffEnd(off) \/ seekoffCur(off)
      PROVE  Stream!Next
  <2>1. off \in Int
    BY BoundsAssumption DEF Offsets
  <2>2. CASE seekpos(off)
    BY <2>1, <2>2, <1>6 DEF seekpos
  <2>3. CASE seekoffEnd(off)
    <3>1. PICK p : p = maxWrite + off
      OBVIOUS
    <3>2. p \in Nat /\ SeekTo(p)
      BY <1>w, <2>1, <2>3, <3>1 DEF seekoffEnd
    <3> QED  BY <3>2, <1>6
  <2>4. CASE seekoffCur(off)
    <3>1. got' = <<>> /\ UNCHANGED fixed /\ UNCHANGED backendSize
      BY <2>4 DEF seekoffCur
    <3>2. curReadPos' \in 0..maxWrite
      <4>1. mode = "in" => curReadPos' = CurPos + off
        BY <1>w, <2>1, <2>4, SeekCurIs DEF CurPos, seekoffCur, fixed
      <4>2. mode # "in" => curReadPos' = curReadPos
        BY <2>4 DEF seekoffCur
      <4> QED  BY <1>w, <2>1, <2>4, <4>1, <4>2, SeekCurIs DEF Window
    <3> QED  BY <3>1, <3>2, StreamSeek
  <2> QED  BY <1>7, <2>2, <2>3, <2>4
<1>8. ASSUME UNCHANGED windowVars PROVE UNCHANGED Stream!vars
  <2>1. UNCHANGED fixed /\ UNCHANGED <<backendSize, curReadPos, got>>
    BY <1>8 DEF windowVars, fixed
  <2>2. UNCHANGED <<StreamChars, maxWrite>>
    BY <2>1, SameStream
  <2> QED  BY <2>1, <2>2, Zenon DEF Stream!vars, StreamChars
<1> QED  BY <1>1, <1>2, <1>3, <1>4, <1>5, <1>7, <1>8 DEF WindowNext, overflow, xsputn

\* Every reachable state satisfies the invariant.
LEMMA WindowInvariance == ASSUME ~NegativeSeeks PROVE WindowSpec => []Window
<1>1. WindowInit => Window
  BY WindowInitially
<1>2. Window /\ [WindowNext]_windowVars => Window'
  BY WindowStep
<1> QED  BY <1>1, <1>2, PTL DEF WindowSpec

\* If no positions before the window are sought, the window's own position
\* is always that of the backend.
THEOREM MovesTogether == ASSUME ~NegativeSeeks PROVE WindowSpec => []Synced
<1>1. Window => Synced
  BY DEF Window
<1> QED  BY <1>1, WindowInvariance, PTL

\* The backend stays in the window, and nothing else is written.
THEOREM StaysInWindow == ASSUME ~NegativeSeeks PROVE WindowSpec => []InWindow
<1>1. Window => InWindow
  BY DEF Window, InWindow, Synced, CurPos
<1> QED  BY <1>1, WindowInvariance, PTL

\* A window is a stream of its own to its reader.
THEOREM ReadsOwnStream == ASSUME ~NegativeSeeks PROVE WindowSpec => ReadsWindow
<1>1. WindowInit => Stream!Init
  BY DEF WindowInit, Stream!Init
<1>2. Window /\ [WindowNext]_windowVars => [Stream!Next]_Stream!vars
  BY StreamStep
<1> QED  BY <1>1, <1>2, WindowInvariance, PTL DEF WindowSpec, ReadsWindow, Stream!Spec

=============================================================================
