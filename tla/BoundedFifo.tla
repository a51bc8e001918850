---------------------------- MODULE BoundedFifo ----------------------------
(***************************************************************************)
(* What nxcommon/RingBuffer.h promises its one writer and its one reader:  *)
(* a queue of at most `capacity' elements.  A write appends, in one step,  *)
(* a prefix of what was offered; a read takes a prefix of the queue.  Both *)
(* may do less than was asked: the class says how much they did.           *)
(***************************************************************************)
EXTENDS Naturals, SequencesExt

CONSTANTS Elem,       \* what a slot can hold
          Capacities,
          MaxLen      \* the longest write

VARIABLES
    queue,
    capacity,
    offer,   \* the elements of the write in progress, <<>> between writes
    got      \* what the last call of the reader returned, <<>> during a call

vars == <<queue, capacity, offer, got>>

Prefix(s, n) == SubSeq(s, 1, n)
Remainder(s, n)   == SubSeq(s, n + 1, Len(s))

Init ==
    /\ queue = <<>>
    /\ capacity \in Capacities
    /\ offer = <<>>
    /\ got = <<>>

Offer(data) ==
    /\ offer = <<>>
    /\ offer' = data
    /\ UNCHANGED <<queue, capacity, got>>

Put(n) ==
    /\ n <= Len(offer)
    /\ Len(queue) + n <= capacity
    /\ queue' = queue \o Prefix(offer, n)
    /\ offer' = <<>>
    /\ UNCHANGED <<capacity, got>>

\* advanceWrite(): the elements are what the slots hold.
Expose(s) ==
    /\ offer = <<>>
    /\ Len(queue) + Len(s) <= capacity
    /\ queue' = queue \o s
    /\ UNCHANGED <<capacity, offer, got>>

\* The reader calls.
Ask ==
    /\ got' = <<>>
    /\ UNCHANGED <<queue, capacity, offer>>

Take(n) ==
    /\ n <= Len(queue)
    /\ queue' = Remainder(queue, n)
    /\ got' = Prefix(queue, n)
    /\ UNCHANGED <<capacity, offer>>

Peek(n) ==
    /\ n <= Len(queue)
    /\ got' = Prefix(queue, n)
    /\ UNCHANGED <<queue, capacity, offer>>

Discard(n) ==
    /\ n <= Len(queue)
    /\ queue' = Remainder(queue, n)
    /\ UNCHANGED <<capacity, offer, got>>

Next ==
    \/ \E data \in BoundedSeq(Elem, MaxLen) : Offer(data)
    \/ \E n \in 0..Len(offer) : Put(n)
    \/ \E s \in BoundedSeq(Elem, capacity) : Expose(s)
    \/ Ask
    \/ \E n \in 0..Len(queue) : Take(n) \/ Peek(n) \/ Discard(n)

Spec == Init /\ [][Next]_vars

=============================================================================
