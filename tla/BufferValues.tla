--------------------------- MODULE BufferValues ---------------------------
(***************************************************************************)
(* What copy-on-write promises: buffers are values.  An operation changes  *)
(* the buffer it is called on and no other, whatever they share, and takes *)
(* its argument as it was before the call, itself included.                *)
(***************************************************************************)
EXTENDS Naturals, Sequences

CONSTANTS Handles,     \* the objects (variables of the program)
          Elem,        \* what they hold
          MaxSize,     \* bound: the longest value
          Trimmed,     \* the elements ltrim() and rtrim() remove
          Sources      \* the arrays objects are constructed from

VARIABLES val, isnull

Init == val = [h \in Handles |-> <<>>] /\ isnull = [h \in Handles |-> TRUE]

\* An operation on h changes no other object.
OnlyOf(h) == val' = [val EXCEPT ![h] = val'[h]] /\ isnull' = [isnull EXCEPT ![h] = isnull'[h]]

\* It leaves v in h, which is no null buffer afterwards.
Modified(h, v) == isnull'[h] = FALSE /\ val'[h] = v

Clear(h) == isnull'[h] = TRUE /\ val'[h] = <<>>

\* A null object takes the value of an array; nothing else makes a value up.
Construct(h) == isnull[h] /\ \E s \in Sources: Modified(h, s)

Assign(h, g) == isnull'[h] = isnull[g] /\ val'[h] = val[g]

Insert(h, i, v) == Modified(h, SubSeq(val[h], 1, i) \o v \o SubSeq(val[h], i + 1, Len(val[h])))

\* An element, or the value of a buffer, goes in at any place, both ends included.
InsertAny(h) == \E i \in 0..Len(val[h]):
    \/ \E u \in Elem: Insert(h, i, <<u>>)
    \/ \E g \in Handles: Insert(h, i, val[g])

Extend(h) == \E u \in Elem, n \in 1..(MaxSize - Len(val[h])): Modified(h, val[h] \o [i \in 1..n |-> u])

Truncate(h) == \E n \in 0..Len(val[h]): Modified(h, SubSeq(val[h], 1, n))

\* ltrim() and rtrim() remove all they can at one end, and only there.
LTrim(h) == \E i \in 0..Len(val[h]):
    /\ \A j \in 1..i: val[h][j] \in Trimmed
    /\ i = Len(val[h]) \/ val[h][i + 1] \notin Trimmed
    /\ Modified(h, SubSeq(val[h], i + 1, Len(val[h])))
RTrim(h) == \E i \in 0..Len(val[h]):
    /\ \A j \in (i + 1)..Len(val[h]): val[h][j] \in Trimmed
    /\ i = 0 \/ val[h][i] \notin Trimmed
    /\ Modified(h, SubSeq(val[h], 1, i))

Store(h) == \E i \in DOMAIN val[h], u \in Elem: Modified(h, [val[h] EXCEPT ![i] = u])

\* reserve(), squeeze() and mget() count as modifications.
Touch(h) == Modified(h, val[h])

Next == \E h \in Handles: OnlyOf(h) /\
    \/ Clear(h) \/ Construct(h) \/ InsertAny(h) \/ Extend(h) \/ Truncate(h)
    \/ LTrim(h) \/ RTrim(h) \/ Store(h) \/ Touch(h)
    \/ \E g \in Handles: Assign(h, g)

Spec == Init /\ [][Next]_<<val, isnull>>
=============================================================================
