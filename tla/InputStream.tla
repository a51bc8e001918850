---------------------------- MODULE InputStream ----------------------------
(***************************************************************************)
(* What a reader may expect of an input stream of its own: characters in   *)
(* order from a position that moves only as far as was read, or to where   *)
(* it was sought, within the bounds of the stream.                         *)
(***************************************************************************)
EXTENDS Naturals, FiniteSetsExt, SequencesExt

CONSTANTS MaxRead   \* the longest read

VARIABLES
    chars, bound,   \* the stream, and the last position it may be sought to
    pos,
    got             \* what the last call returned

vars == <<chars, bound, pos, got>>

Init == pos = 0 /\ got = <<>>

Available(n) == SubSeq(chars, pos + 1, Min({pos + n, Len(chars)}))

Read(n) ==
    /\ got' = Available(n)
    /\ pos' = pos + Len(got')

Peek == got' = Available(1) /\ pos' = pos

(* To a place of the stream, or nowhere.                                   *)
Seek == got' = <<>> /\ pos' \in 0..bound

PutBack == pos > 0 /\ got' = <<>> /\ pos' = pos - 1

Next ==
    /\ UNCHANGED <<chars, bound>>
    /\ Peek \/ Seek \/ PutBack \/ \E n \in 0..MaxRead : Read(n)

Spec == Init /\ [][Next]_vars
=============================================================================
