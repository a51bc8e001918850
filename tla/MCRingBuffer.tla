---------------------------- MODULE MCRingBuffer ----------------------------
(* Small instances of RingBuffer for TLC.                                  *)
EXTENDS RingBuffer, TLC

\* Elements are told apart only by being different.
Symmetry == Permutations(Elem)

=============================================================================
