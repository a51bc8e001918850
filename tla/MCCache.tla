------------------------------ MODULE MCCache ------------------------------
(* Small instances of Cache for TLC.                                       *)
EXTENDS Cache, TLC

\* Keys are told apart only by being different, and so are values.
Symmetry == Permutations(Key) \cup Permutations(Value)

=============================================================================
