-------------------------- MODULE MCResourceCache --------------------------
(* Small instances of ResourceCache for TLC.                               *)
EXTENDS ResourceCache, TLC

\* Keys, values and Pointers are told apart only by being different.
Symmetry == Permutations(Key) \cup Permutations(Value) \cup Permutations(Pointer)

=============================================================================
