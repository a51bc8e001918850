-------------------------- MODULE MCSharedBuffer --------------------------
(* Instances of SharedBuffer for TLC.                                      *)
EXTENDS SharedBuffer, TLC

CONSTANTS s, t, x, y, a, blank

MCSources == {<<>>, <<a>>, <<a, blank>>}

\* Two strings are used alike, and so are two byte arrays.
Symmetry == Permutations(Strings) \cup Permutations(Bytes)
=============================================================================
