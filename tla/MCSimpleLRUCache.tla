------------------------- MODULE MCSimpleLRUCache --------------------------
(* Small instances of SimpleLRUCache for TLC.                              *)
EXTENDS SimpleLRUCache, TLC

\* The cache compares keys and values for equality only.
Symmetry == Permutations(Keys) \cup Permutations(Values)
=============================================================================
