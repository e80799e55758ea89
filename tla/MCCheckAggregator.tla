------------------------- MODULE MCCheckAggregator -------------------------
(* Small instances of CheckAggregator for TLC.                             *)
EXTENDS CheckAggregator, TLC

\* Neither signatures nor operations are ordered by the code.
Symmetry == Permutations(Keys) \cup Permutations(Operations)
=============================================================================
