------------------------- MODULE MCQuotaAggregator -------------------------
(* Small instances of QuotaAggregator for TLC.                             *)
EXTENDS QuotaAggregator, TLC

\* Keys are interchangeable: nothing in the code orders signatures.
Symmetry == Permutations(Keys)
=============================================================================
