-------------------- MODULE MCCacheRemovedItemsHandler ---------------------
(* Small instances of CacheRemovedItemsHandler for TLC.                    *)
EXTENDS CacheRemovedItemsHandler, TLC

\* Threads of one kind other than the owner, and items, are interchangeable.
Symmetry == Permutations(Users \ {Owner}) \cup Permutations(Background)
            \cup Permutations(Items)
=============================================================================
