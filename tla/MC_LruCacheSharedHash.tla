------------------------ MODULE MC_LruCacheSharedHash ------------------------
(* Instances of LruCacheSharedHash for TLC.                                *)
EXTENDS LruCacheSharedHash, TLC

CONSTANTS t1, t2, k1, k2

MCBudget2 == [t \in Threads |-> 2]
\* k1 inserted: one cached entry.
MCWarm1 == {<<k1>>}
=============================================================================
