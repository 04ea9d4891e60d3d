---------------------------- MODULE MC_LruCache -----------------------------
(* Instances of LruCache for TLC.                                          *)
EXTENDS LruCache, TLC

CONSTANTS t1, t2, t3, k1, k2, k3

MCBudget2 == [t \in Threads |-> 2]
MCBudget1 == [t \in Threads |-> 1]
\* k1 inserted: with capacity 1, a full cache.
MCWarm1 == {<<k1>>}
\* k1 then k2 inserted: with capacity 2, a full cache.
MCWarmFull == {<<k1, k2>>}
=============================================================================
