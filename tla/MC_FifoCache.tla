---------------------------- MODULE MC_FifoCache ----------------------------
(* Instances of FifoCache for TLC.                                         *)
EXTENDS FifoCache, TLC

CONSTANTS t1, t2, t3, k1, k2, k3

\* The clients start after k1, or k1 then k2, were inserted: with capacity 2
\* a cache with room for one more entry, or a full one.
MCWarmFullOrNot == {<<k1>>, <<k1, k2>>}
MCBudget2 == [t \in Threads |-> 2]
MCBudget1 == [t \in Threads |-> 1]
\* k1 inserted: with capacity 1, a full cache.
MCWarm1 == {<<k1>>}
\* k1 then k2 inserted: with capacity 2, a full cache.
MCWarmFull == {<<k1, k2>>}
MCCold == {<<>>}
=============================================================================
