------------------------ MODULE MC_RocksdbSegmentCache -----------------------
(* Instances of RocksdbSegmentCache for TLC.                               *)
EXTENDS RocksdbSegmentCache, Sequences, TLC

CONSTANTS t1, t2

(***************************************************************************)
(* A warm shard of 22 two-slot segments, count = 21, one slot free in the  *)
(* head: k1 and k2 inserted, k4 inserted, k1 looked up (a slot with       *)
(* version 2), k5 inserted and looked up 38 times.  The tail holds k1's   *)
(* stale slot and k2's current one; usage_ = 4, one below capacity_.      *)
(***************************************************************************)
MCWarm == <<1, 2, 4, 1>> \o [i \in 1..39 |-> 5]
MCKeys == 1 .. 5
MCBudget2 == [t \in Threads |-> 2]
MCBudget3 == [t \in Threads |-> 3]
=============================================================================
