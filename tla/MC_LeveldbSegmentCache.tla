----------------------- MODULE MC_LeveldbSegmentCache -----------------------
(* Instances of LeveldbSegmentCache for TLC.                               *)
EXTENDS LeveldbSegmentCache, TLC

CONSTANTS t1, t2

MCKeys == 1 .. 2
\* A client inserts, releases its handle, and inserts again.
MCBudget3 == [t \in Threads |-> 3]
=============================================================================
