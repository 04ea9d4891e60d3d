--------------------------- MODULE MC_SegmentCache ---------------------------
(* Instances of SegmentCache for TLC.                                      *)
EXTENDS SegmentCache, TLC

CONSTANTS t1, t2, k1, k2, k3

\* Warm state for the concurrent runs: k1, k2 and k3 inserted and erased,
\* then k1 and k2 inserted, with one slot per segment: five segments,
\* count = 4 and usage_ = 5 = capacity_ (an erased entry keeps its charge
\* until its last slot is evicted), so the first new insert makes
\* EvictOne detach a tail segment.
MCWarm ==
  <<[key |-> k1, indexed |-> FALSE], [key |-> k2, indexed |-> FALSE],
    [key |-> k3, indexed |-> FALSE], [key |-> k1, indexed |-> TRUE],
    [key |-> k2, indexed |-> TRUE]>>
MCBudget2 == [t \in Threads |-> 2]

\* Cold start, one client, three inserts (the DISABLED_HitAndMiss pattern).
MCCold == <<>>
MCBudget3 == [t \in Threads |-> 3]

\* One client stalls inside one Insert while the other issues six requests.
MCBudgetRace == (t1 :> 1) @@ (t2 :> 6)

=============================================================================
