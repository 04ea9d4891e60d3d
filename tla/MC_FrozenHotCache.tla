------------------------- MODULE MC_FrozenHotCache --------------------------
(* Instances of FrozenHotCache for TLC.                                    *)
EXTENDS FrozenHotCache, TLC

CONSTANTS t1, t2, k1, k2, k3

MCBudget1 == [t \in Threads |-> 1]
MCBudget2 == [t \in Threads |-> 2]
(* An empty cache, or, with capacity 1, k1 and k2 both let in: two       *)
(* inserts that read m_size = 0 both push, and "s = m_size++" gives them *)
(* s = 0 and s = 1, neither above m_max_size, so m_size ends at 2.        *)
MCWarmEmptyOrOver == {<<>>, <<k1, k2>>}

(***************************************************************************)
(* What the rest of a behaviour depends on.  Locals of a client that is   *)
(* idle, and of the monitor between hooks, are dead: every request and    *)
(* every hook assigns them before reading them.  Freed cells are never    *)
(* read (Deref faults first, LkMtime chooses freely).  Times are only     *)
(* compared with each other, and NowMicros() is later than all of them,   *)
(* so only their order among the live ones counts.  States that agree on  *)
(* this view have the same futures.                                        *)
(***************************************************************************)
LiveTimes ==
  {mtime[c] : c \in alive} \cup
  {lastUpdate[t] : t \in {u \in Threads : pc[u] \in {"lk_marker", "lk_mtime"}}}
TimeRank(v) == Cardinality({x \in LiveTimes : x < v})
ClientFrame(t) ==
  IF pc[t] = "idle" THEN <<>>
  ELSE <<key[t], node[t], s[t], done[t], victim[t], ret[t],
         TimeRank(lastUpdate[t]), mk[t]>>
HookFrame ==
  IF cpc \in Phases \cup {"stopped"} THEN <<>>
  ELSE <<cret, cur, count, fcSize, firstPass, evNum>>
DeadDataView ==
  << [c \in Sentinels \cup alive |-> <<link[c], nkey[c], TimeRank(mtime[c])>>],
     alive, nextId, shardVars, fault, pc, ops, cpc, hooks,
     [t \in Threads |-> ClientFrame(t)], HookFrame >>
=============================================================================
