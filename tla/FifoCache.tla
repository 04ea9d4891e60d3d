----------------------------- MODULE FifoCache -----------------------------
(***************************************************************************)
(* One shard of the FIFO policy, FifoCache<Key,Value> of                  *)
(* src/cache/fifo_cache.h, run by several client threads.                 *)
(*                                                                         *)
(* The shard is a TBB hash map m_map (key -> list node, with per-key      *)
(* accessor locks), an intrusive doubly linked list m_head ... m_tail     *)
(* guarded by m_list_mtx, and usage_.  Every critical section of          *)
(* m_list_mtx is a single step here, so the mutex needs no variable.  The *)
(* list is a sequence of nodes, front (m_head.m_next) first; a node that  *)
(* is not in the sequence has m_prev == out_of_list_marker_.              *)
(***************************************************************************)
EXTENDS Integers, Sequences, FiniteSets, SequencesExt

CONSTANTS
  Threads,    \* client threads
  Keys,       \* keys the clients use
  NoThread,   \* "no accessor holder"
  Capacity,   \* capacity_
  OpBudget,   \* [Threads -> Nat]: requests each client issues
  Requests,   \* the request kinds of the workload (trace op types)
  WarmChoices,\* set of sequences of distinct keys: the inserts done one after
              \* the other before the clients start
  UsageMax    \* 2^64 - 1, the largest uint64_t; any value above every count
              \* the bounds reach compares with them as 2^64 - 1 does

ASSUME Capacity \in Nat /\ UsageMax \in Nat /\ OpBudget \in [Threads -> Nat] /\ NoThread \notin Threads
ASSUME Requests \subseteq {"insert", "lookup", "erase"}
ASSUME \A w \in WarmChoices : IsInjective(w) /\ Len(w) <= Capacity

NoNode == 0
NWarm == Max({Len(w) : w \in WarmChoices})
TotalOps == FoldFunction(+, 0, OpBudget)
NodeIds == 1 .. (NWarm + TotalOps)

VARIABLES
  map,        \* m_map: key -> list node (NoNode when absent)
  writer,     \* key -> thread holding an accessor on it
  nodeKey,    \* ListNode::m_key of every allocated node
  freed,      \* nodes that were deleted
  nextNode,   \* nodes allocated so far
  list,       \* the list, front first; tail is Last(list)
  usage,      \* usage_
  pc, ops, key, node, s, done, victim, ret   \* per-thread locals

shardVars == <<map, writer, nodeKey, freed, nextNode, list, usage>>
threadVars == <<pc, ops, key, node, s, done, victim, ret>>
vars == <<shardVars, threadVars>>

-----------------------------------------------------------------------------
(* The keys of a warm choice inserted one at a time into an empty cache:  *)
(* each push goes to the front, so the first key is the tail.              *)
Init ==
  \E w \in WarmChoices :
  /\ map = [k \in Keys |-> IF \E i \in 1..Len(w) : w[i] = k
                           THEN CHOOSE i \in 1..Len(w) : w[i] = k
                           ELSE NoNode]
  /\ writer = [k \in Keys |-> NoThread]
  /\ nodeKey = [n \in NodeIds |-> IF n <= Len(w) THEN w[n]
                                  ELSE CHOOSE k \in Keys : TRUE]
  /\ freed = {}
  /\ nextNode = Len(w)
  /\ list = Reverse([i \in 1..Len(w) |-> i])
  /\ usage = Len(w)
  /\ pc = [t \in Threads |-> "idle"]
  /\ ops = [t \in Threads |-> 0]
  /\ key = [t \in Threads |-> CHOOSE k \in Keys : TRUE]
  /\ node = [t \in Threads |-> NoNode]
  /\ s = [t \in Threads |-> 0]
  /\ done = [t \in Threads |-> FALSE]
  /\ victim = [t \in Threads |-> NoNode]
  /\ ret = [t \in Threads |-> "idle"]

Goto(t, from, to) == pc[t] = from /\ pc' = [pc EXCEPT ![t] = to]

\* The accessor taken by insert, find(accessor) or erase on k is granted.
\* Lookup's const_accessor lives within its one step, so only accessors
\* are held across steps.
Unlocked(k) == writer[k] = NoThread

InList(n) == \E i \in 1..Len(list) : list[i] = n

\* usage_++ and usage_-- on std::atomic<uint64_t>: modulo 2^64.
UsageInc(u) == IF u = UsageMax THEN 0 ELSE u + 1
UsageDec(u) == IF u = 0 THEN UsageMax ELSE u - 1

\* ListRemove(node): unlink from the list, m_prev = out_of_list_marker_.
ListRemove(n) == SelectSeq(list, LAMBDA m : m /= n)

\* ListPushFront(node).
ListPushFront(n) == <<n>> \o list

-----------------------------------------------------------------------------
(* A client issues its next request.                                       *)
StartOp(t) ==
  /\ pc[t] = "idle"
  /\ ops[t] < OpBudget[t]
  /\ \E o \in Requests, k \in Keys :
       /\ pc' = [pc EXCEPT ![t] = o]
       /\ key' = [key EXCEPT ![t] = k]
  /\ ops' = [ops EXCEPT ![t] = @ + 1]
  /\ UNCHANGED <<shardVars, node, s, done, victim, ret>>

(* Lookup: find under a const_accessor, read the value, release it.  It    *)
(* changes nothing but waits while another thread holds the key's accessor.*)
Lookup(t) ==
  /\ Goto(t, "lookup", "idle")
  /\ map[key[t]] = NoNode \/ writer[key[t]] = NoThread
  /\ UNCHANGED <<shardVars, ops, key, node, s, done, victim, ret>>

(* Insert, up to m_map.insert(hash_accessor, ...): a new node is mapped    *)
(* and its accessor held; on a present key the accessor is taken, the      *)
(* value updated, the node deleted and false returned.  Then               *)
(* s = usage_.load().                                                      *)
Insert(t) ==
  LET k == key[t]
      n == nextNode + 1
  IN
  /\ pc[t] = "insert"
  /\ nextNode' = n
  /\ nodeKey' = [nodeKey EXCEPT ![n] = k]
  /\ \/ /\ map[k] = NoNode
        /\ map' = [map EXCEPT ![k] = n]
        /\ writer' = [writer EXCEPT ![k] = t]
        /\ node' = [node EXCEPT ![t] = n]
        /\ s' = [s EXCEPT ![t] = usage]
        /\ pc' = [pc EXCEPT ![t] = "ins_check"]
        /\ UNCHANGED freed
     \/ /\ map[k] /= NoNode
        /\ Unlocked(k)
        /\ freed' = freed \cup {n}
        /\ pc' = [pc EXCEPT ![t] = "idle"]
        /\ UNCHANGED <<map, writer, node, s>>
  /\ UNCHANGED <<list, usage, ops, key, done, victim, ret>>

(* if (s >= capacity_) { EvictOne(); done = true; }                        *)
InsCheck(t) ==
  /\ pc[t] = "ins_check"
  /\ IF s[t] >= Capacity
     THEN /\ pc' = [pc EXCEPT ![t] = "ev_pop"]
          /\ ret' = [ret EXCEPT ![t] = "ins_push"]
          /\ done' = [done EXCEPT ![t] = TRUE]
     ELSE /\ pc' = [pc EXCEPT ![t] = "ins_push"]
          /\ done' = [done EXCEPT ![t] = FALSE]
          /\ UNCHANGED ret
  /\ UNCHANGED <<shardVars, ops, key, node, s, victim>>

(* Under m_list_mtx: ListPushFront(node).                                  *)
InsPush(t) ==
  /\ Goto(t, "ins_push", IF done[t] THEN "ins_cas" ELSE "ins_incr")
  /\ list' = ListPushFront(node[t])
  /\ UNCHANGED <<map, writer, nodeKey, freed, nextNode, usage,
                 ops, key, node, s, done, victim, ret>>

(* if (!done) { usage_++; s = usage_.load(); }  two atomic accesses.       *)
InsIncr(t) ==
  /\ Goto(t, "ins_incr", "ins_load")
  /\ usage' = UsageInc(usage)
  /\ UNCHANGED <<map, writer, nodeKey, freed, nextNode, list,
                 ops, key, node, s, done, victim, ret>>

InsLoad(t) ==
  /\ Goto(t, "ins_load", "ins_cas")
  /\ s' = [s EXCEPT ![t] = usage]
  /\ UNCHANGED <<shardVars, ops, key, node, done, victim, ret>>

(* if (s > capacity_ && usage_.compare_exchange_strong(s, s - 1))          *)
(*   EvictOne();                                                           *)
InsCas(t) ==
  /\ pc[t] = "ins_cas"
  /\ IF s[t] > Capacity /\ usage = s[t]
     THEN /\ usage' = s[t] - 1
          /\ pc' = [pc EXCEPT ![t] = "ev_pop"]
          /\ ret' = [ret EXCEPT ![t] = "ins_done"]
     ELSE /\ pc' = [pc EXCEPT ![t] = "ins_done"]
          /\ UNCHANGED <<usage, ret>>
  /\ UNCHANGED <<map, writer, nodeKey, freed, nextNode, list,
                 ops, key, node, s, done, victim>>

\* Mutant of InsDone: the accessor is never released.
InsDoneKeepsAccessor(t) ==
  /\ Goto(t, "ins_done", "idle")
  /\ UNCHANGED <<map, writer, nodeKey, freed, nextNode, list, usage,
                 ops, key, node, s, done, victim, ret>>

(* return true: hash_accessor goes out of scope.                           *)
InsDone(t) ==
  /\ Goto(t, "ins_done", "idle")
  /\ writer' = [writer EXCEPT ![key[t]] = NoThread]
  /\ UNCHANGED <<map, nodeKey, freed, nextNode, list, usage,
                 ops, key, node, s, done, victim, ret>>

-----------------------------------------------------------------------------
(* EvictOne, called from Insert with the caller's accessor still held.     *)

\* Mutant of EvPop: no "List is empty!" check, so m_head itself is taken.
EvPopNoEmptyCheck(t) ==
  /\ Goto(t, "ev_pop", "ev_find")
  /\ victim' = [victim EXCEPT ![t] = IF list = <<>> THEN NoNode ELSE Last(list)]
  /\ list' = Front(list)
  /\ UNCHANGED <<map, writer, nodeKey, freed, nextNode, usage,
                 ops, key, node, s, done, ret>>

\* Mutant of EvPop: node = m_head.m_next, the newest node, is taken.
EvPopNewest(t) ==
  /\ pc[t] = "ev_pop"
  /\ IF list = <<>>
     THEN /\ pc' = [pc EXCEPT ![t] = ret[t]]
          /\ UNCHANGED <<list, victim>>
     ELSE /\ victim' = [victim EXCEPT ![t] = Head(list)]
          /\ list' = Tail(list)
          /\ pc' = [pc EXCEPT ![t] = "ev_find"]
  /\ UNCHANGED <<map, writer, nodeKey, freed, nextNode, usage,
                 ops, key, node, s, done, ret>>

(* Under m_list_mtx: node = m_tail.m_prev; on an empty list print and      *)
(* return; otherwise ListRemove(node).                                     *)
EvPop(t) ==
  /\ pc[t] = "ev_pop"
  /\ IF list = <<>>
     THEN /\ pc' = [pc EXCEPT ![t] = ret[t]]
          /\ UNCHANGED <<list, victim>>
     ELSE /\ victim' = [victim EXCEPT ![t] = Last(list)]
          /\ list' = Front(list)
          /\ pc' = [pc EXCEPT ![t] = "ev_find"]
  /\ UNCHANGED <<map, writer, nodeKey, freed, nextNode, usage,
                 ops, key, node, s, done, ret>>

\* Mutants of EvFind: the key is left in the map; the node is not deleted.
EvFindNoErase(t) ==
  LET k == nodeKey[victim[t]] IN
  /\ Goto(t, "ev_find", ret[t])
  /\ map[k] = NoNode \/ Unlocked(k)
  /\ freed' = IF map[k] = NoNode THEN freed ELSE freed \cup {victim[t]}
  /\ UNCHANGED <<map, writer, nodeKey, nextNode, list, usage,
                 ops, key, node, s, done, victim, ret>>
EvFindNoDelete(t) ==
  LET k == nodeKey[victim[t]] IN
  /\ Goto(t, "ev_find", ret[t])
  /\ map[k] = NoNode \/ Unlocked(k)
  /\ map' = [map EXCEPT ![k] = NoNode]
  /\ UNCHANGED <<freed, writer, nodeKey, nextNode, list, usage,
                 ops, key, node, s, done, victim, ret>>

(* m_map.find(hash_accessor, node->m_key): waits for the key's accessor,   *)
(* the caller's own included.  Absent key: "Presumably unreachable",       *)
(* return without deleting the node.  Present: erase the key, whatever     *)
(* node it maps to now, and delete the popped node.                        *)
EvFind(t) ==
  LET k == nodeKey[victim[t]] IN
  /\ Goto(t, "ev_find", ret[t])
  /\ map[k] = NoNode \/ Unlocked(k)
  /\ IF map[k] = NoNode
     THEN UNCHANGED <<map, freed>>
     ELSE /\ map' = [map EXCEPT ![k] = NoNode]
          /\ freed' = freed \cup {victim[t]}
  /\ UNCHANGED <<writer, nodeKey, nextNode, list, usage,
                 ops, key, node, s, done, victim, ret>>

-----------------------------------------------------------------------------
(* Erase: find(accessor, key); absent: return false.                       *)
Erase(t) ==
  LET k == key[t] IN
  /\ pc[t] = "erase"
  /\ \/ /\ map[k] = NoNode
        /\ pc' = [pc EXCEPT ![t] = "idle"]
        /\ UNCHANGED <<writer, node>>
     \/ /\ map[k] /= NoNode
        /\ Unlocked(k)
        /\ writer' = [writer EXCEPT ![k] = t]
        /\ node' = [node EXCEPT ![t] = map[k]]
        /\ pc' = [pc EXCEPT ![t] = "er_unlink"]
  /\ UNCHANGED <<map, nodeKey, freed, nextNode, list, usage,
                 ops, key, s, done, victim, ret>>

(* Under m_list_mtx: ListRemove(node), with no is_in_list() check.  On a   *)
(* node that is not in the list, prev is out_of_list_marker_ and           *)
(* prev->m_next is a store through the address -1: the thread crashes.   *)
ErUnlink(t) ==
  /\ Goto(t, "er_unlink", IF InList(node[t]) THEN "er_erase" ELSE "crashed")
  /\ list' = ListRemove(node[t])
  /\ UNCHANGED <<map, writer, nodeKey, freed, nextNode, usage,
                 ops, key, node, s, done, victim, ret>>

\* Mutant of ErErase: the node is not deleted.
ErEraseNoDelete(t) ==
  /\ Goto(t, "er_erase", "idle")
  /\ map' = [map EXCEPT ![key[t]] = NoNode]
  /\ writer' = [writer EXCEPT ![key[t]] = NoThread]
  /\ usage' = UsageDec(usage)
  /\ UNCHANGED <<freed, nodeKey, nextNode, list, ops, key, node, s, done,
                 victim, ret>>

(* m_map.erase(accessor); delete node; usage_--.                           *)
ErErase(t) ==
  /\ Goto(t, "er_erase", "idle")
  /\ map' = [map EXCEPT ![key[t]] = NoNode]
  /\ writer' = [writer EXCEPT ![key[t]] = NoThread]
  /\ freed' = freed \cup {node[t]}
  /\ usage' = UsageDec(usage)
  /\ UNCHANGED <<nodeKey, nextNode, list, ops, key, node, s, done,
                 victim, ret>>

-----------------------------------------------------------------------------
\* A crashed thread has taken the whole process down.
Crashed == \E t \in Threads : pc[t] = "crashed"

\* Every client has issued all its requests and finished them, or the
\* process has crashed: nothing happens any more.
Finished ==
  /\ \/ \A t \in Threads : pc[t] = "idle" /\ ops[t] = OpBudget[t]
     \/ Crashed
  /\ UNCHANGED vars

ThreadStep(t) ==
  /\ ~Crashed
  /\ \/ StartOp(t) \/ Lookup(t) \/ Insert(t) \/ InsCheck(t) \/ InsPush(t)
     \/ InsIncr(t) \/ InsLoad(t) \/ InsCas(t) \/ InsDone(t)
     \/ EvPop(t) \/ EvFind(t) \/ Erase(t) \/ ErUnlink(t) \/ ErErase(t)

Next == (\E t \in Threads : ThreadStep(t)) \/ Finished

\* Client threads are OS threads, scheduled while they have a step to take.
Fairness == \A t \in Threads : WF_vars(ThreadStep(t) /\ pc[t] /= "idle")

Spec == Init /\ [][Next]_vars /\ Fairness

-----------------------------------------------------------------------------
(* Properties.                                                             *)

Quiescent == \A t \in Threads : pc[t] = "idle"
ListNodes == {list[i] : i \in 1..Len(list)}
MappedNodes == {map[k] : k \in {j \in Keys : map[j] /= NoNode}}

TypeOK ==
  /\ map \in [Keys -> {NoNode} \cup NodeIds]
  /\ writer \in [Keys -> Threads \cup {NoThread}]
  /\ nodeKey \in [NodeIds -> Keys] /\ freed \subseteq NodeIds
  /\ list \in Seq(NodeIds) /\ usage \in 0 .. UsageMax
  /\ pc \in [Threads -> {"idle", "lookup", "insert", "ins_check", "ins_push",
                          "ins_incr", "ins_load", "ins_cas", "ins_done",
                          "ev_pop", "ev_find", "erase", "er_unlink",
                          "er_erase", "crashed"}]
  /\ s \in [Threads -> Nat] /\ done \in [Threads -> BOOLEAN]
  /\ victim \in [Threads -> {NoNode} \cup NodeIds]
  \* EvictOne only goes on with a real node, never m_head or m_tail.
  /\ \A t \in Threads : pc[t] = "ev_find" => victim[t] \in NodeIds

(* Erase never unlinks a node that EvictOne already took off the list:     *)
(* ListRemove on it would store through out_of_list_marker_.               *)
NeverCrashes == \A t \in Threads : pc[t] /= "crashed"

(* Between requests the list holds exactly the mapped nodes, each once:   *)
(* every key Insert added is reachable by eviction, and eviction only      *)
(* ever removes the key of the node it popped.                             *)
ListMatchesMap ==
  Quiescent => IsInjective(list) /\ ListNodes = MappedNodes

(* Between requests usage_ is the number of cached entries.                *)
UsageCountsList == Quiescent => usage = Len(list)

(* No node is lost: every allocated node that is not deleted is in the     *)
(* list, or held by a thread in the middle of a request.                   *)
NoNodeLeak ==
  \A n \in (1..nextNode) \ freed :
     n \in ListNodes \/ \E t \in Threads : pc[t] /= "idle" /\ n \in {node[t], victim[t]}

(* EvictOne never waits in m_map.find for the accessor that its own        *)
(* Insert still holds: TBB accessors are not reentrant, so that wait never *)
(* ends, and every later request on the key blocks behind it.              *)
NoSelfDeadlock ==
  \A t \in Threads :
     pc[t] = "ev_find" => writer[nodeKey[victim[t]]] /= t

(* Every request returns, unless the process crashed (which NeverCrashes  *)
(* reports on its own): no call blocks or spins forever.                  *)
EveryOperationCompletes ==
  \A t \in Threads : pc[t] /= "idle" ~> (pc[t] = "idle" \/ Crashed)


(***************************************************************************)
(* Refinement.  The request a thread is running, read off its pc (the     *)
(* EvictOne steps run inside an Insert), and the cached keys in the order *)
(* of the list from m_tail.m_prev to m_head.m_next, oldest first.          *)
(***************************************************************************)
RequestOf(t) ==
  CASE pc[t] \in {"idle", "crashed"} -> [op |-> "none", key |-> CHOOSE k \in Keys : TRUE]
    [] pc[t] = "lookup"                 -> [op |-> "lookup", key |-> key[t]]
    [] pc[t] \in {"erase", "er_unlink", "er_erase"} -> [op |-> "erase", key |-> key[t]]
    [] OTHER                            -> [op |-> "insert", key |-> key[t]]
QueueOf == Reverse([i \in 1..Len(list) |-> nodeKey[list[i]]])

Abstract == INSTANCE FifoQueue WITH
  queue <- QueueOf, req <- [t \in Threads |-> RequestOf(t)]

(* The shard implements the FIFO queue: the list only ever gains the key   *)
(* of an Insert at the front, loses the oldest node only in an Insert's   *)
(* EvictOne, and loses another node only in an Erase of its key, and it    *)
(* never holds a key twice.  Lists interleaved by InsPush, EvPop and       *)
(* ErUnlink of several threads are what this is about.                     *)
ImplementsFifoQueue == Abstract!Spec

=============================================================================
