----------------------------- MODULE LruCache ------------------------------
(***************************************************************************)
(* One shard of the LRU policy, LruCache<Key,Value> of                    *)
(* src/cache/lru_cache.h, run by several client threads.                  *)
(*                                                                         *)
(* The shard is a TBB hash map hash_map_ (key -> list node, with per-key  *)
(* accessor locks), an intrusive doubly linked list head_ ... tail_       *)
(* guarded by list_mtx_, and usage_.  Every critical section of list_mtx_ *)
(* is a single step here, so the mutex needs no variable.  The list is a  *)
(* sequence of nodes, most recently used (head_.next) first; a node that  *)
(* is not in the sequence has prev == out_of_list_marker.  The shape is   *)
(* that of FifoCache; Lookup moves its node to the front, and EvictOne    *)
(* has no empty-list check.                                                *)
(***************************************************************************)
EXTENDS Integers, Sequences, FiniteSets, SequencesExt

CONSTANTS
  Threads,    \* client threads
  Keys,       \* keys the clients use
  NoThread,   \* "no accessor holder"
  Capacity,   \* capacity_
  OpBudget,   \* [Threads -> Nat]: requests each client issues
  Requests,   \* the request kinds of the workload (trace op types)
  WarmChoices,\* set of sequences of distinct keys: the inserts done one after
              \* the other before the clients start
  UsageMax    \* 2^64 - 1, the largest uint64_t; any value above every count
              \* the bounds reach compares with them as 2^64 - 1 does

ASSUME Capacity \in Nat /\ UsageMax \in Nat /\ OpBudget \in [Threads -> Nat] /\ NoThread \notin Threads
ASSUME Requests \subseteq {"insert", "lookup", "erase"}
ASSUME \A w \in WarmChoices : IsInjective(w) /\ Len(w) <= Capacity

NoNode == 0
NWarm == Max({Len(w) : w \in WarmChoices})
TotalOps == FoldFunction(+, 0, OpBudget)
NodeIds == 1 .. (NWarm + TotalOps)

VARIABLES
  map,        \* hash_map_: key -> list node (NoNode when absent)
  writer,     \* key -> thread holding an accessor on it
  nodeKey,    \* ListNode::key of every allocated node
  freed,      \* nodes that were deleted
  nextNode,   \* nodes allocated so far
  list,       \* the list, front first; tail is Last(list)
  usage,      \* usage_
  pc, ops, key, node, s, done, victim, ret   \* per-thread locals

shardVars == <<map, writer, nodeKey, freed, nextNode, list, usage>>
threadVars == <<pc, ops, key, node, s, done, victim, ret>>
vars == <<shardVars, threadVars>>

-----------------------------------------------------------------------------
(* The keys of a warm choice inserted one at a time into an empty cache:  *)
(* each push goes to the front, so the first key is the tail.              *)
Init ==
  \E w \in WarmChoices :
  /\ map = [k \in Keys |-> IF \E i \in 1..Len(w) : w[i] = k
                           THEN CHOOSE i \in 1..Len(w) : w[i] = k
                           ELSE NoNode]
  /\ writer = [k \in Keys |-> NoThread]
  /\ nodeKey = [n \in NodeIds |-> IF n <= Len(w) THEN w[n]
                                  ELSE CHOOSE k \in Keys : TRUE]
  /\ freed = {}
  /\ nextNode = Len(w)
  /\ list = Reverse([i \in 1..Len(w) |-> i])
  /\ usage = Len(w)
  /\ pc = [t \in Threads |-> "idle"]
  /\ ops = [t \in Threads |-> 0]
  /\ key = [t \in Threads |-> CHOOSE k \in Keys : TRUE]
  /\ node = [t \in Threads |-> NoNode]
  /\ s = [t \in Threads |-> 0]
  /\ done = [t \in Threads |-> FALSE]
  /\ victim = [t \in Threads |-> NoNode]
  /\ ret = [t \in Threads |-> "idle"]

Goto(t, from, to) == pc[t] = from /\ pc' = [pc EXCEPT ![t] = to]

\* The accessor taken by insert, find(accessor) or erase on k is granted.
\* Lookup's const_accessor lives within its one step, so only accessors
\* are held across steps.
Unlocked(k) == writer[k] = NoThread

InList(n) == \E i \in 1..Len(list) : list[i] = n

\* usage_++ and usage_-- on std::atomic<uint64_t>: modulo 2^64.
UsageInc(u) == IF u = UsageMax THEN 0 ELSE u + 1
UsageDec(u) == IF u = 0 THEN UsageMax ELSE u - 1

\* LruRemove(node): unlink from the list, prev = out_of_list_marker.
LruRemove(n) == SelectSeq(list, LAMBDA m : m /= n)

\* LruAppend(node).
LruAppend(n) == <<n>> \o list

-----------------------------------------------------------------------------
(* A client issues its next request.                                       *)
StartOp(t) ==
  /\ pc[t] = "idle"
  /\ ops[t] < OpBudget[t]
  /\ \E o \in Requests, k \in Keys :
       /\ pc' = [pc EXCEPT ![t] = o]
       /\ key' = [key EXCEPT ![t] = k]
  /\ ops' = [ops EXCEPT ![t] = @ + 1]
  /\ UNCHANGED <<shardVars, node, s, done, victim, ret>>

\* LruRemove(node) then LruAppend(node), done when node->is_in_list().
MoveToFront(n) == IF InList(n) THEN <<n>> \o LruRemove(n) ELSE list

\* Mutant of Lookup: the is_in_list() test is dropped.
LookupNoInListCheck(t) ==
  LET n == map[key[t]] IN
  /\ Goto(t, "lookup", "idle")
  /\ n = NoNode \/ Unlocked(key[t])
  /\ \/ UNCHANGED list
     \/ n /= NoNode /\ list' = <<n>> \o LruRemove(n)
  /\ UNCHANGED <<map, writer, nodeKey, freed, nextNode, usage,
                 ops, key, node, s, done, victim, ret>>

(* Lookup: find under a const_accessor, which waits while another thread  *)
(* holds the key's accessor; a miss returns false.  A hit takes list_mtx_ *)
(* with try_to_lock and, when it got it, moves the node to the front if   *)
(* it is still in the list.  try_lock fails when another thread holds the *)
(* mutex, and std::mutex::try_lock may also fail spuriously, so the       *)
(* promotion may be skipped in any state.                                  *)
Lookup(t) ==
  LET n == map[key[t]] IN
  /\ Goto(t, "lookup", "idle")
  /\ n = NoNode \/ Unlocked(key[t])
  /\ \/ UNCHANGED list
     \/ n /= NoNode /\ list' = MoveToFront(n)
  /\ UNCHANGED <<map, writer, nodeKey, freed, nextNode, usage,
                 ops, key, node, s, done, victim, ret>>

(* Insert, up to hash_map_.insert(accessor, ...): a new node is mapped    *)
(* and its accessor held; on a present key the accessor is taken, the      *)
(* value updated, the node deleted and false returned.  Then               *)
(* s = usage_.load().                                                      *)
Insert(t) ==
  LET k == key[t]
      n == nextNode + 1
  IN
  /\ pc[t] = "insert"
  /\ nextNode' = n
  /\ nodeKey' = [nodeKey EXCEPT ![n] = k]
  /\ \/ /\ map[k] = NoNode
        /\ map' = [map EXCEPT ![k] = n]
        /\ writer' = [writer EXCEPT ![k] = t]
        /\ node' = [node EXCEPT ![t] = n]
        /\ s' = [s EXCEPT ![t] = usage]
        /\ pc' = [pc EXCEPT ![t] = "ins_check"]
        /\ UNCHANGED freed
     \/ /\ map[k] /= NoNode
        /\ Unlocked(k)
        /\ freed' = freed \cup {n}
        /\ pc' = [pc EXCEPT ![t] = "idle"]
        /\ UNCHANGED <<map, writer, node, s>>
  /\ UNCHANGED <<list, usage, ops, key, done, victim, ret>>

(* if (s >= capacity_) { EvictOne(); done = true; }                        *)
InsCheck(t) ==
  /\ pc[t] = "ins_check"
  /\ IF s[t] >= Capacity
     THEN /\ pc' = [pc EXCEPT ![t] = "ev_pop"]
          /\ ret' = [ret EXCEPT ![t] = "ins_push"]
          /\ done' = [done EXCEPT ![t] = TRUE]
     ELSE /\ pc' = [pc EXCEPT ![t] = "ins_push"]
          /\ done' = [done EXCEPT ![t] = FALSE]
          /\ UNCHANGED ret
  /\ UNCHANGED <<shardVars, ops, key, node, s, victim>>

(* Under list_mtx_: LruAppend(node).                                  *)
InsPush(t) ==
  /\ Goto(t, "ins_push", IF done[t] THEN "ins_cas" ELSE "ins_incr")
  /\ list' = LruAppend(node[t])
  /\ UNCHANGED <<map, writer, nodeKey, freed, nextNode, usage,
                 ops, key, node, s, done, victim, ret>>

(* if (!done) { usage_++; s = usage_.load(); }  two atomic accesses.       *)
InsIncr(t) ==
  /\ Goto(t, "ins_incr", "ins_load")
  /\ usage' = UsageInc(usage)
  /\ UNCHANGED <<map, writer, nodeKey, freed, nextNode, list,
                 ops, key, node, s, done, victim, ret>>

InsLoad(t) ==
  /\ Goto(t, "ins_load", "ins_cas")
  /\ s' = [s EXCEPT ![t] = usage]
  /\ UNCHANGED <<shardVars, ops, key, node, done, victim, ret>>

\* Mutant of InsCas: a plain store of s - 1 instead of the compare-exchange.
InsCasStore(t) ==
  /\ pc[t] = "ins_cas"
  /\ IF s[t] > Capacity
     THEN /\ usage' = s[t] - 1
          /\ pc' = [pc EXCEPT ![t] = "ev_pop"]
          /\ ret' = [ret EXCEPT ![t] = "ins_done"]
     ELSE /\ pc' = [pc EXCEPT ![t] = "ins_done"]
          /\ UNCHANGED <<usage, ret>>
  /\ UNCHANGED <<map, writer, nodeKey, freed, nextNode, list,
                 ops, key, node, s, done, victim>>

(* if (s > capacity_ && usage_.compare_exchange_strong(s, s - 1))          *)
(*   EvictOne();                                                           *)
InsCas(t) ==
  /\ pc[t] = "ins_cas"
  /\ IF s[t] > Capacity /\ usage = s[t]
     THEN /\ usage' = s[t] - 1
          /\ pc' = [pc EXCEPT ![t] = "ev_pop"]
          /\ ret' = [ret EXCEPT ![t] = "ins_done"]
     ELSE /\ pc' = [pc EXCEPT ![t] = "ins_done"]
          /\ UNCHANGED <<usage, ret>>
  /\ UNCHANGED <<map, writer, nodeKey, freed, nextNode, list,
                 ops, key, node, s, done, victim>>

\* Mutant of InsDone: the accessor is never released.
InsDoneKeepsAccessor(t) ==
  /\ Goto(t, "ins_done", "idle")
  /\ UNCHANGED <<map, writer, nodeKey, freed, nextNode, list, usage,
                 ops, key, node, s, done, victim, ret>>

(* return true: accessor goes out of scope.                           *)
InsDone(t) ==
  /\ Goto(t, "ins_done", "idle")
  /\ writer' = [writer EXCEPT ![key[t]] = NoThread]
  /\ UNCHANGED <<map, nodeKey, freed, nextNode, list, usage,
                 ops, key, node, s, done, victim, ret>>

-----------------------------------------------------------------------------
(* EvictOne, called from Insert with the caller's accessor still held.     *)

\* Mutant of EvPop: on an empty list EvictOne goes on with the node
\* tail_.prev = &head_ instead of faulting in LruRemove(&head_).
EvPopGoesOn(t) ==
  /\ Goto(t, "ev_pop", "ev_find")
  /\ victim' = [victim EXCEPT ![t] = IF list = <<>> THEN NoNode ELSE Last(list)]
  /\ list' = Front(list)
  /\ UNCHANGED <<map, writer, nodeKey, freed, nextNode, usage,
                 ops, key, node, s, done, ret>>

(* Under list_mtx_: node = tail_.prev; LruRemove(node).  There is no      *)
(* empty-list check: on an empty list node is &head_, whose prev is       *)
(* out_of_list_marker (ListNode() sets it and the constructor of the      *)
(* cache only sets head_.next), and prev_node->next is a store through    *)
(* the address -1: the thread crashes.                                     *)
EvPop(t) ==
  /\ pc[t] = "ev_pop"
  /\ IF list = <<>>
     THEN /\ pc' = [pc EXCEPT ![t] = "crashed"]
          /\ UNCHANGED <<list, victim>>
     ELSE /\ victim' = [victim EXCEPT ![t] = Last(list)]
          /\ list' = Front(list)
          /\ pc' = [pc EXCEPT ![t] = "ev_find"]
  /\ UNCHANGED <<map, writer, nodeKey, freed, nextNode, usage,
                 ops, key, node, s, done, ret>>

(* hash_map_.find(accessor, node->key): waits for the key's accessor,   *)
(* the caller's own included.  Absent key: "Presumably unreachable",       *)
(* return without deleting the node.  Present: erase the key, whatever     *)
(* node it maps to now, and delete the popped node.                        *)
EvFind(t) ==
  LET k == nodeKey[victim[t]] IN
  /\ Goto(t, "ev_find", ret[t])
  /\ map[k] = NoNode \/ Unlocked(k)
  /\ IF map[k] = NoNode
     THEN UNCHANGED <<map, freed>>
     ELSE /\ map' = [map EXCEPT ![k] = NoNode]
          /\ freed' = freed \cup {victim[t]}
  /\ UNCHANGED <<writer, nodeKey, nextNode, list, usage,
                 ops, key, node, s, done, victim, ret>>

-----------------------------------------------------------------------------
(* Erase: find(accessor, key); absent: return false.                       *)
Erase(t) ==
  LET k == key[t] IN
  /\ pc[t] = "erase"
  /\ \/ /\ map[k] = NoNode
        /\ pc' = [pc EXCEPT ![t] = "idle"]
        /\ UNCHANGED <<writer, node>>
     \/ /\ map[k] /= NoNode
        /\ Unlocked(k)
        /\ writer' = [writer EXCEPT ![k] = t]
        /\ node' = [node EXCEPT ![t] = map[k]]
        /\ pc' = [pc EXCEPT ![t] = "er_unlink"]
  /\ UNCHANGED <<map, nodeKey, freed, nextNode, list, usage,
                 ops, key, s, done, victim, ret>>

(* Under list_mtx_: LruRemove(node), with no is_in_list() check.  On a   *)
(* node that is not in the list, prev is out_of_list_marker and           *)
(* prev_node->next is a store through the address -1: the thread crashes.   *)
ErUnlink(t) ==
  /\ Goto(t, "er_unlink", IF InList(node[t]) THEN "er_erase" ELSE "crashed")
  /\ list' = LruRemove(node[t])
  /\ UNCHANGED <<map, writer, nodeKey, freed, nextNode, usage,
                 ops, key, node, s, done, victim, ret>>

\* Mutant of ErErase: the node is not deleted.
ErEraseNoDelete(t) ==
  /\ Goto(t, "er_erase", "idle")
  /\ map' = [map EXCEPT ![key[t]] = NoNode]
  /\ writer' = [writer EXCEPT ![key[t]] = NoThread]
  /\ usage' = UsageDec(usage)
  /\ UNCHANGED <<freed, nodeKey, nextNode, list, ops, key, node, s, done,
                 victim, ret>>

(* hash_map_.erase(accessor); delete node; usage_--.                      *)
ErErase(t) ==
  /\ Goto(t, "er_erase", "idle")
  /\ map' = [map EXCEPT ![key[t]] = NoNode]
  /\ writer' = [writer EXCEPT ![key[t]] = NoThread]
  /\ freed' = freed \cup {node[t]}
  /\ usage' = UsageDec(usage)
  /\ UNCHANGED <<nodeKey, nextNode, list, ops, key, node, s, done,
                 victim, ret>>

-----------------------------------------------------------------------------
\* A crashed thread has taken the whole process down.
Crashed == \E t \in Threads : pc[t] = "crashed"

\* Every client has issued all its requests and finished them, or the
\* process has crashed: nothing happens any more.
Finished ==
  /\ \/ \A t \in Threads : pc[t] = "idle" /\ ops[t] = OpBudget[t]
     \/ Crashed
  /\ UNCHANGED vars

ThreadStep(t) ==
  /\ ~Crashed
  /\ \/ StartOp(t) \/ Lookup(t) \/ Insert(t) \/ InsCheck(t) \/ InsPush(t)
     \/ InsIncr(t) \/ InsLoad(t) \/ InsCas(t) \/ InsDone(t)
     \/ EvPop(t) \/ EvFind(t) \/ Erase(t) \/ ErUnlink(t) \/ ErErase(t)

Next == (\E t \in Threads : ThreadStep(t)) \/ Finished

\* Client threads are OS threads, scheduled while they have a step to take.
Fairness == \A t \in Threads : WF_vars(ThreadStep(t) /\ pc[t] /= "idle")

Spec == Init /\ [][Next]_vars /\ Fairness

-----------------------------------------------------------------------------
(* Properties.                                                             *)

Quiescent == \A t \in Threads : pc[t] = "idle"
ListNodes == {list[i] : i \in 1..Len(list)}
MappedNodes == {map[k] : k \in {j \in Keys : map[j] /= NoNode}}

TypeOK ==
  /\ map \in [Keys -> {NoNode} \cup NodeIds]
  /\ writer \in [Keys -> Threads \cup {NoThread}]
  /\ nodeKey \in [NodeIds -> Keys] /\ freed \subseteq NodeIds
  /\ list \in Seq(NodeIds) /\ usage \in 0 .. UsageMax
  /\ pc \in [Threads -> {"idle", "lookup", "insert", "ins_check", "ins_push",
                          "ins_incr", "ins_load", "ins_cas", "ins_done",
                          "ev_pop", "ev_find", "erase", "er_unlink",
                          "er_erase", "crashed"}]
  /\ s \in [Threads -> Nat] /\ done \in [Threads -> BOOLEAN]
  /\ victim \in [Threads -> {NoNode} \cup NodeIds]
  \* EvictOne only goes on with a real node, never head_ or tail_.
  /\ \A t \in Threads : pc[t] = "ev_find" => victim[t] \in NodeIds

(* No LruRemove ever stores through out_of_list_marker: Erase never       *)
(* unlinks a node EvictOne already took off the list, and EvictOne never   *)
(* runs on an empty list.                                                  *)
NeverCrashes == \A t \in Threads : pc[t] /= "crashed"

(* Between requests the list holds exactly the mapped nodes, each once:   *)
(* every key Insert added is reachable by eviction, eviction only removes  *)
(* the key of the node it popped, and a Lookup never puts back a node that *)
(* an EvictOne has popped.                                                 *)
ListMatchesMap ==
  Quiescent => IsInjective(list) /\ ListNodes = MappedNodes

(* Between requests usage_ is the number of cached entries.                *)
UsageCountsList == Quiescent => usage = Len(list)

(* No node is lost: every allocated node that is not deleted is in the     *)
(* list, or held by a thread in the middle of a request.                   *)
NoNodeLeak ==
  \A n \in (1..nextNode) \ freed :
     n \in ListNodes \/ \E t \in Threads : pc[t] /= "idle" /\ n \in {node[t], victim[t]}

(* Every request returns, unless the process crashed (which NeverCrashes  *)
(* reports on its own): no call blocks or spins forever.                  *)
EveryOperationCompletes ==
  \A t \in Threads : pc[t] /= "idle" ~> (pc[t] = "idle" \/ Crashed)

=============================================================================
