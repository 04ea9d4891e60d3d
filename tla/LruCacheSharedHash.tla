------------------------- MODULE LruCacheSharedHash -------------------------
(***************************************************************************)
(* One shard of LruCacheSharedHash<Key,Value>, src/cache/                  *)
(* lru_cache_shared_hash.h: the LRU shard over a hash map the shards of a *)
(* ConcurrentScalableCache share (its shared_hash_; the construction is    *)
(* commented out there).  Keys are routed to shards by key % num_shards_, *)
(* so the other shards never touch this shard's keys and one shard is      *)
(* modelled over its own keys.                                             *)
(*                                                                         *)
(* The class is LruCache line for line except for Insert on a present key: *)
(* `accessor->second = node; return false;` maps the key to the new node,  *)
(* which is never appended, and leaves the old node in the list.  Every   *)
(* other handler is LruCache's, taken through the instance Lru.            *)
(***************************************************************************)
EXTENDS Integers, Sequences

CONSTANTS
  Threads, Keys, NoThread, Capacity, OpBudget, Requests, WarmChoices, UsageMax

VARIABLES
  map, writer, nodeKey, freed, nextNode, list, usage,
  pc, ops, key, node, s, done, victim, ret

Lru == INSTANCE LruCache

vars == Lru!vars
NoNode == Lru!NoNode

(* LruCacheSharedHash(hash_map, capacity): usage_ = 0, head_.next = &tail_ *)
(* and tail_.prev = &head_; the warm choices are inserts made after it.    *)
Init == Lru!Init

\* The accessor taken on k is granted.
Unlocked(k) == Lru!Unlocked(k)
\* LruAppend(node) and LruRemove(node), which InsPush, Lookup, EvPop and
\* ErUnlink apply through Lru.
LruAppend(n) == Lru!LruAppend(n)
LruRemove(n) == Lru!LruRemove(n)

Lookup(t) == Lru!Lookup(t)

(* Insert, up to hash_map_.insert(accessor, value_pair): a new node n.  An *)
(* absent key is mapped to n with its accessor held, and s = usage_.load(). *)
(* A present key waits for its accessor, which then maps the key to n     *)
(* (accessor->second = node) and returns false: n is never appended and   *)
(* the node the key mapped to before stays in the list.                    *)
Insert(t) ==
  LET k == key[t]
      n == nextNode + 1
  IN
  /\ pc[t] = "insert"
  /\ nextNode' = n
  /\ nodeKey' = [nodeKey EXCEPT ![n] = k]
  /\ \/ /\ map[k] = NoNode
        /\ map' = [map EXCEPT ![k] = n]
        /\ writer' = [writer EXCEPT ![k] = t]
        /\ node' = [node EXCEPT ![t] = n]
        /\ s' = [s EXCEPT ![t] = usage]
        /\ pc' = [pc EXCEPT ![t] = "ins_check"]
     \/ /\ map[k] /= NoNode
        /\ Unlocked(k)
        /\ map' = [map EXCEPT ![k] = n]
        /\ pc' = [pc EXCEPT ![t] = "idle"]
        /\ UNCHANGED <<writer, node, s>>
  /\ UNCHANGED <<freed, list, usage, ops, key, done, victim, ret>>

InsCheck(t) == Lru!InsCheck(t)
InsPush(t) == Lru!InsPush(t)
InsIncr(t) == Lru!InsIncr(t)
InsLoad(t) == Lru!InsLoad(t)
InsCas(t) == Lru!InsCas(t)
InsDone(t) == Lru!InsDone(t)
EvPop(t) == Lru!EvPop(t)
EvFind(t) == Lru!EvFind(t)
Erase(t) == Lru!Erase(t)
ErUnlink(t) == Lru!ErUnlink(t)
ErErase(t) == Lru!ErErase(t)

ThreadStep(t) ==
  /\ ~Lru!Crashed
  /\ \/ Lru!StartOp(t) \/ Lookup(t) \/ Insert(t) \/ InsCheck(t) \/ InsPush(t)
     \/ InsIncr(t) \/ InsLoad(t) \/ InsCas(t) \/ InsDone(t)
     \/ EvPop(t) \/ EvFind(t) \/ Erase(t) \/ ErUnlink(t) \/ ErErase(t)

Next == (\E t \in Threads : ThreadStep(t)) \/ Lru!Finished

\* Client threads are OS threads, scheduled while they have a step to take.
Fairness == \A t \in Threads : WF_vars(ThreadStep(t) /\ pc[t] /= "idle")

Spec == Init /\ [][Next]_vars /\ Fairness

-----------------------------------------------------------------------------
(* Between requests the list holds exactly the mapped nodes, each once, as *)
(* LruCache keeps it: an Insert of a present key, commented "update value", *)
(* leaves the key cached and reachable by eviction, and the node it maps   *)
(* to is the one an Erase or an EvictOne will unlink.                      *)
ListMatchesMap == Lru!ListMatchesMap

=============================================================================
