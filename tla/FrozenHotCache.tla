--------------------------- MODULE FrozenHotCache ---------------------------
(***************************************************************************)
(* One shard of the FrozenHot policy, FrozenHotCache<Key,Value> of        *)
(* src/cache/frozenhot_cache_null.h: client threads calling Lookup and    *)
(* Insert, and the monitor thread calling the four hooks GetCurve,        *)
(* ConstructTier, ConstructFastCache and DeleteFastCache in the order of  *)
(* the FrozenMonitor of src/cache/scalable_cache.h (kept there commented  *)
(* out).                                                                   *)
(*                                                                         *)
(* The lists are modelled at the level of pointers, because the hooks     *)
(* splice them by hand: every list cell (the sentinels m_head, m_tail,    *)
(* m_fast_head, m_fast_tail and the heap nodes) has a prev and a next     *)
(* pointer in link.  A pointer is a cell, Null (nullptr) or OOL           *)
(* (out_of_list_marker_, the address -1).  A step that dereferences       *)
(* Null, OOL or a deleted node, deletes a sentinel, or fails an assert,   *)
(* is undefined behaviour: the model records where in fault and stops.   *)
(* Each critical section of m_list_mtx is one step, so the mutex needs no *)
(* variable.  Erase only returns false and is left out.                   *)
(***************************************************************************)
EXTENDS Integers, Sequences, FiniteSets, SequencesExt

CONSTANTS
  Threads,    \* client threads
  Ctrl,       \* the monitor thread
  Keys,       \* keys the clients use
  NullKey,    \* kNullKey, the key of the sentinels
  MarkerKey,  \* kMarkerKey, the key of the curve marker
  NoThread,   \* "no accessor holder"
  Capacity,   \* m_max_size
  OpBudget,   \* [Threads -> Nat]: requests each client issues
  Requests,   \* the request kinds of the workload
  WarmChoices,\* set of sequences of distinct keys inserted before the start
  FCSizes,    \* the values FC_ratio * m_max_size that ConstructFastCache may get
  Magic,      \* the "magic number" 20 of ConstructFastCache
  CtrlBudget  \* hook calls the monitor makes before should_stop_

\* User keys are uint64 values other than 0, 1 and 2; kTombKey (1) is never
\* the key of a node, so the tomb loops of Evict and ConstructTier never run.
ASSUME {NullKey, MarkerKey} \cap Keys = {} /\ NullKey /= MarkerKey
ASSUME Capacity \in Nat /\ Magic \in Nat /\ CtrlBudget \in Nat
ASSUME OpBudget \in [Threads -> Nat] /\ NoThread \notin Threads \cup {Ctrl}
ASSUME Requests \subseteq {"insert", "lookup"} /\ FCSizes \subseteq 0 .. Capacity
ASSUME \A w \in WarmChoices : IsInjective(w) /\ Len(w) <= Capacity + 1

\* Cells and pointers are integers: the sentinels and the two non-cells are
\* negative or zero, heap nodes are 1, 2, ...
MHead == -1
MTail == -2
FHead == -3
FTail == -4
Null == 0
OOL == -5
Sentinels == {MHead, MTail, FHead, FTail}
NoKey == NullKey

NWarm == Max({Len(w) : w \in WarmChoices})
TotalOps == FoldFunction(+, 0, OpBudget)
\* One node per insert and one marker per hook call at most.
NodeIds == 1 .. (NWarm + TotalOps + CtrlBudget)
Cells == Sentinels \cup NodeIds
Ptr == Cells \cup {Null, OOL}

VARIABLES
  link,       \* cell -> [prev, next]
  nkey,       \* cell -> m_key
  mtime,      \* cell -> m_time
  alive,      \* heap nodes allocated and not deleted
  nextId,     \* heap nodes allocated so far
  clock,      \* NowMicros(): every call returns a later time
  map,        \* m_map: key -> m_list_node (Null when absent)
  writer,     \* key -> thread holding an accessor on it
  readers,    \* key -> threads holding a const_accessor on it
  creader,    \* key of the monitor's temp_hash_accessor (NoKey: none)
  fast,       \* the keys in m_fast_hash
  ready,      \* fast_cache_ready
  construct,  \* fast_cache_construct
  enableInsert, \* enable_insert
  curve,      \* curve_flag
  marker,     \* m_marker
  size,       \* m_size
  evictions,  \* eviction_counter
  fault,      \* "none", or the step that had undefined behaviour
  pc, ops, key, node, s, done, victim, ret, lastUpdate, mk, \* client locals
  cpc, cret, hooks, cur, count, fcSize, firstPass, evNum    \* monitor locals

memVars == <<link, nkey, mtime, alive, nextId, clock>>
shardVars == <<map, writer, readers, creader, fast, ready, construct,
               enableInsert, curve, marker, size, evictions>>
threadVars == <<pc, ops, key, node, s, done, victim, ret, lastUpdate, mk>>
ctrlVars == <<cpc, cret, hooks, cur, count, fcSize, firstPass, evNum>>
vars == <<memVars, shardVars, fault, threadVars, ctrlVars>>

-----------------------------------------------------------------------------
(* Pointer operations.  L is a value of link.                              *)

\* Cells a step may dereference: sentinels and live heap nodes.
Live == Sentinels \cup alive

SetNext(L, a, b) == [L EXCEPT ![a].next = b]
SetPrev(L, a, b) == [L EXCEPT ![a].prev = b]

\* is_in_list()
InList(L, n) == L[n].prev /= OOL

\* LruRemove(node): prev->m_next = next; next->m_prev = prev;
\* node->m_prev = out_of_list_marker_.
LruRemove(L, n) ==
  LET p == L[n].prev
      x == L[n].next
  IN SetPrev(SetPrev(SetNext(L, p, x), x, p), n, OOL)
RemoveDerefs(L, n) == {n, L[n].prev, L[n].next}

\* LruPushAfterMarker(node) with m_marker = m, and LruPushFront(node),
\* which is the same splice after m_head.
LruPushAfterMarker(L, n, m) ==
  LET o == L[m].next
  IN SetNext(SetPrev(SetNext(SetPrev(L, n, m), n, o), o, n), m, n)
PushDerefs(L, n, m) == {n, m, L[m].next}
LruPushFront(L, n) == LruPushAfterMarker(L, n, MHead)

\* The cells reachable from c by next pointers, c excluded, stopping at a
\* pointer that is not a live cell.
RECURSIVE Forward(_, _, _)
Forward(L, c, seen) ==
  LET x == L[c].next IN
  IF x \notin Live \/ x \in seen THEN seen
  ELSE Forward(L, x, seen \cup {x})

-----------------------------------------------------------------------------
(* The keys of a warm choice inserted one at a time into an empty cache:  *)
(* the first key is the tail, and each node's m_time is its insert time.  *)
Init ==
  \E w \in WarmChoices :
  LET n == Len(w)
      Order == <<MHead>> \o Reverse([i \in 1..n |-> i]) \o <<MTail>>
      Pos(c) == CHOOSE i \in 1..Len(Order) : Order[i] = c
  IN
  /\ link = [c \in Cells |->
               IF c \in {FHead, FTail}
               THEN [prev |-> IF c = FHead THEN Null ELSE FHead,
                     next |-> IF c = FHead THEN FTail ELSE Null]
               ELSE IF c \in Sentinels \/ c <= n
               THEN [prev |-> IF c = MHead THEN Null ELSE Order[Pos(c) - 1],
                     next |-> IF c = MTail THEN Null ELSE Order[Pos(c) + 1]]
               ELSE [prev |-> OOL, next |-> Null]]
  /\ nkey = [c \in Cells |-> IF c \in NodeIds /\ c <= n THEN w[c] ELSE NullKey]
  /\ mtime = [c \in Cells |-> IF c \in NodeIds /\ c <= n THEN c ELSE 0]
  /\ alive = 1 .. n
  /\ nextId = n
  /\ clock = n
  /\ map = [k \in Keys |-> IF \E i \in 1..n : w[i] = k
                           THEN CHOOSE i \in 1..n : w[i] = k ELSE Null]
  /\ writer = [k \in Keys |-> NoThread]
  /\ readers = [k \in Keys |-> {}]
  /\ creader = NoKey
  /\ fast = {}
  /\ ready = FALSE /\ construct = FALSE /\ enableInsert = TRUE /\ curve = FALSE
  /\ marker = Null
  /\ size = n
  /\ evictions = 0
  /\ fault = "none"
  /\ pc = [t \in Threads |-> "idle"]
  /\ ops = [t \in Threads |-> 0]
  /\ key = [t \in Threads |-> CHOOSE k \in Keys : TRUE]
  /\ node = [t \in Threads |-> Null]
  /\ s = [t \in Threads |-> 0]
  /\ done = [t \in Threads |-> FALSE]
  /\ victim = [t \in Threads |-> Null]
  /\ ret = [t \in Threads |-> "idle"]
  /\ lastUpdate = [t \in Threads |-> 0]
  /\ mk = [t \in Threads |-> Null]
  /\ cpc = "wait_stable"
  /\ cret = "wait_stable"
  /\ hooks = 0
  /\ cur = Null
  /\ count = 0
  /\ fcSize = 0
  /\ firstPass = TRUE
  /\ evNum = 0

Goto(t, from, to) == pc[t] = from /\ pc' = [pc EXCEPT ![t] = to]

\* An accessor on k is granted when no accessor or const_accessor is held.
WriteFree(k) ==
  writer[k] = NoThread /\ readers[k] = {} /\ creader /= k

\* Undefined behaviour at step w: recorded, and nothing happens any more.
Fault(w) ==
  /\ fault' = w
  /\ UNCHANGED <<memVars, shardVars, threadVars, ctrlVars>>

\* A step that dereferences the pointers D and then does A.
Deref(D, w, A) == IF D \subseteq Live THEN A ELSE Fault(w)

-----------------------------------------------------------------------------
(* A client issues its next request.                                       *)
StartOp(t) ==
  /\ pc[t] = "idle"
  /\ ops[t] < OpBudget[t]
  /\ \E o \in Requests, k \in Keys :
       /\ pc' = [pc EXCEPT ![t] = o]
       /\ key' = [key EXCEPT ![t] = k]
  /\ ops' = [ops EXCEPT ![t] = @ + 1]
  /\ UNCHANGED <<memVars, shardVars, fault, ctrlVars,
                 node, s, done, victim, ret, lastUpdate, mk>>

\* Return from Lookup: the const_accessor goes out of scope.
LkReturn(t) ==
  /\ pc' = [pc EXCEPT ![t] = "idle"]
  /\ readers' = [readers EXCEPT ![key[t]] = @ \ {t}]

(* Lookup, up to m_map.find(hash_accessor, key).  When fast_cache_ready   *)
(* and the fast hash has the key, return true (frozen_all is never set,   *)
(* so a fast-hash miss always goes on).  Otherwise find under a           *)
(* const_accessor, which waits while the key's accessor is held; a miss   *)
(* returns false, a hit keeps the const_accessor to the end of Lookup.    *)
Lookup(t) ==
  LET k == key[t] IN
  /\ pc[t] = "lookup"
  /\ IF ready /\ k \in fast
     THEN /\ pc' = [pc EXCEPT ![t] = "idle"]
          /\ UNCHANGED <<readers, node>>
     ELSE /\ writer[k] = NoThread
          /\ IF map[k] = Null
             THEN /\ pc' = [pc EXCEPT ![t] = "idle"]
                  /\ UNCHANGED <<readers, node>>
             ELSE /\ pc' = [pc EXCEPT ![t] = "lk_construct"]
                  /\ readers' = [readers EXCEPT ![k] = @ \cup {t}]
                  /\ node' = [node EXCEPT ![t] = map[k]]
  /\ UNCHANGED <<memVars, fault, ctrlVars, map, writer, creader, fast, ready,
                 construct, enableInsert, curve, marker, size, evictions,
                 ops, key, s, done, victim, ret, lastUpdate, mk>>

(* if (!fast_cache_construct.load()) { if (curve_flag.load())             *)
(* { last_update = node->m_time; ...  Nothing is moved while a hook       *)
(* builds the fast hash.                                                   *)
LkConstruct(t) ==
  /\ pc[t] = "lk_construct"
  /\ IF construct
     THEN LkReturn(t) /\ UNCHANGED <<lastUpdate, fault>>
     ELSE IF curve
     THEN Deref({node[t]}, "lk_construct",
            /\ pc' = [pc EXCEPT ![t] = "lk_marker"]
            /\ lastUpdate' = [lastUpdate EXCEPT ![t] = mtime[node[t]]]
            /\ UNCHANGED <<readers, fault>>)
     ELSE /\ pc' = [pc EXCEPT ![t] = "lk_try"]
          /\ UNCHANGED <<readers, lastUpdate, fault>>
  /\ UNCHANGED <<memVars, ctrlVars, map, writer, creader, fast, ready,
                 construct, enableInsert, curve, marker, size, evictions,
                 ops, key, node, s, done, victim, ret, mk>>

(* if (m_marker && ...: the first of two plain reads of m_marker, which  *)
(* GetCurve may delete and null in between ("corner case ... might cause *)
(* core dump").  A null marker returns true without a move.              *)
LkMarker(t) ==
  /\ pc[t] = "lk_marker"
  /\ IF marker = Null
     THEN LkReturn(t) /\ UNCHANGED mk
     ELSE /\ pc' = [pc EXCEPT ![t] = "lk_mtime"]
          /\ mk' = [mk EXCEPT ![t] = marker]
          /\ UNCHANGED readers
  /\ UNCHANGED <<memVars, fault, ctrlVars, map, writer, creader, fast, ready,
                 construct, enableInsert, curve, marker, size, evictions,
                 ops, key, node, s, done, victim, ret, lastUpdate>>

(* ... && last_update <= m_marker->m_time): m_marker is not atomic, so    *)
(* the compiler may use the value it loaded for the test or load it      *)
(* again.  A reload may see nullptr: a crash.  A marker deleted since    *)
(* holds whatever the allocator left in m_time, so the test may go       *)
(* either way.  A node not older than the marker returns true without a  *)
(* move.                                                                   *)
LkMtime(t) ==
  /\ pc[t] = "lk_mtime"
  /\ \E p \in {mk[t], marker} :
       IF p = Null THEN Fault("lk_mtime")
       ELSE \E older \in IF p \in alive THEN {lastUpdate[t] <= mtime[p]}
                                         ELSE BOOLEAN :
         /\ IF older
            THEN /\ pc' = [pc EXCEPT ![t] = "lk_promote"]
                 /\ UNCHANGED readers
            ELSE LkReturn(t)
         /\ UNCHANGED <<memVars, fault, ctrlVars, map, writer, creader, fast,
                        ready, construct, enableInsert, curve, marker, size,
                        evictions, ops, key, node, s, done, victim, ret,
                        lastUpdate, mk>>

(* node->m_time = NowMicros(); then, under a blocking lock of m_list_mtx, *)
(* if node->is_in_list(): LruRemove(node); LruPushFront(node).            *)
LkPromote(t) ==
  LET n == node[t]
      R == LruRemove(link, n)
  IN
  /\ pc[t] = "lk_promote"
  /\ IF ~InList(link, n)
     THEN /\ LkReturn(t)
          /\ mtime' = [mtime EXCEPT ![n] = clock + 1]
          /\ clock' = clock + 1
          /\ UNCHANGED <<link, fault>>
     ELSE Deref(RemoveDerefs(link, n) \cup PushDerefs(R, n, MHead), "lk_promote",
            /\ LkReturn(t)
            /\ mtime' = [mtime EXCEPT ![n] = clock + 1]
            /\ clock' = clock + 1
            /\ link' = LruPushFront(R, n)
            /\ UNCHANGED fault)
  /\ UNCHANGED <<nkey, alive, nextId, ctrlVars, map, writer, creader, fast,
                 ready, construct, enableInsert, curve, marker, size,
                 evictions, ops, key, node, s, done, victim, ret, lastUpdate, mk>>

(* std::unique_lock(m_list_mtx, std::try_to_lock): when it got the lock,  *)
(* and no hook is building the fast hash, a node still in a list moves to *)
(* the front.  try_lock fails when another thread holds the mutex, and    *)
(* may fail spuriously, so it may fail in any state; the unconditional    *)
(* list_lock.unlock() (line 272) then unlocks a mutex the lock does not   *)
(* own and throws std::system_error, which nothing catches: a fault.      *)
LkTry(t) ==
  LET n == node[t]
      R == LruRemove(link, n)
  IN
  /\ pc[t] = "lk_try"
  /\ \/ Fault("lk_unlock")
     \/ /\ construct \/ ~InList(link, n)
        /\ LkReturn(t) /\ UNCHANGED <<link, fault>>
     \/ /\ ~construct /\ InList(link, n)
        /\ Deref(RemoveDerefs(link, n) \cup PushDerefs(R, n, MHead), "lk_try",
             /\ LkReturn(t)
             /\ link' = LruPushFront(R, n)
             /\ UNCHANGED fault)
  /\ UNCHANGED <<nkey, mtime, alive, nextId, clock, ctrlVars, map, writer,
                 creader, fast, ready, construct, enableInsert, curve, marker,
                 size, evictions, ops, key, node, s, done, victim, ret,
                 lastUpdate, mk>>

-----------------------------------------------------------------------------
(* Insert: if (!enable_insert.load()) return false.                         *)
Insert(t) ==
  /\ Goto(t, "insert", IF enableInsert THEN "ins_map" ELSE "idle")
  /\ UNCHANGED <<memVars, shardVars, fault, ctrlVars,
                 ops, key, node, s, done, victim, ret, lastUpdate, mk>>

(* node = new ListNode(key) (m_time = NowMicros()); then                  *)
(* m_map.insert(hash_accessor, ...), which takes the key's accessor.  On  *)
(* a present key the mapped node is replaced by the new one, which is in  *)
(* no list, and false is returned.                                         *)
InsMap(t) ==
  LET k == key[t]
      n == nextId + 1
  IN
  /\ pc[t] = "ins_map"
  /\ WriteFree(k)
  /\ nextId' = n
  /\ alive' = alive \cup {n}
  /\ nkey' = [nkey EXCEPT ![n] = k]
  /\ mtime' = [mtime EXCEPT ![n] = clock + 1]
  /\ clock' = clock + 1
  /\ map' = [map EXCEPT ![k] = n]
  /\ IF map[k] = Null
     THEN /\ pc' = [pc EXCEPT ![t] = "ins_check"]
          /\ writer' = [writer EXCEPT ![k] = t]
          /\ node' = [node EXCEPT ![t] = n]
     ELSE /\ pc' = [pc EXCEPT ![t] = "idle"]
          /\ UNCHANGED <<writer, node>>
  /\ UNCHANGED <<link, fault, ctrlVars, readers, creader, fast, ready,
                 construct, enableInsert, curve, marker, size, evictions,
                 ops, key, s, done, victim, ret, lastUpdate, mk>>

(* if (fast_cache_construct) eviction_counter++;  s = m_size.load();       *)
(* if (s >= m_max_size) done = Evict();  Evict stores its result in done. *)
InsCheck(t) ==
  /\ pc[t] = "ins_check"
  /\ evictions' = IF construct THEN evictions + 1 ELSE evictions
  /\ s' = [s EXCEPT ![t] = size]
  /\ IF size >= Capacity
     THEN /\ pc' = [pc EXCEPT ![t] = "ev_pop"]
          /\ ret' = [ret EXCEPT ![t] = "ins_lock"]
          /\ UNCHANGED done
     ELSE /\ pc' = [pc EXCEPT ![t] = "ins_lock"]
          /\ done' = [done EXCEPT ![t] = FALSE]
          /\ UNCHANGED ret
  /\ UNCHANGED <<memVars, fault, ctrlVars, map, writer, readers, creader,
                 fast, ready, construct, enableInsert, curve, marker, size,
                 ops, key, node, victim, lastUpdate, mk>>

(* Under m_list_mtx: if (!enable_insert.load()) { unlock;                  *)
(* m_map.erase(hash_accessor); delete node; return false; } -- otherwise  *)
(* LruPushFront(node), or while curve_flag node->m_time =                 *)
(* m_marker->m_time and LruPushAfterMarker(node).                          *)
InsLock(t) ==
  LET k == key[t]
      n == node[t]
      m == IF curve THEN marker ELSE MHead
  IN
  /\ pc[t] = "ins_lock"
  /\ IF ~enableInsert
     THEN /\ pc' = [pc EXCEPT ![t] = "idle"]
          /\ map' = [map EXCEPT ![k] = Null]
          /\ writer' = [writer EXCEPT ![k] = NoThread]
          /\ alive' = alive \ {n}
          /\ UNCHANGED <<link, mtime, fault>>
     ELSE Deref(PushDerefs(link, n, m), "ins_lock",
            /\ pc' = [pc EXCEPT ![t] = "ins_release"]
            /\ link' = LruPushAfterMarker(link, n, m)
            /\ mtime' = IF curve THEN [mtime EXCEPT ![n] = mtime[m]] ELSE mtime
            /\ UNCHANGED <<map, writer, alive, fault>>)
  /\ UNCHANGED <<nkey, nextId, clock, ctrlVars, readers, creader, fast, ready,
                 construct, enableInsert, curve, marker, size, evictions,
                 ops, key, node, s, done, victim, ret, lastUpdate, mk>>

\* Mutant: the accessor is kept to the end of Insert.
InsReleaseKeepsAccessor(t) ==
  /\ Goto(t, "ins_release", "ins_incr")
  /\ UNCHANGED <<memVars, shardVars, fault, ctrlVars,
                 ops, key, node, s, done, victim, ret, lastUpdate, mk>>

(* hash_accessor.release();  // for deadlock                               *)
InsRelease(t) ==
  /\ Goto(t, "ins_release", "ins_incr")
  /\ writer' = [writer EXCEPT ![key[t]] = NoThread]
  /\ UNCHANGED <<memVars, fault, ctrlVars, map, readers, creader, fast, ready,
                 construct, enableInsert, curve, marker, size, evictions,
                 ops, key, node, s, done, victim, ret, lastUpdate, mk>>

\* Mutant: "if (done) s = m_size++", the test inverted.
InsIncrInverted(t) ==
  LET s1 == IF ~done[t] THEN s[t] ELSE size IN
  /\ pc[t] = "ins_incr"
  /\ s' = [s EXCEPT ![t] = s1]
  /\ size' = IF ~done[t] THEN size ELSE size + 1
  /\ IF s1 > Capacity
     THEN /\ pc' = [pc EXCEPT ![t] = "ev_pop"]
          /\ ret' = [ret EXCEPT ![t] = "ins_dec"]
     ELSE /\ pc' = [pc EXCEPT ![t] = "idle"]
          /\ UNCHANGED ret
  /\ UNCHANGED <<memVars, fault, ctrlVars, map, writer, readers, creader,
                 fast, ready, construct, enableInsert, curve, marker,
                 evictions, ops, key, node, done, victim, lastUpdate, mk>>

(* if (!done) s = m_size++;  -- the value before the increment -- then     *)
(* if (s > m_max_size) { if (Evict()) m_size--; }                          *)
InsIncr(t) ==
  LET s1 == IF done[t] THEN s[t] ELSE size IN
  /\ pc[t] = "ins_incr"
  /\ s' = [s EXCEPT ![t] = s1]
  /\ size' = IF done[t] THEN size ELSE size + 1
  /\ IF s1 > Capacity
     THEN /\ pc' = [pc EXCEPT ![t] = "ev_pop"]
          /\ ret' = [ret EXCEPT ![t] = "ins_dec"]
     ELSE /\ pc' = [pc EXCEPT ![t] = "idle"]
          /\ UNCHANGED ret
  /\ UNCHANGED <<memVars, fault, ctrlVars, map, writer, readers, creader,
                 fast, ready, construct, enableInsert, curve, marker,
                 evictions, ops, key, node, done, victim, lastUpdate, mk>>

InsDec(t) ==
  /\ Goto(t, "ins_dec", "idle")
  /\ size' = IF done[t] THEN size - 1 ELSE size
  /\ UNCHANGED <<memVars, fault, ctrlVars, map, writer, readers, creader,
                 fast, ready, construct, enableInsert, curve, marker,
                 evictions, ops, key, node, s, done, victim, ret, lastUpdate, mk>>

-----------------------------------------------------------------------------
(* Evict, under m_list_mtx: node = m_tail.m_prev; if (node == &m_head)     *)
(* return false; LruRemove(node).  It pops whatever is at the tail, the    *)
(* curve marker included.                                                  *)
EvPop(t) ==
  LET v == link[MTail].prev IN
  /\ pc[t] = "ev_pop"
  /\ IF v = MHead
     THEN /\ pc' = [pc EXCEPT ![t] = ret[t]]
          /\ done' = [done EXCEPT ![t] = FALSE]
          /\ UNCHANGED <<link, victim, fault>>
     ELSE Deref({v} \cup RemoveDerefs(link, v), "ev_pop",
            /\ pc' = [pc EXCEPT ![t] = "ev_find"]
            /\ link' = LruRemove(link, v)
            /\ victim' = [victim EXCEPT ![t] = v]
            /\ UNCHANGED <<done, fault>>)
  /\ UNCHANGED <<nkey, mtime, alive, nextId, clock, shardVars, ctrlVars,
                 ops, key, node, s, ret, lastUpdate, mk>>

\* Mutants: Evict also does m_size--, so that Insert's overshoot path
\* decrements twice; Evict deletes the node without erasing its key.
EvFindCountsSize(t) ==
  LET v == victim[t]
      k == nkey[v]
  IN
  /\ pc[t] = "ev_find"
  /\ Deref({v}, "ev_find",
       /\ IF k \notin Keys \/ map[k] = Null
          THEN /\ done' = [done EXCEPT ![t] = FALSE]
               /\ UNCHANGED <<map, alive, size>>
          ELSE /\ WriteFree(k)
               /\ map' = [map EXCEPT ![k] = Null]
               /\ alive' = alive \ {v}
               /\ size' = size - 1
               /\ done' = [done EXCEPT ![t] = TRUE]
       /\ pc' = [pc EXCEPT ![t] = ret[t]]
       /\ UNCHANGED <<link, nkey, mtime, nextId, clock, fault, ctrlVars,
                      writer, readers, creader, fast, ready, construct,
                      enableInsert, curve, marker, evictions,
                      ops, key, node, s, victim, ret, lastUpdate, mk>>)
EvFindNoErase(t) ==
  LET v == victim[t]
      k == nkey[v]
  IN
  /\ pc[t] = "ev_find"
  /\ Deref({v}, "ev_find",
       /\ IF k \notin Keys \/ map[k] = Null
          THEN /\ done' = [done EXCEPT ![t] = FALSE]
               /\ UNCHANGED alive
          ELSE /\ WriteFree(k)
               /\ alive' = alive \ {v}
               /\ done' = [done EXCEPT ![t] = TRUE]
       /\ pc' = [pc EXCEPT ![t] = ret[t]]
       /\ UNCHANGED <<link, nkey, mtime, nextId, clock, fault, ctrlVars, map,
                      writer, readers, creader, fast, ready, construct,
                      enableInsert, curve, marker, size, evictions,
                      ops, key, node, s, victim, ret, lastUpdate, mk>>)

(* m_map.find(hash_accessor, node->m_key): absent (the marker's key       *)
(* included) returns false and leaves the node; present waits for the     *)
(* key's accessor, erases the key whatever node it maps to now, deletes   *)
(* the popped node and returns true.                                       *)
EvFind(t) ==
  LET v == victim[t]
      k == nkey[v]
  IN
  /\ pc[t] = "ev_find"
  /\ Deref({v}, "ev_find",
       /\ IF k \notin Keys \/ map[k] = Null
          THEN /\ done' = [done EXCEPT ![t] = FALSE]
               /\ UNCHANGED <<map, alive>>
          ELSE /\ WriteFree(k)
               /\ map' = [map EXCEPT ![k] = Null]
               /\ alive' = alive \ {v}
               /\ done' = [done EXCEPT ![t] = TRUE]
       /\ pc' = [pc EXCEPT ![t] = ret[t]]
       /\ UNCHANGED <<link, nkey, mtime, nextId, clock, fault, ctrlVars,
                      writer, readers, creader, fast, ready, construct,
                      enableInsert, curve, marker, size, evictions,
                      ops, key, node, s, victim, ret, lastUpdate, mk>>)

-----------------------------------------------------------------------------
(* The hooks, run by the monitor thread.  cret is where the hook returns. *)

\* Return from a hook: its temp_hash_accessor goes out of scope.
HookReturn == cpc' = cret /\ creader' = NoKey

(* GetCurve, to the end of its first critical section:                    *)
(* assert(enable_insert.load()); m_marker = new ListNode(kMarkerKey)      *)
(* (m_time = NowMicros()); under m_list_mtx LruPushFront(m_marker) and    *)
(* curve_flag = true.  The sampling loop that follows only reads counters *)
(* and sleeps: the clients run meanwhile.                                 *)
GcStart ==
  LET m == nextId + 1
      L == [link EXCEPT ![m] = [prev |-> OOL, next |-> Null]]
  IN
  /\ cpc = "gc_start"
  /\ IF ~enableInsert THEN Fault("gc_start") ELSE
     Deref(PushDerefs(L, m, MHead) \ {m}, "gc_start",
       /\ cpc' = "gc_end"
       /\ nextId' = m
       /\ alive' = alive \cup {m}
       /\ nkey' = [nkey EXCEPT ![m] = MarkerKey]
       /\ mtime' = [mtime EXCEPT ![m] = clock + 1]
       /\ clock' = clock + 1
       /\ link' = LruPushFront(L, m)
       /\ marker' = m
       /\ curve' = TRUE
       /\ UNCHANGED <<fault, threadVars, cret, hooks, cur, count, fcSize,
                      firstPass, evNum, map, writer, readers, creader, fast,
                      ready, construct, enableInsert, size, evictions>>)

(* Under m_list_mtx: curve_flag = false; LruRemove(m_marker), with no     *)
(* is_in_list() check.                                                     *)
GcEnd ==
  /\ cpc = "gc_end"
  /\ Deref(RemoveDerefs(link, marker), "gc_end",
       /\ cpc' = "gc_free"
       /\ curve' = FALSE
       /\ link' = LruRemove(link, marker)
       /\ UNCHANGED <<nkey, mtime, alive, nextId, clock, fault, threadVars,
                      cret, hooks, cur, count, fcSize, firstPass, evNum,
                      map, writer, readers, creader, fast, ready, construct,
                      enableInsert, marker, size, evictions>>)

(* delete m_marker; m_marker = nullptr; and return.                        *)
GcFree ==
  /\ cpc = "gc_free"
  /\ cpc' = cret
  /\ alive' = alive \ {marker}
  /\ marker' = Null
  /\ UNCHANGED <<link, nkey, mtime, nextId, clock, fault, threadVars,
                 cret, hooks, cur, count, fcSize, firstPass, evNum,
                 map, writer, readers, creader, fast, ready, construct,
                 enableInsert, curve, size, evictions>>

\* assert(m_fast_head.m_next == &m_fast_tail); assert(m_fast_tail.m_prev ==
\* &m_fast_head);
FastListEmpty == link[FHead].next = FTail /\ link[FTail].prev = FHead

(* The main list moved whole into the fast list, the main list emptied.   *)
TierSplice(L) ==
  LET L1 == SetNext(L, FHead, L[MHead].next)
      L2 == SetPrev(L1, L1[MHead].next, FHead)
      L3 == SetPrev(L2, FTail, L2[MTail].prev)
      L4 == SetNext(L3, L3[MTail].prev, FTail)
  IN SetPrev(SetNext(L4, MHead, MTail), MTail, MHead)

(* ConstructTier, under m_list_mtx: fast_cache_construct = true;          *)
(* enable_insert = false; the two asserts; the splice.  The walk starts   *)
(* at m_fast_head.m_next.                                                  *)
CtLock ==
  /\ cpc = "ct_lock"
  /\ IF ~FastListEmpty
     THEN Fault("ct_lock")
     ELSE Deref({link[MHead].next, link[MTail].prev}, "ct_lock",
            /\ cpc' = "ct_walk"
            /\ link' = TierSplice(link)
            /\ cur' = TierSplice(link)[FHead].next
            /\ construct' = TRUE
            /\ enableInsert' = FALSE
            /\ UNCHANGED <<nkey, mtime, alive, nextId, clock, fault,
                           threadVars, cret, hooks, count, fcSize, firstPass,
                           evNum, map, writer, readers, creader, fast, ready,
                           curve, marker, size, evictions>>)

(* One pass of a walk over the fast list at cur, after the find:          *)
(* m_map.find(temp_hash_accessor, temp_node->m_key) first releases the    *)
(* accessor it holds, then waits while the key's accessor is held.  A     *)
(* key that is absent (the sentinels' and the marker's included) gets its *)
(* node unlinked, without m_list_mtx, when it is in a list, and deleted;  *)
(* deleting a sentinel is undefined.  A present key goes into the fast    *)
(* hash and the walk moves on.  Present(A) and Absent(A) are the rest of  *)
(* the pass in each case.                                                  *)
WalkFind(w, Present, Absent) ==
  LET k == nkey[cur] IN
  Deref({cur}, w,
    IF k \in Keys /\ writer[k] /= NoThread
    THEN /\ creader /= NoKey
         /\ creader' = NoKey
         /\ UNCHANGED <<memVars, fault, threadVars, ctrlVars, map, writer,
                        readers, fast, ready, construct, enableInsert, curve,
                        marker, size, evictions>>
    ELSE IF k \in Keys /\ map[k] /= Null
    THEN /\ creader' = k
         /\ fast' = fast \cup {k}
         /\ Present
    ELSE IF cur \in Sentinels
    THEN Fault(w)
    ELSE Deref(IF InList(link, cur) THEN RemoveDerefs(link, cur) ELSE {}, w,
              /\ creader' = NoKey
              /\ link' = IF InList(link, cur) THEN LruRemove(link, cur) ELSE link
              /\ alive' = alive \ {cur}
              /\ UNCHANGED fast
              /\ Absent))

(* ConstructTier's loop, until temp_node == &m_fast_tail; then            *)
(* fast_cache_construct = false and return false.                          *)
CtWalk ==
  /\ cpc = "ct_walk"
  /\ IF cur = FTail
     THEN /\ HookReturn
          /\ construct' = FALSE
          /\ UNCHANGED <<memVars, fault, threadVars, hooks, cret, cur, count,
                         fcSize, firstPass, evNum, map, writer, readers, fast,
                         ready, enableInsert, curve, marker, size, evictions>>
     ELSE WalkFind("ct_walk",
            /\ cur' = link[cur].next
            /\ UNCHANGED <<memVars, fault, threadVars, cpc, cret, hooks, count,
                           fcSize, firstPass, evNum, map, writer, readers,
                           ready, construct, enableInsert, curve, marker,
                           size, evictions>>,
            /\ cur' = link[cur].next
            /\ UNCHANGED <<nkey, mtime, nextId, clock, fault, threadVars, cpc,
                           cret, hooks, count, fcSize, firstPass, evNum, map,
                           writer, readers, ready, construct, enableInsert,
                           curve, marker, size, evictions>>)

(* DeleteFastCache, under m_list_mtx: the fast list is put in front of    *)
(* the main list, statement by statement, then emptied;                   *)
(* fast_cache_ready = false.                                               *)
MergeSplice(L) ==
  LET x  == L[MHead].next
      L1 == SetPrev(L, L[FHead].next, MHead)
      L2 == SetNext(L1, L1[FTail].prev, x)
      L3 == SetNext(L2, MHead, L2[FHead].next)
      L4 == SetPrev(L3, x, L3[FTail].prev)
  IN SetPrev(SetNext(L4, FHead, FTail), FTail, FHead)
MergeDerefs(L) ==
  {L[FHead].next, SetPrev(L, L[FHead].next, MHead)[FTail].prev, L[MHead].next}

DlLock ==
  /\ cpc = "dl_lock"
  /\ Deref(MergeDerefs(link), "dl_lock",
       /\ cpc' = "dl_clear"
       /\ link' = MergeSplice(link)
       /\ ready' = FALSE
       /\ UNCHANGED <<nkey, mtime, alive, nextId, clock, fault, threadVars,
                      cret, hooks, cur, count, fcSize, firstPass, evNum, map,
                      writer, readers, creader, fast, construct, enableInsert,
                      curve, marker, size, evictions>>)

(* m_fast_hash->Clear(), after the unlock.                                 *)
DlClear ==
  /\ cpc = "dl_clear"
  /\ cpc' = cret
  /\ fast' = {}
  /\ UNCHANGED <<memVars, fault, threadVars, cret, hooks, cur, count, fcSize,
                 firstPass, evNum, map, writer, readers, creader, ready,
                 construct, enableInsert, curve, marker, size, evictions>>

(* ConstructFastCache(FC_ratio), up to the loop: the two asserts;          *)
(* eviction_counter = 0; m_fast_head.m_next = m_head.m_next, without      *)
(* m_list_mtx; fast_cache_construct = true; the walk starts there.        *)
CfStart ==
  /\ cpc = "cf_start"
  /\ IF ~FastListEmpty
     THEN Fault("cf_start")
     ELSE /\ cpc' = "cf_walk"
          /\ evictions' = 0
          /\ link' = SetNext(link, FHead, link[MHead].next)
          /\ cur' = link[MHead].next
          /\ construct' = TRUE
          /\ count' = 0
          /\ firstPass' = TRUE
          /\ UNCHANGED <<nkey, mtime, alive, nextId, clock, fault, threadVars,
                         cret, hooks, fcSize, evNum, map, writer, readers,
                         creader, fast, ready, enableInsert, curve, marker,
                         size>>

(* The loop of ConstructFastCache, until temp_node == &m_fast_tail:       *)
(* count++; eviction_num = eviction_counter.load(); the find.             *)
CfWalk ==
  /\ cpc = "cf_walk"
  /\ IF cur = FTail
     THEN /\ cpc' = "cf_end"
          /\ UNCHANGED <<memVars, fault, threadVars, shardVars, cret, hooks,
                         cur, count, fcSize, firstPass, evNum>>
     ELSE WalkFind("cf_walk",
            /\ cpc' = "cf_after"
            /\ cur' = link[cur].next
            /\ count' = count + 1
            /\ evNum' = evictions
            /\ UNCHANGED <<memVars, fault, threadVars, cret, hooks, fcSize,
                           firstPass, map, writer, readers, ready, construct,
                           enableInsert, curve, marker, size, evictions>>,
            /\ cur' = link[cur].next
            /\ count' = count + 1
            /\ evNum' = evictions
            /\ UNCHANGED <<nkey, mtime, nextId, clock, fault, threadVars, cpc,
                           cret, hooks, fcSize, firstPass, map, writer,
                           readers, ready, construct, enableInsert, curve,
                           marker, size, evictions>>)

\* c > a - b on uint64_t: when a < b the difference wraps to near 2^64 and
\* no count exceeds it.
Exceeds(c, a, b) == a >= b /\ c > a - b

(* Under m_list_mtx: m_fast_tail.m_prev = temp_node->m_prev and the fast   *)
(* list closed there; the first fast node's prev set to m_fast_head; the  *)
(* node that was before it (node_before) linked to temp_node.             *)
SplitSplice(L, c) ==
  LET nb == L[L[FHead].next].prev
      L1 == SetPrev(L, FTail, L[c].prev)
      L2 == SetNext(L1, L1[c].prev, FTail)
      L3 == SetPrev(L2, L2[FHead].next, FHead)
  IN SetPrev(SetNext(L3, nb, c), c, nb)
SplitDerefs(L, c) ==
  {L[FHead].next, c, L[c].prev, L[L[FHead].next].prev}

(* Under m_list_mtx ("frozen all"): the fast list runs on to the old tail, *)
(* m_tail.m_prev becomes the node before the first fast node.              *)
FrozenAllSplice(L) ==
  LET x  == L[FHead].next
      L1 == SetPrev(L, FTail, L[MTail].prev)
      L2 == SetNext(L1, L1[MTail].prev, FTail)
      L3 == SetPrev(L2, MTail, L2[x].prev)
  IN SetPrev(SetNext(L3, L3[MTail].prev, MTail), x, FHead)
FrozenAllDerefs(L) ==
  {L[FHead].next, L[MTail].prev, L[L[FHead].next].prev}

(* After a key went into the fast hash: if (count > FC_size - 20 &&       *)
(* first_pass_flag) split and break; else if (eviction_num > DC_size - 20 *)
(* && first_pass_flag) freeze all and first_pass_flag = false.             *)
CfAfter ==
  /\ cpc = "cf_after"
  /\ IF firstPass /\ Exceeds(count, fcSize, Magic)
     THEN Deref(SplitDerefs(link, cur), "cf_after",
            /\ cpc' = "cf_end"
            /\ link' = SplitSplice(link, cur)
            /\ UNCHANGED <<firstPass, fault>>)
     ELSE IF firstPass /\ Exceeds(evNum, Capacity - fcSize, Magic)
     THEN Deref(FrozenAllDerefs(link), "cf_after",
            /\ cpc' = "cf_walk"
            /\ link' = FrozenAllSplice(link)
            /\ firstPass' = FALSE
            /\ UNCHANGED fault)
     ELSE cpc' = "cf_walk" /\ UNCHANGED <<link, firstPass, fault>>
  /\ UNCHANGED <<nkey, mtime, alive, nextId, clock, threadVars, cret,
                 hooks, cur, count, fcSize, evNum, shardVars>>

(* fast_cache_ready = true; fast_cache_construct = false;                   *)
(* eviction_counter = 0; return true.                                       *)
CfEnd ==
  /\ cpc = "cf_end"
  /\ HookReturn
  /\ ready' = TRUE
  /\ construct' = FALSE
  /\ evictions' = 0
  /\ UNCHANGED <<memVars, fault, threadVars, cret, hooks, cur, count, fcSize,
                 firstPass, evNum, map, writer, readers, fast, enableInsert,
                 curve, marker, size>>

-----------------------------------------------------------------------------
(* The monitor between hooks, in the order of FrozenMonitor: WAIT_STABLE  *)
(* then GetCurve; the 100%-frozen probe ConstructTier then                 *)
(* DeleteFastCache; then either back to WAIT_STABLE (best_size < 0.05) or  *)
(* CONSTRUCT: ConstructTier (best_size 1) or ConstructFastCache(best_size) *)
(* and the frozen phase, which ends with DeleteFastCache and goes back to  *)
(* WAIT_STABLE (failed, or DECONSTRUCT) or to CONSTRUCT (a refresh).  The *)
(* choices depend on measured latencies and are free here.  After         *)
(* CtrlBudget hook calls should_stop_ is set and the monitor stops.       *)
Phases == {"wait_stable", "probe", "probe_del", "choose", "frozen"}

Call(h, back) == cpc' = h /\ cret' = back /\ hooks' = hooks + 1

Monitor ==
  /\ cpc \in Phases
  /\ IF hooks = CtrlBudget
     THEN cpc' = "stopped" /\ UNCHANGED <<cret, hooks, fcSize>>
     ELSE \/ cpc = "wait_stable" /\ Call("gc_start", "probe") /\ UNCHANGED fcSize
          \/ cpc = "probe" /\ Call("ct_lock", "probe_del") /\ UNCHANGED fcSize
          \/ cpc = "probe_del" /\ Call("dl_lock", "choose") /\ UNCHANGED fcSize
          \/ cpc = "choose" /\ cpc' = "wait_stable" /\ UNCHANGED <<cret, hooks, fcSize>>
          \/ cpc = "choose" /\ Call("ct_lock", "frozen") /\ UNCHANGED fcSize
          \/ cpc = "choose" /\ Call("cf_start", "frozen") /\ fcSize' \in FCSizes
          \/ cpc = "frozen" /\ \E back \in {"wait_stable", "choose"} :
                                  Call("dl_lock", back) /\ UNCHANGED fcSize
  /\ UNCHANGED <<memVars, shardVars, fault, threadVars, cur, count, firstPass,
                 evNum>>

-----------------------------------------------------------------------------
\* Every client has finished its requests and the monitor has stopped, or
\* the process has hit undefined behaviour: nothing happens any more.
Finished ==
  /\ \/ (\A t \in Threads : pc[t] = "idle" /\ ops[t] = OpBudget[t])
        /\ cpc = "stopped"
     \/ fault /= "none"
  /\ UNCHANGED vars

ThreadStep(t) ==
  /\ fault = "none"
  /\ \/ StartOp(t) \/ Lookup(t) \/ LkConstruct(t) \/ LkMarker(t)
     \/ LkMtime(t) \/ LkPromote(t) \/ LkTry(t) \/ Insert(t) \/ InsMap(t)
     \/ InsCheck(t) \/ InsLock(t) \/ InsRelease(t) \/ InsIncr(t) \/ InsDec(t)
     \/ EvPop(t) \/ EvFind(t)

CtrlStep ==
  /\ fault = "none"
  /\ \/ Monitor \/ GcStart \/ GcEnd \/ GcFree \/ CtLock \/ CtWalk
     \/ DlLock \/ DlClear \/ CfStart \/ CfWalk \/ CfAfter \/ CfEnd

Next == (\E t \in Threads : ThreadStep(t)) \/ CtrlStep \/ Finished

\* Clients and the monitor are OS threads, scheduled while they have a
\* step to take.
Fairness ==
  /\ \A t \in Threads : WF_vars(ThreadStep(t) /\ pc[t] /= "idle")
  /\ WF_vars(CtrlStep)

Spec == Init /\ [][Next]_vars /\ Fairness

-----------------------------------------------------------------------------
(* Properties.                                                             *)

Quiescent == \A t \in Threads : pc[t] = "idle"

\* The cells reached from a list's head sentinel by next pointers.
MainCells == Forward(link, MHead, {})
FastCells == Forward(link, FHead, {})

TypeOK ==
  /\ link \in [Cells -> [prev : Ptr, next : Ptr]]
  /\ nkey \in [Cells -> Keys \cup {NullKey, MarkerKey}]
  /\ alive \subseteq NodeIds /\ nextId \in 0 .. Cardinality(NodeIds)
  /\ map \in [Keys -> {Null} \cup NodeIds]
  /\ writer \in [Keys -> Threads \cup {NoThread}]
  /\ readers \in [Keys -> SUBSET Threads]
  /\ creader \in Keys \cup {NoKey} /\ fast \subseteq Keys
  /\ {ready, construct, enableInsert, curve, firstPass} \subseteq BOOLEAN
  /\ marker \in {Null} \cup NodeIds /\ size \in Nat /\ evictions \in Nat
  /\ pc \in [Threads -> {"idle", "lookup", "lk_construct", "lk_marker",
                          "lk_mtime", "lk_promote", "lk_try", "insert",
                          "ins_map", "ins_check", "ins_lock", "ins_release",
                          "ins_incr", "ins_dec", "ev_pop", "ev_find"}]
  /\ cpc \in Phases \cup {"stopped", "gc_start", "gc_end", "gc_free",
                          "ct_lock", "ct_walk", "dl_lock", "dl_clear",
                          "cf_start", "cf_walk", "cf_after", "cf_end"}
  /\ hooks \in 0 .. CtrlBudget

Mapped == {k \in Keys : map[k] /= Null}
MainNodes == MainCells \ Sentinels
FastNodes == FastCells \ Sentinels

(* Every cached key maps to a node that is not deleted: Evict deletes only *)
(* the node it popped after erasing its key, a rejected Insert erases its *)
(* key before deleting its node, and the hooks' walks delete only nodes   *)
(* whose key is absent, so Lookup never reads a deleted node through      *)
(* m_map.                                                                  *)
MapNodesLive == \A k \in Mapped : map[k] \in alive

(* Between requests m_size is at least the number of cached entries, so   *)
(* the capacity test of Insert keeps evicting; it exceeds m_max_size by   *)
(* at most one, the entry that "s = m_size++" lets through when two       *)
(* inserts read the size below capacity.                                   *)
SizeCoversEntries ==
  Quiescent => Cardinality(Mapped) <= size /\ size <= Capacity + 1

(* While curve_flag is set the marker is in the main list (the spec: the  *)
(* marker "tracks curve-profiling cursor position"), so that Insert can   *)
(* splice after it and GetCurve can unlink it.                             *)
MarkerInList == curve => marker \in MainCells

(* DeleteFastCache puts the fast list back in front of the main list: the *)
(* main list afterwards holds exactly the nodes of both (the spec:        *)
(* "deconstruct restores reachability").                                   *)
DeconstructKeepsNodes ==
  [][cpc = "dl_lock" /\ cpc' = "dl_clear" =>
       MainNodes' = MainNodes \cup FastNodes]_vars

(* Every request returns, unless the process hit undefined behaviour: no  *)
(* accessor, const_accessor or the monitor's walk blocks a client forever. *)
(* A fault is final, so "always eventually idle or faulted" is the same as *)
(* "a request in progress leads to idle or a fault".                       *)
EveryOperationCompletes ==
  \A t \in Threads : []<>(pc[t] = "idle" \/ fault /= "none")

=============================================================================
