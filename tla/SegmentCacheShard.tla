------------------------- MODULE SegmentCacheShard -------------------------
(***************************************************************************)
(* One SegmentCacheShard of the RocksDB port of the segment policy,        *)
(* src/end-to-end/rocksdb-7.10.2/cache/segment_cache.{h,cc}, run by       *)
(* several client threads.                                                 *)
(*                                                                         *)
(* The port keeps the segment log of src/cache/segment_cache.h but hands   *)
(* EntryHandles to its callers: Insert and Lookup return the entry with    *)
(* one more reference, and the caller gives it back with Release.  The    *)
(* map holds no reference of its own: refs counts the entry's slots and    *)
(* the handles out.  Erase tests `!hash_map_.find(...)` and so acts only   *)
(* on an absent key, through an empty accessor.                            *)
(*                                                                         *)
(* Keys are naturals so that a warm shard of 22 segments (the floor of    *)
(* SegmentList::Evict is count > 20) can be written down; the clients use *)
(* only ClientKeys.  A client holds at most one handle at a time.          *)
(***************************************************************************)
EXTENDS Integers, Sequences, FiniteSets

CONSTANTS
  Threads,          \* client threads
  Keys,             \* keys of the shard (naturals)
  ClientKeys,       \* keys the clients use
  NoThread,         \* "no accessor holder"
  SlotsPerSegment,  \* kNumSlotsPerSegment
  Capacity,         \* capacity_, in entries of charge 1
  MinSegmentCount,  \* the literal 20 of SegmentList::Evict (count > 20)
  Requests,         \* the calls the clients make
  OpBudget,         \* [Threads -> Nat]: calls each client makes
  WarmSlots         \* keys of the slots appended, one call after the other,
                    \* before the clients start: the first slot of a key is
                    \* its Insert, every later one a promoting Lookup

ASSUME SlotsPerSegment \in Nat \ {0} /\ Capacity \in Nat
ASSUME ClientKeys \subseteq Keys /\ NoThread \notin Threads
ASSUME Requests \subseteq {"insert", "lookup", "erase", "release"}
ASSUME WarmSlots \in Seq(Keys)

NoEntry == 0
NoSeg == 0
NWarm == Len(WarmSlots)
TotalOps == LET RECURSIVE SumOver(_)
                SumOver(S) == IF S = {} THEN 0
                              ELSE LET t == CHOOSE x \in S : TRUE
                                   IN OpBudget[t] + SumOver(S \ {t})
            IN SumOver(Threads)
EntryIds == 1 .. (NWarm + TotalOps)
WarmSeg(i) == (i - 1) \div SlotsPerSegment + 1
WarmSegments == IF NWarm = 0 THEN 1 ELSE WarmSeg(NWarm)
SegIds == 1 .. (WarmSegments + TotalOps)
SlotIdx == 0 .. (SlotsPerSegment - 1)
NoSlot == [entry |-> NoEntry, version |-> 0]

-----------------------------------------------------------------------------
(* The warm prefix.  The entry of a key is the position of its first slot; *)
(* its version is the number of its slots; the i-th slot sits in segment   *)
(* WarmSeg(i) and carries the number of slots of its key up to i.          *)
Occurrences(k, n) == Cardinality({i \in 1..n : WarmSlots[i] = k})
FirstSlot(k) == CHOOSE i \in 1..NWarm : WarmSlots[i] = k /\ Occurrences(k, i) = 1
WarmKeys == {WarmSlots[i] : i \in 1..NWarm}
WarmEntryIds == {FirstSlot(k) : k \in WarmKeys}
\* belong is the head loaded before the Insert's Add.
WarmBelong(i) == IF i = 1 THEN 1 ELSE WarmSeg(i - 1)
\* The prefix is a run of the code: every Lookup found its entry's belong
\* behind the head and promoted, and no Insert reached capacity.
ASSUME \A i \in 1..NWarm :
         Occurrences(WarmSlots[i], i) > 1 => WarmBelong(FirstSlot(WarmSlots[i])) /= WarmSeg(i - 1)
ASSUME Cardinality(WarmKeys) < Capacity

VARIABLES
  index,      \* hash_map_: key -> EntryHandle* (NoEntry when absent)
  writer,     \* key -> thread holding an accessor (write lock) on it
  readers,    \* key -> threads holding a const_accessor on it
  entry,      \* EntryHandle: [key, version, refs, belong, state]
  nextEntry,  \* number of entries allocated so far
  slot,       \* Segment::slot_array
  used,       \* Segment::used
  head,       \* SegmentList::head_segment
  tail,       \* SegmentList::tail_segment
  prev,       \* Segment::prev (NoSeg for nullptr)
  nextSeg,    \* number of segments allocated so far
  deleted,    \* segments that were deleted
  count,      \* SegmentList::count
  usage,      \* usage_
  charged,    \* entries whose charge Insert has added to usage_ (history)
  pc, ops, key, ent, ver, seg, sid, victim, scan, handle   \* per thread

shardVars == <<index, writer, readers, entry, nextEntry, slot, used, head, tail,
               prev, nextSeg, deleted, count, usage, charged>>
threadVars == <<pc, ops, key, ent, ver, seg, sid, victim, scan, handle>>
vars == <<shardVars, threadVars>>

Init ==
  /\ index = [k \in Keys |-> IF k \in WarmKeys THEN FirstSlot(k) ELSE NoEntry]
  /\ writer = [k \in Keys |-> NoThread]
  /\ readers = [k \in Keys |-> {}]
  /\ entry = [e \in EntryIds |->
               IF e \in WarmEntryIds
               THEN [key |-> WarmSlots[e], version |-> Occurrences(WarmSlots[e], NWarm),
                     refs |-> Occurrences(WarmSlots[e], NWarm),
                     belong |-> WarmBelong(e), state |-> "live"]
               ELSE [key |-> CHOOSE k \in Keys : TRUE, version |-> 0, refs |-> 0,
                     belong |-> NoSeg, state |-> "unallocated"]]
  /\ nextEntry = NWarm
  /\ slot = [s \in SegIds |-> [i \in SlotIdx |->
               LET p == (s - 1) * SlotsPerSegment + i + 1
               IN IF p <= NWarm
                  THEN [entry |-> FirstSlot(WarmSlots[p]),
                        version |-> Occurrences(WarmSlots[p], p)]
                  ELSE NoSlot]]
  /\ used = [s \in SegIds |->
               IF s < WarmSegments THEN SlotsPerSegment
               ELSE IF s = WarmSegments THEN NWarm - (WarmSegments - 1) * SlotsPerSegment
               ELSE 0]
  /\ head = WarmSegments
  /\ tail = 1
  /\ prev = [s \in SegIds |-> IF s < WarmSegments THEN s + 1 ELSE NoSeg]
  /\ nextSeg = WarmSegments
  /\ deleted = {}
  /\ count = WarmSegments - 1
  /\ usage = Cardinality(WarmKeys)
  /\ charged = WarmEntryIds
  /\ pc = [t \in Threads |-> "idle"]
  /\ ops = [t \in Threads |-> 0]
  /\ key = [t \in Threads |-> CHOOSE k \in ClientKeys : TRUE]
  /\ ent = [t \in Threads |-> NoEntry]
  /\ ver = [t \in Threads |-> 0]
  /\ seg = [t \in Threads |-> NoSeg]
  /\ sid = [t \in Threads |-> 0]
  /\ victim = [t \in Threads |-> NoSeg]
  /\ scan = [t \in Threads |-> 0]
  /\ handle = [t \in Threads |-> NoEntry]

-----------------------------------------------------------------------------
(* Helpers.                                                                *)

Goto(t, from, to) == pc[t] = from /\ pc' = [pc EXCEPT ![t] = to]

Unlocked(k) == writer[k] = NoThread /\ readers[k] = {}

\* A crashed thread has taken the whole process down.
Crashed == \E t \in Threads : pc[t] = "crashed"

(* `old = e->refs--; if (old == 1) FreeEntry(e);` FreeEntry sets version  *)
(* to 0, gives the charge back to usage_ and frees the entry.              *)
Unref(e) ==
  IF entry[e].refs = 1
  THEN /\ entry' = [entry EXCEPT ![e].refs = 0, ![e].version = 0, ![e].state = "freed"]
       /\ usage' = usage - 1
  ELSE /\ entry' = [entry EXCEPT ![e].refs = @ - 1]
       /\ usage' = usage

-----------------------------------------------------------------------------
(* A client makes its next call.  Insert and Lookup are made with no       *)
(* handle in hand; Release gives back the one it holds.                    *)
StartOp(t) ==
  /\ pc[t] = "idle"
  /\ ops[t] < OpBudget[t]
  /\ \/ /\ handle[t] = NoEntry
        /\ \E o \in Requests \cap {"insert", "lookup"}, k \in ClientKeys :
             /\ pc' = [pc EXCEPT ![t] = o]
             /\ key' = [key EXCEPT ![t] = k]
     \/ /\ "erase" \in Requests
        /\ \E k \in ClientKeys :
             /\ pc' = [pc EXCEPT ![t] = "erase"]
             /\ key' = [key EXCEPT ![t] = k]
  /\ ops' = [ops EXCEPT ![t] = @ + 1]
  /\ UNCHANGED <<shardVars, ent, ver, seg, sid, victim, scan, handle>>

(* Release: refs--, FreeEntry when it was the last reference.             *)
Release(t) ==
  /\ pc[t] = "idle"
  /\ ops[t] < OpBudget[t]
  /\ "release" \in Requests
  /\ handle[t] /= NoEntry
  /\ Unref(handle[t])
  /\ handle' = [handle EXCEPT ![t] = NoEntry]
  /\ ops' = [ops EXCEPT ![t] = @ + 1]
  /\ UNCHANGED <<index, writer, readers, nextEntry, slot, used, head, tail, prev,
                 nextSeg, deleted, count, charged, pc, key, ent, ver, seg, sid,
                 victim, scan>>

(* Insert, up to hash_map_.insert: a new entry with version 1, refs 1 and  *)
(* belong = the head loaded.  On a new key the accessor is kept to the end *)
(* of Insert.  On a present key the new entry is freed, the old one gets   *)
(* the value and refs++, and is returned.                                  *)
Insert(t) ==
  LET k == key[t]
      e == nextEntry + 1
  IN
  /\ pc[t] = "insert"
  /\ \/ /\ index[k] = NoEntry
        /\ entry' = [entry EXCEPT ![e] = [key |-> k, version |-> 1, refs |-> 1,
                                          belong |-> head, state |-> "live"]]
        /\ index' = [index EXCEPT ![k] = e]
        /\ writer' = [writer EXCEPT ![k] = t]
        /\ nextEntry' = e
        /\ ent' = [ent EXCEPT ![t] = e]
        /\ ver' = [ver EXCEPT ![t] = 1]
        /\ pc' = [pc EXCEPT ![t] = "append"]
        /\ UNCHANGED handle
     \/ /\ index[k] /= NoEntry
        /\ Unlocked(k)
        /\ entry' = [entry EXCEPT ![index[k]].refs = @ + 1]
        /\ handle' = [handle EXCEPT ![t] = index[k]]
        /\ pc' = [pc EXCEPT ![t] = "idle"]
        /\ UNCHANGED <<index, writer, nextEntry, ent, ver>>
  /\ UNCHANGED <<readers, slot, used, head, tail, prev, nextSeg, deleted, count,
                 usage, charged, ops, key, seg, sid, victim, scan>>

\* Mutants of Lookup: the promotion takes no reference for the new slot;
\* the new slot is added with old_version instead of old_version + 1.
LookupNoSlotRef(t) ==
  LET k == key[t]
      e == index[k]
  IN
  /\ pc[t] = "lookup"
  /\ e /= NoEntry /\ writer[k] = NoThread
  /\ count < 512 /\ entry[e].belong /= head
  /\ readers' = [readers EXCEPT ![k] = @ \cup {t}]
  /\ entry' = [entry EXCEPT ![e].version = @ + 1]
  /\ ent' = [ent EXCEPT ![t] = e]
  /\ ver' = [ver EXCEPT ![t] = entry[e].version + 1]
  /\ pc' = [pc EXCEPT ![t] = "append"]
  /\ UNCHANGED <<index, writer, nextEntry, slot, used, head, tail, prev, nextSeg,
                 deleted, count, usage, charged, ops, key, seg, sid, victim, scan,
                 handle>>
LookupOldVersion(t) ==
  LET k == key[t]
      e == index[k]
  IN
  /\ pc[t] = "lookup"
  /\ e /= NoEntry /\ writer[k] = NoThread
  /\ count < 512 /\ entry[e].belong /= head
  /\ readers' = [readers EXCEPT ![k] = @ \cup {t}]
  /\ entry' = [entry EXCEPT ![e].refs = @ + 1, ![e].version = @ + 1]
  /\ ent' = [ent EXCEPT ![t] = e]
  /\ ver' = [ver EXCEPT ![t] = entry[e].version]
  /\ pc' = [pc EXCEPT ![t] = "append"]
  /\ UNCHANGED <<index, writer, nextEntry, slot, used, head, tail, prev, nextSeg,
                 deleted, count, usage, charged, ops, key, seg, sid, victim, scan,
                 handle>>

(* Lookup: find under a const_accessor.  While count < 512 and the         *)
(* entry's belong is not the head, refs++ for a new slot, version++, and   *)
(* Add(e, old_version + 1) under the const_accessor; then refs++ for the   *)
(* handle returned.                                                        *)
Lookup(t) ==
  LET k == key[t]
      e == index[k]
  IN
  /\ pc[t] = "lookup"
  /\ \/ /\ e = NoEntry
        /\ pc' = [pc EXCEPT ![t] = "idle"]
        /\ UNCHANGED <<entry, readers, ent, ver, handle>>
     \/ /\ e /= NoEntry
        /\ writer[k] = NoThread
        /\ ~(count < 512 /\ entry[e].belong /= head)
        /\ entry' = [entry EXCEPT ![e].refs = @ + 1]
        /\ handle' = [handle EXCEPT ![t] = e]
        /\ pc' = [pc EXCEPT ![t] = "idle"]
        /\ UNCHANGED <<readers, ent, ver>>
     \/ /\ e /= NoEntry
        /\ writer[k] = NoThread
        /\ count < 512 /\ entry[e].belong /= head
        /\ readers' = [readers EXCEPT ![k] = @ \cup {t}]
        /\ entry' = [entry EXCEPT ![e].refs = @ + 1, ![e].version = @ + 1]
        /\ ent' = [ent EXCEPT ![t] = e]
        /\ ver' = [ver EXCEPT ![t] = entry[e].version + 1]
        /\ pc' = [pc EXCEPT ![t] = "append"]
        /\ UNCHANGED handle
  /\ UNCHANGED <<index, writer, nextEntry, slot, used, head, tail, prev, nextSeg,
                 deleted, count, usage, charged, ops, key, seg, sid, victim, scan>>

(* The end of a promoting Lookup: refs++ for the handle, and the           *)
(* const_accessor goes out of scope.                                       *)
LookupRef(t) ==
  LET e == ent[t] IN
  /\ Goto(t, "lk_ref", "idle")
  /\ entry' = [entry EXCEPT ![e].refs = @ + 1]
  /\ handle' = [handle EXCEPT ![t] = e]
  /\ readers' = [readers EXCEPT ![entry[e].key] = @ \ {t}]
  /\ UNCHANGED <<index, writer, nextEntry, slot, used, head, tail, prev, nextSeg,
                 deleted, count, usage, charged, ops, key, ent, ver, seg, sid,
                 victim, scan>>

(* Erase: `if (!hash_map_.find(accessor, key))`.  A present key is left    *)
(* alone; on an absent key accessor->second reads through the empty       *)
(* accessor's null node and the process crashes.                           *)
Erase(t) ==
  LET k == key[t] IN
  /\ pc[t] = "erase"
  /\ \/ /\ index[k] = NoEntry
        /\ pc' = [pc EXCEPT ![t] = "crashed"]
     \/ /\ index[k] /= NoEntry
        /\ Unlocked(k)
        /\ pc' = [pc EXCEPT ![t] = "idle"]
  /\ UNCHANGED <<shardVars, ops, key, ent, ver, seg, sid, victim, scan, handle>>

-----------------------------------------------------------------------------
(* SegmentList::Add(entry, version), shared by Insert and Lookup.          *)

(* Segment::Append on the loaded head: fetch_add on used; a slot id below  *)
(* kNumSlotsPerSegment is claimed, otherwise Add goes for the head mutex.  *)
SegAppend(t) ==
  /\ pc[t] = "append"
  /\ used' = [used EXCEPT ![head] = @ + 1]
  /\ IF used[head] < SlotsPerSegment
     THEN /\ seg' = [seg EXCEPT ![t] = head]
          /\ sid' = [sid EXCEPT ![t] = used[head]]
          /\ pc' = [pc EXCEPT ![t] = "publish"]
     ELSE /\ pc' = [pc EXCEPT ![t] = "grow"]
          /\ UNCHANGED <<seg, sid>>
  /\ UNCHANGED <<index, writer, readers, entry, nextEntry, slot, head, tail, prev,
                 nextSeg, deleted, count, usage, charged, ops, key, ent, ver,
                 victim, scan, handle>>

(* Under head_segment_mtx: if the head is still full, a new segment is     *)
(* linked in front of it (temp_head->prev = segment), published as head,   *)
(* and count++; then Add retries.                                          *)
Grow(t) ==
  LET n == nextSeg + 1 IN
  /\ Goto(t, "grow", "append")
  /\ IF used[head] >= SlotsPerSegment
     THEN /\ prev' = [prev EXCEPT ![head] = n]
          /\ head' = n
          /\ nextSeg' = n
          /\ count' = count + 1
     ELSE UNCHANGED <<prev, head, nextSeg, count>>
  /\ UNCHANGED <<index, writer, readers, entry, nextEntry, slot, used, tail,
                 deleted, usage, charged, ops, key, ent, ver, seg, sid, victim,
                 scan, handle>>

(* The claimed slot gets (entry, version); Add returns.                    *)
Publish(t) ==
  LET k == entry[ent[t]].key IN
  /\ pc[t] = "publish"
  /\ slot' = [slot EXCEPT ![seg[t]][sid[t]] = [entry |-> ent[t], version |-> ver[t]]]
  /\ pc' = [pc EXCEPT ![t] = IF writer[k] = t THEN "charge" ELSE "lk_ref"]
  /\ UNCHANGED <<index, writer, readers, entry, nextEntry, used, head, tail, prev,
                 nextSeg, deleted, count, usage, charged, ops, key, ent, ver, seg,
                 sid, victim, scan, handle>>

\* Mutant of Charge: the fetch_add is missing.
ChargeNothing(t) ==
  /\ Goto(t, "charge", "evict_check")
  /\ charged' = charged \cup {ent[t]}
  /\ UNCHANGED <<index, writer, readers, entry, nextEntry, slot, used, head, tail,
                 prev, nextSeg, deleted, count, usage, ops, key, ent, ver, seg,
                 sid, victim, scan, handle>>

(* Insert after Add: usage_.fetch_add(charge).  The accessor is still held.*)
Charge(t) ==
  /\ Goto(t, "charge", "evict_check")
  /\ usage' = usage + 1
  /\ charged' = charged \cup {ent[t]}
  /\ UNCHANGED <<index, writer, readers, entry, nextEntry, slot, used, head, tail,
                 prev, nextSeg, deleted, count, ops, key, ent, ver, seg, sid,
                 victim, scan, handle>>

(* while (usage_.load() >= capacity_) EvictOne();                          *)
EvictCheck(t) ==
  /\ pc[t] = "evict_check"
  /\ pc' = [pc EXCEPT ![t] = IF usage >= Capacity THEN "detach" ELSE "ins_done"]
  /\ UNCHANGED <<shardVars, ops, key, ent, ver, seg, sid, victim, scan, handle>>

(* The end of Insert: refs++ for the handle returned; the accessor goes    *)
(* out of scope.                                                           *)
InsertDone(t) ==
  LET e == ent[t] IN
  /\ Goto(t, "ins_done", "idle")
  /\ entry' = [entry EXCEPT ![e].refs = @ + 1]
  /\ handle' = [handle EXCEPT ![t] = e]
  /\ writer' = [writer EXCEPT ![key[t]] = NoThread]
  /\ UNCHANGED <<index, readers, nextEntry, slot, used, head, tail, prev, nextSeg,
                 deleted, count, usage, charged, ops, key, ent, ver, seg, sid,
                 victim, scan>>

-----------------------------------------------------------------------------
(* EvictOne.                                                               *)

(* SegmentList::Evict under tail_segment_mtx: when count > 20 the tail is  *)
(* detached (tail = victim->prev); otherwise nullptr, and EvictOne returns *)
(* to Insert's loop.                                                       *)
Detach(t) ==
  /\ pc[t] = "detach"
  /\ IF count > MinSegmentCount
     THEN /\ victim' = [victim EXCEPT ![t] = tail]
          /\ tail' = prev[tail]
          /\ pc' = [pc EXCEPT ![t] = "uncount"]
     ELSE /\ pc' = [pc EXCEPT ![t] = "evict_check"]
          /\ UNCHANGED <<victim, tail>>
  /\ UNCHANGED <<index, writer, readers, entry, nextEntry, slot, used, head, prev,
                 nextSeg, deleted, count, usage, charged, ops, key, ent, ver, seg,
                 sid, scan, handle>>

(* count-- after tail_segment_mtx is released.                             *)
Uncount(t) ==
  /\ Goto(t, "uncount", "scan")
  /\ count' = count - 1
  /\ scan' = [scan EXCEPT ![t] = 0]
  /\ UNCHANGED <<index, writer, readers, entry, nextEntry, slot, used, head, tail,
                 prev, nextSeg, deleted, usage, charged, ops, key, ent, ver, seg,
                 sid, victim, handle>>

(* One slot of the victim.  entry->version is read through the slot's      *)
(* pointer (a nullptr slot crashes the process); a slot whose version is   *)
(* not the entry's drops its reference; a current one goes for the key's   *)
(* accessor.  After the last slot the segment is deleted.                  *)
Scan(t) ==
  LET v  == victim[t]
      sl == slot[v][scan[t]]
      e  == sl.entry
  IN
  /\ pc[t] = "scan"
  /\ IF scan[t] = SlotsPerSegment
     THEN /\ deleted' = deleted \cup {v}
          /\ pc' = [pc EXCEPT ![t] = "evict_check"]
          /\ UNCHANGED <<entry, usage, scan>>
     ELSE /\ UNCHANGED deleted
          /\ CASE e = NoEntry ->
                    /\ pc' = [pc EXCEPT ![t] = "crashed"]
                    /\ UNCHANGED <<entry, usage, scan>>
               [] e /= NoEntry /\ entry[e].version /= sl.version ->
                    /\ Unref(e)
                    /\ scan' = [scan EXCEPT ![t] = @ + 1]
                    /\ UNCHANGED pc
               [] e /= NoEntry /\ entry[e].version = sl.version ->
                    /\ pc' = [pc EXCEPT ![t] = "evict_lock"]
                    /\ UNCHANGED <<entry, usage, scan>>
  /\ UNCHANGED <<index, writer, readers, nextEntry, slot, used, head, tail, prev,
                 nextSeg, count, charged, ops, key, ent, ver, seg, sid, victim,
                 handle>>

\* Mutant of EvictLock: the erase branch keeps its own refs-- (the lines
\* commented out in the code, without their `continue`), so the slot's
\* reference is dropped twice.
EvictLockUnrefTwice(t) ==
  LET sl == slot[victim[t]][scan[t]]
      e  == sl.entry
      k  == entry[e].key
      r  == entry[e].refs
      r2 == IF entry[e].version = sl.version THEN r - 2 ELSE r - 1
  IN
  /\ Goto(t, "evict_lock", "scan")
  /\ index[k] = NoEntry \/ Unlocked(k)
  /\ IF index[k] = NoEntry
     THEN UNCHANGED <<index, entry, usage>>
     ELSE /\ index' = IF entry[e].version = sl.version
                      THEN [index EXCEPT ![k] = NoEntry] ELSE index
          /\ entry' = [entry EXCEPT ![e].refs = r2,
                                    ![e].state = IF r2 <= 0 THEN "freed" ELSE @]
          /\ usage' = IF r2 <= 0 THEN usage - 1 ELSE usage
  /\ scan' = [scan EXCEPT ![t] = @ + 1]
  /\ UNCHANGED <<writer, readers, nextEntry, slot, used, head, tail, prev, nextSeg,
                 deleted, count, charged, ops, key, ent, ver, seg, sid, victim,
                 handle>>

(* hash_map_.find(accessor, entry->key()).  An absent key is logged as    *)
(* "Presumably unreachable" and the loop continues without dropping the    *)
(* slot's reference.  Otherwise, under the accessor, a version still equal *)
(* erases the key; then the slot's reference is dropped.                   *)
EvictLock(t) ==
  LET sl == slot[victim[t]][scan[t]]
      e  == sl.entry
      k  == entry[e].key
  IN
  /\ Goto(t, "evict_lock", "scan")
  /\ index[k] = NoEntry \/ Unlocked(k)
  /\ IF index[k] = NoEntry
     THEN UNCHANGED <<index, entry, usage>>
     ELSE /\ index' = IF entry[e].version = sl.version
                      THEN [index EXCEPT ![k] = NoEntry] ELSE index
          /\ Unref(e)
  /\ scan' = [scan EXCEPT ![t] = @ + 1]
  /\ UNCHANGED <<writer, readers, nextEntry, slot, used, head, tail, prev, nextSeg,
                 deleted, count, charged, ops, key, ent, ver, seg, sid, victim,
                 handle>>

-----------------------------------------------------------------------------
\* Every client has made all its calls and finished them, or the process
\* has crashed: nothing happens any more.
Finished ==
  /\ \/ \A t \in Threads : pc[t] = "idle" /\ ops[t] = OpBudget[t]
     \/ Crashed
  /\ UNCHANGED vars

ThreadStep(t) ==
  /\ ~Crashed
  /\ \/ StartOp(t) \/ Release(t) \/ Insert(t) \/ Lookup(t) \/ LookupRef(t)
     \/ Erase(t) \/ SegAppend(t) \/ Grow(t) \/ Publish(t) \/ Charge(t)
     \/ EvictCheck(t) \/ InsertDone(t) \/ Detach(t) \/ Uncount(t) \/ Scan(t)
     \/ EvictLock(t)

Next == (\E t \in Threads : ThreadStep(t)) \/ Finished

\* Client threads are OS threads, scheduled while they have a step to take.
Fairness == \A t \in Threads : WF_vars(ThreadStep(t) /\ pc[t] /= "idle")

Spec == Init /\ [][Next]_vars /\ Fairness

-----------------------------------------------------------------------------
(* Properties.                                                             *)

Allocated == {e \in EntryIds : entry[e].state /= "unallocated"}
Pending == {"append", "grow", "publish"}

TypeOK ==
  /\ index \in [Keys -> {NoEntry} \cup EntryIds]
  /\ writer \in [Keys -> Threads \cup {NoThread}]
  /\ readers \in [Keys -> SUBSET Threads]
  /\ \A e \in EntryIds :
       /\ entry[e].key \in Keys /\ entry[e].version \in Nat
       /\ entry[e].refs \in Nat /\ entry[e].belong \in {NoSeg} \cup SegIds
       /\ entry[e].state \in {"unallocated", "live", "freed"}
  /\ slot \in [SegIds -> [SlotIdx -> [entry : {NoEntry} \cup EntryIds, version : Nat]]]
  /\ used \in [SegIds -> Nat]
  /\ {head, tail} \subseteq {NoSeg} \cup SegIds
  /\ prev \in [SegIds -> {NoSeg} \cup SegIds]
  /\ deleted \subseteq SegIds /\ charged \subseteq EntryIds
  /\ count \in Int /\ usage \in Nat
  /\ pc \in [Threads -> {"idle", "insert", "lookup", "erase", "append", "grow",
                          "publish", "lk_ref", "charge", "evict_check",
                          "ins_done", "detach", "uncount", "scan", "evict_lock",
                          "crashed"}]
  /\ handle \in [Threads -> {NoEntry} \cup EntryIds]
  /\ scan \in [Threads -> 0 .. SlotsPerSegment]

\* A slot of a detached segment that EvictOne has already passed.
Dropped(s, i) ==
  \E t \in Threads : pc[t] \in {"scan", "evict_lock"} /\ victim[t] = s /\ i < scan[t]

\* The references to entry e that exist: its slots not yet passed by an
\* EvictOne, a slot claimed for it and not yet written, and the handles out.
LiveSlots(e) ==
  {<<s, i>> \in (SegIds \ deleted) \X SlotIdx :
      slot[s][i].entry = e /\ ~Dropped(s, i)}
PendingFor(e) == {t \in Threads : pc[t] \in Pending /\ ent[t] = e}
HandlesOf(e) == {t \in Threads : handle[t] = e}
Holders(e) ==
  Cardinality(LiveSlots(e)) + Cardinality(PendingFor(e)) + Cardinality(HandlesOf(e))

(* EntryHandle::refs is exact: it counts the entry's slots, its pending    *)
(* append and the handles the clients hold, and the entry is freed exactly *)
(* when it drops to 0.  Insert's refs = 1 and refs++, Lookup's two refs++, *)
(* Release and EvictOne's refs-- per slot must agree, and EvictOne must    *)
(* never skip a slot's reference; otherwise FreeEntry frees an entry a     *)
(* slot or a client still points to, or never frees it.                    *)
RefCountExact ==
  \A e \in Allocated :
     /\ entry[e].refs = Holders(e)
     /\ entry[e].state = "freed" <=> entry[e].refs = 0

(* usage_ counts the charged entries that are not freed: Insert's          *)
(* fetch_add and FreeEntry's fetch_sub pair up.                            *)
UsageCountsEntries ==
  usage = Cardinality({e \in charged : entry[e].state = "live"})

(* Every indexed entry with no Add in flight has exactly one slot with its *)
(* current version, so the map never points to a freed entry: EvictOne     *)
(* erases a key only at that slot, and Lookup's version++ is followed by   *)
(* an Add of that version.                                                 *)
IndexedEntryHasCurrentSlot ==
  \A k \in Keys :
     LET e == index[k] IN
     e /= NoEntry /\ PendingFor(e) = {} =>
        /\ entry[e].state = "live"
        /\ Cardinality({p \in LiveSlots(e) : slot[p[1]][p[2]].version = entry[e].version}) = 1


=============================================================================
