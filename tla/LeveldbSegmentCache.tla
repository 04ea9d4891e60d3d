------------------------ MODULE LeveldbSegmentCache ------------------------
(***************************************************************************)
(* One SegmentCache shard of the LevelDB port of the segment policy,       *)
(* src/end-to-end/leveldb-1.23/util/segment_cache.cc, run by several      *)
(* client threads.                                                         *)
(*                                                                         *)
(* Its Insert, Release, Erase, SegmentList::Add, FreeEntry and EvictOne's  *)
(* find-and-erase are the RocksDB port's line for line, and are taken from *)
(* SegmentCacheShard through the instance Port.  It differs in three       *)
(* places, defined here:                                                   *)
(*   - Lookup promotes whenever belong is not the head (no count < 512);   *)
(*   - SegmentList::Evict has no count floor: it always detaches the tail, *)
(*     sets tail_segment = victim->prev, nullptr for the last segment, and *)
(*     reads victim->prev through a null tail;                             *)
(*   - EvictOne never deletes the segment it scanned.                      *)
(* The shard starts as the constructors leave it: one empty segment,       *)
(* count = 0, usage_ = 0.                                                  *)
(***************************************************************************)
EXTENDS Integers, Sequences, FiniteSets

CONSTANTS
  Threads,          \* client threads
  Keys,             \* keys of the shard (naturals)
  ClientKeys,       \* keys the clients use
  NoThread,         \* "no accessor holder"
  SlotsPerSegment,  \* kNumSlotsPerSegment
  Capacity,         \* capacity_ (SetCapacity), in entries of charge 1
  Requests,         \* the calls the clients make
  OpBudget          \* [Threads -> Nat]: calls each client makes

VARIABLES
  index, writer, readers, entry, nextEntry, slot, used, head, tail, prev,
  nextSeg, deleted, count, usage, charged,
  pc, ops, key, ent, ver, seg, sid, victim, scan, handle

\* The LevelDB port has no floor; the warm prefix is empty.
Port == INSTANCE SegmentCacheShard WITH MinSegmentCount <- 0, WarmSlots <- <<>>

vars == Port!vars
NoEntry == Port!NoEntry
NoSeg == Port!NoSeg

(* SegmentList(): one new Segment, head = tail, count 0; SegmentCache():   *)
(* an empty hash_map_ and usage_ = 0.                                      *)
Init == Port!Init

\* The handlers the LevelDB port shares with the RocksDB port.
Insert(t) == Port!Insert(t)
Release(t) == Port!Release(t)
Erase(t) == Port!Erase(t)
LookupRef(t) == Port!LookupRef(t)
SegAppend(t) == Port!SegAppend(t)
Grow(t) == Port!Grow(t)
Publish(t) == Port!Publish(t)
Charge(t) == Port!Charge(t)
EvictCheck(t) == Port!EvictCheck(t)
InsertDone(t) == Port!InsertDone(t)
Uncount(t) == Port!Uncount(t)
EvictLock(t) == Port!EvictLock(t)

(* Lookup: find under a const_accessor; if the entry's belong is not the   *)
(* head, refs++ for a new slot, version++ and Add(e, old_version + 1)      *)
(* under the const_accessor; then refs++ for the handle returned.          *)
Lookup(t) ==
  LET k == key[t]
      e == index[k]
  IN
  /\ pc[t] = "lookup"
  /\ \/ /\ e = NoEntry
        /\ pc' = [pc EXCEPT ![t] = "idle"]
        /\ UNCHANGED <<entry, readers, ent, ver, handle>>
     \/ /\ e /= NoEntry /\ writer[k] = NoThread
        /\ entry[e].belong = head
        /\ entry' = [entry EXCEPT ![e].refs = @ + 1]
        /\ handle' = [handle EXCEPT ![t] = e]
        /\ pc' = [pc EXCEPT ![t] = "idle"]
        /\ UNCHANGED <<readers, ent, ver>>
     \/ /\ e /= NoEntry /\ writer[k] = NoThread
        /\ entry[e].belong /= head
        /\ readers' = [readers EXCEPT ![k] = @ \cup {t}]
        /\ entry' = [entry EXCEPT ![e].refs = @ + 1, ![e].version = @ + 1]
        /\ ent' = [ent EXCEPT ![t] = e]
        /\ ver' = [ver EXCEPT ![t] = entry[e].version + 1]
        /\ pc' = [pc EXCEPT ![t] = "append"]
        /\ UNCHANGED handle
  /\ UNCHANGED <<index, writer, nextEntry, slot, used, head, tail, prev, nextSeg,
                 deleted, count, usage, charged, ops, key, seg, sid, victim, scan>>

(* SegmentList::Evict under tail_segment_mtx: the tail is the victim and   *)
(* its prev the new tail, whatever count is.  Once the last segment is     *)
(* gone the tail is nullptr, and victim->prev crashes the process.         *)
Detach(t) ==
  /\ pc[t] = "detach"
  /\ \/ /\ tail = NoSeg
        /\ pc' = [pc EXCEPT ![t] = "crashed"]
        /\ UNCHANGED <<victim, tail>>
     \/ /\ tail /= NoSeg
        /\ victim' = [victim EXCEPT ![t] = tail]
        /\ tail' = prev[tail]
        /\ pc' = [pc EXCEPT ![t] = "uncount"]
  /\ UNCHANGED <<index, writer, readers, entry, nextEntry, slot, used, head, prev,
                 nextSeg, deleted, count, usage, charged, ops, key, ent, ver, seg,
                 sid, scan, handle>>

(* One slot of EvictOne's loop.  entry->version is read through the slot's *)
(* pointer (a nullptr slot, one the head has not filled yet, crashes the   *)
(* process); a stale slot drops its reference; a current one goes for the  *)
(* key's accessor.  After the last slot EvictOne returns; the segment is   *)
(* not deleted.                                                            *)
Scan(t) ==
  LET sl == slot[victim[t]][scan[t]]
      e  == sl.entry
  IN
  /\ pc[t] = "scan"
  /\ CASE scan[t] = SlotsPerSegment ->
            /\ pc' = [pc EXCEPT ![t] = "evict_check"]
            /\ UNCHANGED <<entry, usage, scan>>
       [] scan[t] < SlotsPerSegment /\ e = NoEntry ->
            /\ pc' = [pc EXCEPT ![t] = "crashed"]
            /\ UNCHANGED <<entry, usage, scan>>
       [] scan[t] < SlotsPerSegment /\ e /= NoEntry /\ entry[e].version /= sl.version ->
            /\ Port!Unref(e)
            /\ scan' = [scan EXCEPT ![t] = @ + 1]
            /\ UNCHANGED pc
       [] scan[t] < SlotsPerSegment /\ e /= NoEntry /\ entry[e].version = sl.version ->
            /\ pc' = [pc EXCEPT ![t] = "evict_lock"]
            /\ UNCHANGED <<entry, usage, scan>>
  /\ UNCHANGED <<index, writer, readers, nextEntry, slot, used, head, tail, prev,
                 nextSeg, deleted, count, charged, ops, key, ent, ver, seg, sid,
                 victim, handle>>

ThreadStep(t) ==
  /\ ~Port!Crashed
  /\ \/ Port!StartOp(t) \/ Release(t) \/ Insert(t) \/ Lookup(t) \/ LookupRef(t)
     \/ Erase(t) \/ SegAppend(t) \/ Grow(t) \/ Publish(t) \/ Charge(t)
     \/ EvictCheck(t) \/ InsertDone(t) \/ Detach(t) \/ Uncount(t) \/ Scan(t)
     \/ EvictLock(t)

Next == (\E t \in Threads : ThreadStep(t)) \/ Port!Finished

\* Client threads are OS threads, scheduled while they have a step to take.
Fairness == \A t \in Threads : WF_vars(ThreadStep(t) /\ pc[t] /= "idle")

Spec == Init /\ [][Next]_vars /\ Fairness

-----------------------------------------------------------------------------
(* Properties.                                                             *)

\* The key of the slot an evictor has reached.
EvictKey(t) == entry[slot[victim[t]][scan[t]].entry].key

(* EvictOne, called from Insert's `while (usage_ >= capacity_)` loop,      *)
(* never waits for the accessor of a key whose accessor that same Insert  *)
(* holds.  spec.md has Evict detach a segment only while count > K, which *)
(* keeps the inserter's own slot, in the head, out of every scanned        *)
(* segment; without the floor the wait never ends.                         *)
NoSelfWait ==
  \A t \in Threads : pc[t] = "evict_lock" => writer[EvictKey(t)] /= t

=============================================================================
