------------------------ MODULE RocksdbSegmentCache ------------------------
(***************************************************************************)
(* One SegmentCacheShard of the RocksDB 8.10.2 port of the segment policy, *)
(* src/end-to-end/rocksdb-8.10.2/cache/segment_cache.cc: the port the YCSB *)
(* RocksDB binding builds (SegmentCacheOptions::MakeSharedCache, with      *)
(* num_shard_bits = 0, so one shard holds the whole capacity).            *)
(*                                                                         *)
(* Its handlers are the 7.10.2 port's line for line; it drops the wait     *)
(* argument of Lookup, replaces the secondary cache by an eviction         *)
(* callback it never calls, and adds stubs (CreateStandalone, Ref,         *)
(* ApplyToSomeEntries, EraseUnRefEntries) that change no state.  Its      *)
(* cache/segment_cache.h, with Segment and SegmentList, is not in the     *)
(* repository; the model takes 7.10.2's.  Each handler is therefore       *)
(* SegmentCacheShard's,                                                    *)
(* taken through the instance Shard and named after its 8.10.2 lines.     *)
(***************************************************************************)
EXTENDS Integers

CONSTANTS
  Threads, Keys, ClientKeys, NoThread, SlotsPerSegment, Capacity,
  MinSegmentCount, Requests, OpBudget, WarmSlots

VARIABLES
  index, writer, readers, entry, nextEntry, slot, used, head, tail, prev,
  nextSeg, deleted, count, usage, charged,
  pc, ops, key, ent, ver, seg, sid, victim, scan, handle

Shard == INSTANCE SegmentCacheShard

vars == Shard!vars

(* SegmentCacheShard(...): capacity_ through SetCapacity, usage_ = 0, and  *)
(* the member SegmentList with its first segment.                         *)
Init == Shard!Init

\* DelegateClient: num_ops calls of the client, one after the other.
StartOp(t) == Shard!StartOp(t)

Insert(t) == Shard!Insert(t)
Charge(t) == Shard!Charge(t)
EvictCheck(t) == Shard!EvictCheck(t)
InsertDone(t) == Shard!InsertDone(t)
Lookup(t) == Shard!Lookup(t)
LookupRef(t) == Shard!LookupRef(t)
Erase(t) == Shard!Erase(t)
Release(t) == Shard!Release(t)
Scan(t) == Shard!Scan(t)
EvictLock(t) == Shard!EvictLock(t)

\* FreeEntry: version = 0 and usage_ -= total_charge, as a reference drops.
Unref(e) == Shard!Unref(e)

ThreadStep(t) ==
  /\ ~Shard!Crashed
  /\ \/ StartOp(t) \/ Release(t) \/ Insert(t) \/ Lookup(t) \/ LookupRef(t)
     \/ Erase(t) \/ Shard!SegAppend(t) \/ Shard!Grow(t) \/ Shard!Publish(t)
     \/ Charge(t) \/ EvictCheck(t) \/ InsertDone(t) \/ Shard!Detach(t)
     \/ Shard!Uncount(t) \/ Scan(t) \/ EvictLock(t)

Next == (\E t \in Threads : ThreadStep(t)) \/ Shard!Finished

\* Client threads are OS threads, scheduled while they have a step to take.
Fairness == \A t \in Threads : WF_vars(ThreadStep(t) /\ pc[t] /= "idle")

Spec == Init /\ [][Next]_vars /\ Fairness

-----------------------------------------------------------------------------
(* Properties, stated on SegmentCacheShard and checked here on the 8.10.2  *)
(* shard.                                                                  *)

\* Every variable holds a value of its type.
TypeOK == Shard!TypeOK

(* EntryHandle::refs counts the entry's slots not yet passed by an        *)
(* EvictOne, its claimed and unwritten slot and the handles out, and the  *)
(* entry is freed exactly when it drops to 0: Insert, Lookup, Release and *)
(* EvictOne's per-slot refs-- never lose or double a reference.           *)
RefCountExact == Shard!RefCountExact

(* usage_ is the charge of the entries FreeEntry has not freed: the        *)
(* fetch_add of Insert and the fetch_sub of FreeEntry stay in step.        *)
UsageCountsEntries == Shard!UsageCountsEntries

(* Every key in hash_map_ has a slot whose version is its entry's version, *)
(* in a segment SegmentList::Evict has not detached, once the Add of the   *)
(* Insert or Lookup that gave it that version has returned.                *)
IndexedEntryHasCurrentSlot == Shard!IndexedEntryHasCurrentSlot

=============================================================================
