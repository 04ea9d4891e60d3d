---------------------------- MODULE SegmentCache ----------------------------
(***************************************************************************)
(* One shard of the segment policy, SegmentCache<Key,Value> of            *)
(* src/cache/segment_cache.h, run by several client threads.              *)
(*                                                                         *)
(* State of the shard: the TBB hash map hash_map_ (key -> Entry pointer), with*)
(* per-key accessor locks, the entries (version, refs, belong), the       *)
(* segments (slot_array, used) and the SegmentList (head ... tail, count), *)
(* and usage_.  Each thread runs Insert, Lookup and Erase; a step of a     *)
(* thread is one atomic access to shared state, or a short critical       *)
(* section that nothing else can observe half done.                        *)
(***************************************************************************)
EXTENDS Integers, Sequences, FiniteSets, SequencesExt

CONSTANTS
  Threads,          \* client threads
  Keys,             \* keys the clients use
  NoThread,         \* "no accessor holder"
  SlotsPerSegment,  \* kNumSlotsPerSegment
  Capacity,         \* capacity_
  MinSegmentCount,  \* the literal 4 of SegmentList::Evict (count > 4)
  OpBudget,         \* [Threads -> Nat]: requests each client thread issues
  WarmEntries       \* <<[key, indexed], ...>>: the inserts (and erases) done
                    \* one after the other before the clients start

ASSUME SlotsPerSegment \in Nat \ {0}
ASSUME Capacity \in Nat /\ MinSegmentCount \in Nat
ASSUME OpBudget \in [Threads -> Nat]
ASSUME NoThread \notin Threads
\* A key is indexed by at most its last warm entry (earlier ones were erased).
ASSUME \A i, j \in DOMAIN WarmEntries :
         i < j /\ WarmEntries[i].key = WarmEntries[j].key => ~WarmEntries[i].indexed

NoEntry == 0
NWarm == Len(WarmEntries)
TotalOps == LET RECURSIVE SumOver(_)
                SumOver(S) == IF S = {} THEN 0
                              ELSE LET t == CHOOSE x \in S : TRUE
                                   IN OpBudget[t] + SumOver(S \ {t})
            IN SumOver(Threads)
\* Every operation allocates at most one entry and appends at most one slot.
EntryIds == 1 .. (NWarm + TotalOps)
WarmSegments == IF NWarm = 0 THEN 1 ELSE (NWarm - 1) \div SlotsPerSegment + 1
SegIds == 1 .. (WarmSegments + TotalOps)
SlotIdx == 0 .. (SlotsPerSegment - 1)

NoSlot == [entry |-> NoEntry, version |-> 0]

VARIABLES
  index,      \* hash_map_: key -> Entry* (NoEntry when absent)
  writer,     \* key -> thread holding an accessor (write lock) on it
  readers,    \* key -> threads holding a const_accessor on it
  entry,      \* Entry: [key, version, refs, belong, state]
  nextEntry,  \* number of entries allocated so far
  slot,       \* Segment::slot_array
  used,       \* Segment::used
  log,        \* SegmentList, head first: head_segment = log[1], tail_segment = Last(log)
  nextSeg,    \* number of segments allocated so far
  deleted,    \* segments that were deleted
  count,      \* SegmentList::count
  usage,      \* usage_
  charged,    \* entries whose charge Insert has added to usage_ (history)
  pc, ops, key, ent, ver, seg, sid, victim, scan   \* per-thread locals

shardVars == <<index, writer, readers, entry, nextEntry, slot, used, log,
               nextSeg, deleted, count, usage, charged>>
threadVars == <<pc, ops, key, ent, ver, seg, sid, victim, scan>>
vars == <<shardVars, threadVars>>

-----------------------------------------------------------------------------
(* The state reached by inserting WarmEntries one at a time, erasing the   *)
(* ones not indexed: entry i sits in slot (i-1) % S of segment             *)
(* (i-1) \div S + 1, and its belong is the head loaded before its Add.     *)
WarmSeg(i) == (i - 1) \div SlotsPerSegment + 1

InitEntry(e) ==
  IF e <= NWarm
  THEN [key |-> WarmEntries[e].key, version |-> 1,
        refs |-> IF WarmEntries[e].indexed THEN 2 ELSE 1,
        belong |-> IF e = 1 THEN 1 ELSE WarmSeg(e - 1), state |-> "live"]
  ELSE [key |-> CHOOSE k \in Keys : TRUE, version |-> 0, refs |-> 0,
        belong |-> 0, state |-> "unallocated"]

Init ==
  /\ index = [k \in Keys |->
               IF \E i \in 1..NWarm : WarmEntries[i].key = k /\ WarmEntries[i].indexed
               THEN CHOOSE i \in 1..NWarm : WarmEntries[i].key = k /\ WarmEntries[i].indexed
               ELSE NoEntry]
  /\ writer = [k \in Keys |-> NoThread]
  /\ readers = [k \in Keys |-> {}]
  /\ entry = [e \in EntryIds |-> InitEntry(e)]
  /\ nextEntry = NWarm
  /\ slot = [s \in SegIds |-> [i \in SlotIdx |->
               LET e == (s - 1) * SlotsPerSegment + i + 1
               IN IF s <= WarmSegments /\ e <= NWarm
                  THEN [entry |-> e, version |-> 1] ELSE NoSlot]]
  /\ used = [s \in SegIds |->
               IF s < WarmSegments THEN SlotsPerSegment
               ELSE IF s = WarmSegments THEN NWarm - (WarmSegments - 1) * SlotsPerSegment
               ELSE 0]
  /\ log = [i \in 1..WarmSegments |-> WarmSegments + 1 - i]
  /\ nextSeg = WarmSegments
  /\ deleted = {}
  /\ count = WarmSegments - 1
  /\ usage = NWarm
  /\ charged = 1..NWarm
  /\ pc = [t \in Threads |-> "idle"]
  /\ ops = [t \in Threads |-> 0]
  /\ key = [t \in Threads |-> CHOOSE k \in Keys : TRUE]
  /\ ent = [t \in Threads |-> NoEntry]
  /\ ver = [t \in Threads |-> 0]
  /\ seg = [t \in Threads |-> 0]
  /\ sid = [t \in Threads |-> 0]
  /\ victim = [t \in Threads |-> 0]
  /\ scan = [t \in Threads |-> 0]

-----------------------------------------------------------------------------
(* Helpers.                                                                *)

Goto(t, from, to) == pc[t] = from /\ pc' = [pc EXCEPT ![t] = to]

Unlocked(k) == writer[k] = NoThread /\ readers[k] = {}

\* Mutant of Unref: the entry is deleted without usage_.fetch_sub.
UnrefNoCharge(e, plain) ==
  LET r == entry[e].refs - plain IN
  /\ entry' = [entry EXCEPT ![e].refs = r - 1,
                            ![e].state = IF r = 1 THEN "freed" ELSE @]
  /\ usage' = usage

\* refs-- done `plain` times without a check, then TryFreeEntry: the entry is
\* deleted and usage_ gives back its charge when TryFreeEntry drops the last
\* reference (old_ref == 1).
Unref(e, plain) ==
  LET r == entry[e].refs - plain IN
  /\ entry' = [entry EXCEPT ![e].refs = r - 1,
                            ![e].state = IF r = 1 THEN "freed" ELSE @]
  /\ usage' = IF r = 1 THEN usage - 1 ELSE usage

TryFreeEntry(e) == Unref(e, 0)

-----------------------------------------------------------------------------
(* A client thread picks its next request.                                 *)
StartOp(t) ==
  /\ pc[t] = "idle"
  /\ ops[t] < OpBudget[t]
  /\ \E o \in {"insert", "lookup", "erase"}, k \in Keys :
       /\ pc' = [pc EXCEPT ![t] = o]
       /\ key' = [key EXCEPT ![t] = k]
  /\ ops' = [ops EXCEPT ![t] = @ + 1]
  /\ UNCHANGED <<shardVars, ent, ver, seg, sid, victim, scan>>

(* Insert, up to hash_map_.insert: a new entry with version 1, belong =    *)
(* the head it loaded, refs 1 for the map and ++ for its slot.  If the key *)
(* is present its accessor is taken, the value updated and false returned. *)
Insert(t) ==
  LET k == key[t]
      e == nextEntry + 1
  IN
  /\ pc[t] = "insert"
  /\ \/ /\ index[k] = NoEntry
        /\ entry' = [entry EXCEPT ![e] = [key |-> k, version |-> 1, refs |-> 2,
                                          belong |-> Head(log), state |-> "live"]]
        /\ index' = [index EXCEPT ![k] = e]
        /\ writer' = [writer EXCEPT ![k] = t]
        /\ nextEntry' = e
        /\ ent' = [ent EXCEPT ![t] = e]
        /\ ver' = [ver EXCEPT ![t] = 1]
        /\ pc' = [pc EXCEPT ![t] = "append"]
     \/ /\ index[k] /= NoEntry
        /\ Unlocked(k)
        /\ pc' = [pc EXCEPT ![t] = "idle"]
        /\ UNCHANGED <<entry, index, writer, nextEntry, ent, ver>>
  /\ UNCHANGED <<readers, slot, used, log, nextSeg, deleted, count, usage,
                 charged, ops, key, seg, sid, victim, scan>>

\* Mutants of Promote: the slot's reference is not taken; the slot is added
\* with the old version (entry->version++ read after the increment).
PromoteNoRef(t, e) ==
  /\ entry' = [entry EXCEPT ![e].version = @ + 1]
  /\ ent' = [ent EXCEPT ![t] = e]
  /\ ver' = [ver EXCEPT ![t] = entry[e].version + 1]
PromoteOldVersion(t, e) ==
  /\ entry' = [entry EXCEPT ![e].refs = @ + 1, ![e].version = @ + 1]
  /\ ent' = [ent EXCEPT ![t] = e]
  /\ ver' = [ver EXCEPT ![t] = entry[e].version]

(* refs++ for the new slot, old_version = version++, and Add is called     *)
(* with old_version + 1.                                                   *)
Promote(t, e) ==
  /\ entry' = [entry EXCEPT ![e].refs = @ + 1, ![e].version = @ + 1]
  /\ ent' = [ent EXCEPT ![t] = e]
  /\ ver' = [ver EXCEPT ![t] = entry[e].version + 1]

(* Lookup: find under a const_accessor; when the entry's belong is not the *)
(* current head, refs++ and version++ and a slot with the new version is   *)
(* appended while the const_accessor is held.                              *)
Lookup(t) ==
  LET k == key[t]
      e == index[k]
  IN
  /\ pc[t] = "lookup"
  /\ \/ /\ e = NoEntry
        /\ pc' = [pc EXCEPT ![t] = "idle"]
        /\ UNCHANGED <<entry, readers, ent, ver>>
     \/ /\ e /= NoEntry
        /\ writer[k] = NoThread
        /\ entry[e].belong = Head(log)
        /\ pc' = [pc EXCEPT ![t] = "idle"]
        /\ UNCHANGED <<entry, readers, ent, ver>>
     \/ /\ e /= NoEntry
        /\ writer[k] = NoThread
        /\ entry[e].belong /= Head(log)
        /\ readers' = [readers EXCEPT ![k] = @ \cup {t}]
        /\ Promote(t, e)
        /\ pc' = [pc EXCEPT ![t] = "append"]
  /\ UNCHANGED <<index, writer, nextEntry, slot, used, log, nextSeg, deleted,
                 count, usage, charged, ops, key, seg, sid, victim, scan>>

(* Erase: find under an accessor, TryFreeEntry for the map's reference,    *)
(* erase.                                                                  *)
Erase(t) ==
  LET k == key[t]
      e == index[k]
  IN
  /\ Goto(t, "erase", "idle")
  /\ \/ /\ e = NoEntry
        /\ UNCHANGED <<entry, usage, index>>
     \/ /\ e /= NoEntry
        /\ Unlocked(k)
        /\ TryFreeEntry(e)
        /\ index' = [index EXCEPT ![k] = NoEntry]
  /\ UNCHANGED <<writer, readers, nextEntry, slot, used, log, nextSeg, deleted,
                 count, charged, ops, key, ent, ver, seg, sid, victim, scan>>

-----------------------------------------------------------------------------
(* SegmentList::Add(entry, version), shared by Insert and Lookup.          *)

(* Segment::Append on the loaded head: fetch_add on used; a slot id below  *)
(* S is claimed, otherwise Add goes for the head mutex.                    *)
SegAppend(t) ==
  LET s == Head(log) IN
  /\ pc[t] = "append"
  /\ used' = [used EXCEPT ![s] = @ + 1]
  /\ IF used[s] < SlotsPerSegment
     THEN /\ seg' = [seg EXCEPT ![t] = s]
          /\ sid' = [sid EXCEPT ![t] = used[s]]
          /\ pc' = [pc EXCEPT ![t] = "publish"]
     ELSE /\ pc' = [pc EXCEPT ![t] = "grow"]
          /\ UNCHANGED <<seg, sid>>
  /\ UNCHANGED <<index, writer, readers, entry, nextEntry, slot, log, nextSeg,
                 deleted, count, usage, charged, ops, key, ent, ver, victim, scan>>

(* Under head_segment_mtx: if the head is still full, a new segment is     *)
(* spliced in front of it and count++; then Add retries the append.  The   *)
(* mutex is held only inside this step.                                    *)
Grow(t) ==
  LET n == nextSeg + 1 IN
  /\ Goto(t, "grow", "append")
  /\ IF used[Head(log)] >= SlotsPerSegment
     THEN /\ log' = <<n>> \o log
          /\ nextSeg' = n
          /\ count' = count + 1
     ELSE UNCHANGED <<log, nextSeg, count>>
  /\ UNCHANGED <<index, writer, readers, entry, nextEntry, slot, used, deleted,
                 usage, charged, ops, key, ent, ver, seg, sid, victim, scan>>

(* The claimed slot gets (entry, version).  Lookup then returns and its    *)
(* const_accessor is released; Insert goes on to charge usage_.           *)
Publish(t) ==
  LET k == entry[ent[t]].key IN
  /\ pc[t] = "publish"
  /\ slot' = [slot EXCEPT ![seg[t]][sid[t]] = [entry |-> ent[t], version |-> ver[t]]]
  /\ IF writer[k] = t
     THEN /\ pc' = [pc EXCEPT ![t] = "charge"]
          /\ UNCHANGED readers
     ELSE /\ pc' = [pc EXCEPT ![t] = "idle"]
          /\ readers' = [readers EXCEPT ![k] = @ \ {t}]
  /\ UNCHANGED <<index, writer, entry, nextEntry, used, log, nextSeg, deleted,
                 count, usage, charged, ops, key, ent, ver, seg, sid, victim, scan>>

(* Insert after Add: usage_.fetch_add(charge), accessor.release().         *)
Charge(t) ==
  /\ Goto(t, "charge", "evict_check")
  /\ usage' = usage + 1
  /\ charged' = charged \cup {ent[t]}
  /\ writer' = [writer EXCEPT ![key[t]] = NoThread]
  /\ UNCHANGED <<index, readers, entry, nextEntry, slot, used, log, nextSeg,
                 deleted, count, ops, key, ent, ver, seg, sid, victim, scan>>

(* while (usage_.load() > capacity_) EvictOne();                           *)
EvictCheck(t) ==
  /\ pc[t] = "evict_check"
  /\ pc' = [pc EXCEPT ![t] = IF usage > Capacity THEN "detach" ELSE "idle"]
  /\ UNCHANGED <<shardVars, ops, key, ent, ver, seg, sid, victim, scan>>

-----------------------------------------------------------------------------
(* EvictOne.                                                               *)

\* Mutant of Detach: the floor is off by one (count > 5).
DetachFloorOffByOne(t) ==
  /\ pc[t] = "detach"
  /\ IF count > MinSegmentCount + 1
     THEN /\ victim' = [victim EXCEPT ![t] = Last(log)]
          /\ log' = Front(log)
          /\ pc' = [pc EXCEPT ![t] = "uncount"]
     ELSE /\ pc' = [pc EXCEPT ![t] = "evict_check"]
          /\ UNCHANGED <<victim, log>>
  /\ UNCHANGED <<index, writer, readers, entry, nextEntry, slot, used, nextSeg,
                 deleted, count, usage, charged, ops, key, ent, ver, seg, sid, scan>>

(* SegmentList::Evict under tail_segment_mtx: when count > 4 the tail is   *)
(* detached; otherwise nullptr and EvictOne returns to Insert's loop.      *)
Detach(t) ==
  /\ pc[t] = "detach"
  /\ IF count > MinSegmentCount
     THEN /\ victim' = [victim EXCEPT ![t] = Last(log)]
          /\ log' = Front(log)
          /\ pc' = [pc EXCEPT ![t] = "uncount"]
     ELSE /\ pc' = [pc EXCEPT ![t] = "evict_check"]
          /\ UNCHANGED <<victim, log>>
  /\ UNCHANGED <<index, writer, readers, entry, nextEntry, slot, used, nextSeg,
                 deleted, count, usage, charged, ops, key, ent, ver, seg, sid, scan>>

(* count-- after tail_segment_mtx is released.                             *)
Uncount(t) ==
  /\ Goto(t, "uncount", "scan")
  /\ count' = count - 1
  /\ scan' = [scan EXCEPT ![t] = 0]
  /\ UNCHANGED <<index, writer, readers, entry, nextEntry, slot, used, log,
                 nextSeg, deleted, usage, charged, ops, key, ent, ver, seg, sid, victim>>

(* One slot of the victim: a stale slot (entry version differs) drops its  *)
(* reference; a live one goes for the key's accessor.  After the last slot *)
(* the segment is deleted.  A slot whose entry is nullptr is dereferenced  *)
(* by the code (entry->refs); this step is not taken for it.               *)
Scan(t) ==
  LET v  == victim[t]
      sl == slot[v][scan[t]]
      e  == sl.entry
  IN
  /\ pc[t] = "scan"
  /\ IF scan[t] = SlotsPerSegment
     THEN /\ deleted' = deleted \cup {v}
          /\ pc' = [pc EXCEPT ![t] = "evict_check"]
          /\ UNCHANGED <<entry, usage, scan>>
     ELSE /\ e /= NoEntry
          /\ IF entry[e].version /= sl.version
             THEN /\ TryFreeEntry(e)
                  /\ scan' = [scan EXCEPT ![t] = @ + 1]
                  /\ UNCHANGED pc
             ELSE /\ pc' = [pc EXCEPT ![t] = "evict_lock"]
                  /\ UNCHANGED <<entry, usage, scan>>
          /\ UNCHANGED deleted
  /\ UNCHANGED <<index, writer, readers, nextEntry, slot, used, log, nextSeg,
                 count, charged, ops, key, ent, ver, seg, sid, victim>>

\* Mutant of EvictLock: the `accessor->second != entry` test is missing, so
\* the map's reference is dropped for an entry the map no longer holds.
EvictLockNoOwnerCheck(t) ==
  LET sl == slot[victim[t]][scan[t]]
      e  == sl.entry
      k  == entry[e].key
  IN
  /\ Goto(t, "evict_lock", "scan")
  /\ index[k] = NoEntry \/ Unlocked(k)
  /\ IF entry[e].version = sl.version
     THEN /\ Unref(e, 1)
          /\ index' = [index EXCEPT ![k] = NoEntry]
     ELSE /\ TryFreeEntry(e)
          /\ UNCHANGED index
  /\ scan' = [scan EXCEPT ![t] = @ + 1]
  /\ UNCHANGED <<writer, readers, nextEntry, slot, used, log, nextSeg, deleted,
                 count, charged, ops, key, ent, ver, seg, sid, victim>>

(* hash_map_.find(accessor, entry->key) for a live slot.  If the key is    *)
(* gone or maps to another entry the slot's reference is dropped.          *)
(* Otherwise, under the accessor, the version is checked again: still      *)
(* equal, the map's reference is dropped (refs--) and the key erased; then *)
(* TryFreeEntry drops the slot's reference.                                *)
EvictLock(t) ==
  LET sl == slot[victim[t]][scan[t]]
      e  == sl.entry
      k  == entry[e].key
  IN
  /\ Goto(t, "evict_lock", "scan")
  /\ index[k] = NoEntry \/ Unlocked(k)
  /\ IF index[k] = e /\ entry[e].version = sl.version
     THEN /\ Unref(e, 1)
          /\ index' = [index EXCEPT ![k] = NoEntry]
     ELSE /\ TryFreeEntry(e)
          /\ UNCHANGED index
  /\ scan' = [scan EXCEPT ![t] = @ + 1]
  /\ UNCHANGED <<writer, readers, nextEntry, slot, used, log, nextSeg, deleted,
                 count, charged, ops, key, ent, ver, seg, sid, victim>>

-----------------------------------------------------------------------------
(* Every client has issued all its requests and finished them.             *)
Finished ==
  /\ \A t \in Threads : pc[t] = "idle" /\ ops[t] = OpBudget[t]
  /\ UNCHANGED vars

ThreadStep(t) ==
  \/ StartOp(t) \/ Insert(t) \/ Lookup(t) \/ Erase(t)
  \/ SegAppend(t) \/ Grow(t) \/ Publish(t) \/ Charge(t) \/ EvictCheck(t)
  \/ Detach(t) \/ Uncount(t) \/ Scan(t) \/ EvictLock(t)

Next == (\E t \in Threads : ThreadStep(t)) \/ Finished

\* Client threads are OS threads: each keeps being scheduled while it can
\* take a step.
Fairness == \A t \in Threads : WF_vars(ThreadStep(t) /\ pc[t] /= "idle")

Spec == Init /\ [][Next]_vars /\ Fairness

-----------------------------------------------------------------------------
(* Properties.                                                             *)

Allocated == 1 .. nextEntry
Pending == {"append", "grow", "publish"}

TypeOK ==
  /\ index \in [Keys -> {NoEntry} \cup EntryIds]
  /\ writer \in [Keys -> Threads \cup {NoThread}]
  /\ readers \in [Keys -> SUBSET Threads]
  /\ \A e \in EntryIds :
       /\ entry[e].key \in Keys /\ entry[e].version \in Nat
       /\ entry[e].refs \in Nat
       /\ entry[e].state \in {"unallocated", "live", "freed"}
  /\ nextEntry \in 0 .. NWarm + TotalOps
  /\ slot \in [SegIds -> [SlotIdx -> [entry : {NoEntry} \cup EntryIds, version : Nat]]]
  /\ used \in [SegIds -> Nat]
  /\ log \in Seq(SegIds) /\ deleted \subseteq SegIds
  /\ count \in Nat /\ usage \in Nat /\ charged \subseteq EntryIds
  /\ pc \in [Threads -> {"idle", "insert", "lookup", "erase", "append", "grow",
                          "publish", "charge", "evict_check", "detach",
                          "uncount", "scan", "evict_lock"}]
  /\ ops \in [Threads -> Nat]
  /\ victim \in [Threads -> {0} \cup SegIds]
  /\ scan \in [Threads -> 0 .. SlotsPerSegment]

\* A slot of a detached segment whose reference EvictOne has already dropped.
Dropped(s, i) ==
  \E t \in Threads : pc[t] \in {"scan", "evict_lock"} /\ victim[t] = s /\ i < scan[t]

\* The references to entry e that exist in the shard: its slots not yet
\* dropped, a slot claimed for it and not yet written, and the map.
LiveSlots(e) ==
  {<<s, i>> \in (SegIds \ deleted) \X SlotIdx :
      slot[s][i].entry = e /\ ~Dropped(s, i)}
PendingFor(e) == {t \in Threads : pc[t] \in Pending /\ ent[t] = e}
Holders(e) ==
  Cardinality(LiveSlots(e)) + Cardinality(PendingFor(e))
    + (IF index[entry[e].key] = e THEN 1 ELSE 0)

(* Entry::refs is exact: every entry, live or deleted, has as many refs as *)
(* there are slots, pending appends and map entries pointing at it.  The   *)
(* Lookup increment, Erase's TryFreeEntry and EvictOne's refs-- plus       *)
(* TryFreeEntry must all agree; if they did not, TryFreeEntry would delete *)
(* an entry that a slot or the map still points to (a use after free), or *)
(* never delete it.                                                        *)
RefCountExact ==
  \A e \in Allocated :
     /\ entry[e].refs = Holders(e)
     /\ entry[e].state = "freed" <=> entry[e].refs = 0

(* usage_ counts the charged entries that have not been deleted: the       *)
(* fetch_add of Insert and the fetch_sub of TryFreeEntry pair up, so an    *)
(* entry is never given back before it was charged or given back twice.    *)
UsageCountsEntries ==
  usage = Cardinality({e \in charged : entry[e].state = "live"})

(* Every indexed entry with no Add in flight has exactly one slot carrying *)
(* its current version, so it stays findable by eviction: EvictOne only    *)
(* erases a key at the slot whose version is current, and Lookup's        *)
(* version++ is followed by an Add of that version.                        *)
IndexedEntryHasCurrentSlot ==
  \A k \in Keys :
     LET e == index[k] IN
     e /= NoEntry /\ PendingFor(e) = {} =>
        Cardinality({p \in LiveSlots(e) : slot[p[1]][p[2]].version = entry[e].version}) = 1

(* EvictOne never meets a slot whose Append has claimed it but not yet     *)
(* written it (entry == nullptr, read by entry->refs at line 253).         *)
NoUnpublishedSlotScanned ==
  \A t \in Threads :
     pc[t] = "scan" /\ scan[t] < SlotsPerSegment
       => slot[victim[t]][scan[t]].entry /= NoEntry

(* The log keeps more than the floor of SegmentList::Evict: a segment is  *)
(* detached only while count > 4, so at least five segments stay linked,  *)
(* the minimum-segments floor that keeps the log non-empty.  Evict        *)
(* releases tail_segment_mtx before its count-- (line 141), and a second  *)
(* evictor in between tests the count the first has not yet decremented.  *)
LogAboveFloor == Len(log) >= MinSegmentCount + 1

(* Every Insert, Lookup and Erase returns.                                 *)
EveryOperationCompletes ==
  \A t \in Threads : pc[t] /= "idle" ~> pc[t] = "idle"

=============================================================================
