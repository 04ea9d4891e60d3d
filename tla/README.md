# TLA+ models of the kvcache library

This directory holds TLA+ models of the concurrent in-memory caches under
`src/cache/`, and the TLC configurations that check them.

## The system

`ScalableCache` (`src/cache/scalable_cache.h`) owns `num_shards` shards of
one policy. It routes every request to shard `key % num_shards`. A
`Monitor` thread watches the hit ratio, and the policies are:

| policy | file | shared state of a shard |
|---|---|---|
| segment log | `segment_cache.h` | TBB `concurrent_hash_map` key → `Entry*`; entries with `version`, `refs`, `belong`; a list of segments of `kNumSlotsPerSegment` slots (`head`…`tail`, `count`); `usage_` |
| FIFO | `fifo_cache.h` | TBB map key → (value, list node); an intrusive list under `m_list_mtx`; `usage_` |
| LRU | `lru_cache.h` | as FIFO; `Lookup` moves the node to the front when `try_lock` succeeds |
| LRU, shared hash | `lru_cache_shared_hash.h` | as LRU, over one map all shards share (not built by the dispatcher) |
| FrozenHot | `frozenhot_cache_null.h` | LRU list plus a frozen fast tier, flags `fast_cache_ready`, `frozen_all`, `fast_cache_construct`, `enable_insert`, `curve_flag` and a marker node |

Many client threads call `Insert`, `Lookup` and `Erase` on the same shard at
once. The only synchronisation is:
- the map's per-key locks: an `accessor` is a write lock and a
  `const_accessor` a read lock;
- one or two mutexes of the list;
- atomics.

The hard behaviours are therefore interleavings. Examples are a slot claimed
but not yet written, a version read outside the lock and checked again
inside it, a counter decremented after its mutex is released, and eviction
loops whose termination depends on what other threads have freed.

## Modules

### `SegmentCache.tla`: one shard of the segment policy

It models `src/cache/segment_cache.h`, run by a set `Threads` of clients.
- **State:**
  - `index`: the map;
  - `writer` and `readers`: who holds an `accessor` or `const_accessor` on a key;
  - `entry`: `version`, `refs`, `belong`, and whether the entry is allocated, live or freed;
  - `slot`, `used`: the slot arrays and claim counters;
  - `log`: the segment list, head first;
  - `count`, `usage`;
  - `charged`: a history variable, the entries whose charge `Insert` added;
  - per thread: `pc` plus the locals of the running call.
- **Actions:** each action is one atomic access to shared state, or a short
  critical section nobody can observe half done:

| action | code |
|---|---|
| `StartOp` | a client issues its next request (the test's client loop) |
| `Insert` | `Insert` up to `hash_map_.insert`: new entry, or collision (the accessor is taken, the value updated, false returned) |
| `Lookup`, `Promote` | `Lookup`: `find` under a `const_accessor`; if `belong` is not the head, `refs++`, `version++`, then `Add` |
| `Erase` | `Erase`: `find` under an accessor, `TryFreeEntry`, `erase` |
| `SegAppend` | `Segment::Append`'s `used.fetch_add` |
| `Publish` | `Append`'s two stores, plus the release of a `Lookup`'s `const_accessor` |
| `Grow` | `SegmentList::Add` under `head_segment_mtx`: a new head, `count++` |
| `Charge` | `usage_.fetch_add`, `accessor.release()` |
| `EvictCheck` | `while (usage_ > capacity_)` |
| `Detach` | `SegmentList::Evict` under `tail_segment_mtx` (the `count > 4` floor) |
| `Uncount` | its `count--` after the unlock |
| `Scan` | `EvictOne`'s loop over one slot: a stale slot drops its reference; after the last slot, `delete segment` |
| `EvictLock` | `EvictOne`'s `find(accessor)`, second version check, `refs--`, `erase`, then `TryFreeEntry` |
| `Unref` / `TryFreeEntry` | `TryFreeEntry` (the last reference gives back the charge) |

`Init` is the state after a sequence `WarmEntries` of inserts and erases done
one after another. This is a state the program reaches, and it lets small runs
start at capacity.

`MC_SegmentCache.tla` supplies the model values and the warm sequence. With
one slot per segment it is:
- `Insert` k1, k2, k3;
- `Erase` k1, k2, k3;
- `Insert` k1, k2.

That gives five segments, `count = 4` and `usage_ = 5`. An erased entry keeps
its charge until its last slot is evicted.

### `FifoCache.tla`: one shard of the FIFO policy

It models `src/cache/fifo_cache.h`.
- **State:**
  - `map`: key → list node;
  - `writer`: who holds an `accessor` on a key;
  - `nodeKey`, `freed`, `nextNode`: the nodes allocated and deleted;
  - `list`: the intrusive list as a sequence of node ids, front first;
  - `usage`: `usage_`;
  - per thread: `pc`, and the locals `key`, `node`, `s`, `done` and `victim`,
    plus `ret`, the return point of `EvictOne`.
- **Actions:** each `m_list_mtx` critical section is one step, so the mutex
  needs no variable.

| action | code |
|---|---|
| `Lookup` | `find` under a `const_accessor`, held only within the step |
| `Insert` | `new ListNode`, `m_map.insert(accessor)`; on a collision the node is deleted and false returned |
| `InsCheck` | `s = usage_.load()`; if `s >= capacity_`, `EvictOne()` and `done = true` |
| `InsPush` | `ListPushFront` under the list mutex |
| `InsIncr`, `InsLoad` | `usage_++`, then the separate `s = usage_.load()` |
| `InsCas` | `if (s > capacity_)`: `compare_exchange_strong(s, s - 1)`, and `EvictOne()` if it succeeds |
| `InsDone` | return; the accessor is released |
| `EvPop` | `EvictOne` under the list mutex: empty list → return, else unlink the tail |
| `EvFind` | `find(accessor)` on the popped node's key, `erase`, `delete node` |
| `Erase`, `ErUnlink`, `ErErase` | `Erase`: `find(accessor)`, then `ListRemove` without `is_in_list()`, then `erase`, `delete`, `usage_--` |

`ListRemove` of a node that is no longer in the list writes through
`out_of_list_marker_`. The model makes that step a crash (`pc = "crashed"`),
which stops the process.

`Init` is the state after the keys of one sequence in `WarmChoices` were
inserted one at a time.

### `FifoQueue.tla`: what a FIFO shard promises

This is the abstract specification of the FIFO shard. The cache is a queue
of distinct keys, oldest first, and a request runs from `Call` to `Return`.
In between, the queue changes only in three ways:
- `Admit`: an insert of the key appends it;
- `EvictOldest`: an insert drops the oldest key;
- `EraseKey`: an erase removes its own key.

`FifoCache.tla` maps its state onto this one. `QueueOf` is the list,
reversed so that the tail node comes first, with each node replaced by its
key. `RequestOf(t)` is the request behind the thread's `pc`. The property
`ImplementsFifoQueue` is `Abstract!Spec`, and the `fifo_shard` run checks
it. It holds although evictions, erases and pushes interleave, because each
list change happens in one critical section of `m_list_mtx`, inside some
request.

### `LruCache.tla`: one shard of the LRU policy

It models `src/cache/lru_cache.h`. It has the state and the step
decomposition of `FifoCache.tla`, under the code's own names (`hash_map_`,
`list_mtx_`, `LruRemove`, `LruAppend`). There are two differences:
- `Lookup` takes `list_mtx_` with `try_to_lock`. If it gets the mutex, it
  moves the node to the front (`MoveToFront`), but only while
  `is_in_list()` holds. `std::mutex::try_lock` may fail even when the mutex is
  free, so a skipped promotion is a nondeterministic outcome in every state.
- `EvictOne` has no empty-list check. On an empty list it unlinks `head_`,
  whose `prev` is the marker, and the model makes that step a crash.

### `LruCacheSharedHash.tla`: the LRU shard over a shared hash map

`src/cache/lru_cache_shared_hash.h` is the LRU shard written to run over one
TBB map that all shards of a `ConcurrentScalableCache` share. The
dispatcher's case that builds it is commented out. Keys go to shards by
`key % num_shards_`, so the model takes one shard over its own keys. The
class is `LruCache` line for line, except for `Insert` on a present key: it
repoints the map at its new node (`accessor->second = node`) and leaves that
node unlinked. The module declares `LruCache`'s constants and variables and
defines its own `Insert`. It takes every other handler from `LruCache`
through the instance `Lru`.

### `FrozenHotCache.tla`: one shard of the FrozenHot policy

It models `src/cache/frozenhot_cache_null.h`. The shard has a main LRU list
(`m_head`…`m_tail`) and a fast list (`m_fast_head`…`m_fast_tail`). The
monitor's hooks splice nodes between them by hand, without `LruRemove`, so
the model keeps the lists at the level of pointers:
- `link` gives each cell its `prev` and `next`. A cell is one of the four
  sentinels or a heap node.
- A pointer is a cell, `Null` or `OOL` (`out_of_list_marker_`, address -1).
- `alive` holds the heap nodes allocated and not deleted; nodes are
  numbered in allocation order.
- `Deref(D, w, A)` does `A` when every pointer in `D` is a sentinel or a live
  node. Otherwise it sets `fault` to `w` and nothing moves again. The same
  happens on deleting a sentinel and on a failed `assert`.

The shard state is `map` (key → node), the map's per-key locks (`writer`,
`readers`, and the monitor's `creader`), the key set of the fast hash
(`fast`), the flags, `m_marker`, `m_size` and `eviction_counter`.
One action per step, named by the code it covers:

| code | actions |
|---|---|
| `Lookup` | `Lookup` (fast-hash hit, or `find` under a `const_accessor`), `LkConstruct`, `LkMarker`/`LkMtime` (the two plain reads of `m_marker` at line 240), `LkPromote`, `LkTry` (the `try_lock` promotion; `try_lock` may fail in any state, and then the unconditional `list_lock.unlock()` at line 272 throws `std::system_error`, the fault `lk_unlock`) |
| `Insert` | `Insert` (the `enable_insert` test), `InsMap`, `InsCheck`, `InsLock` (push, or the rejection), `InsRelease`, `InsIncr` (`s = m_size++`), `InsDec` |
| `Evict` | `EvPop` (unlink the tail, whatever it is), `EvFind` |
| `GetCurve` | `GcStart` (the `assert`, the marker pushed, `curve_flag`), `GcEnd`, `GcFree` |
| `ConstructTier` | `CtLock` (the splice), `CtWalk` (the `find` walk) |
| `ConstructFastCache` | `CfStart`, `CfWalk`, `CfAfter` (the split or the "frozen all" splice), `CfEnd` |
| `DeleteFastCache` | `DlLock` (the merge splice), `DlClear` |

The monitor thread calls the hooks in the order of `FrozenMonitor`, which
is kept commented out in `scalable_cache.h` (lines 358-732):
1. `WAIT_STABLE`, then `GetCurve`.
2. The probe: `ConstructTier`, then `DeleteFastCache`.
3. Either back to `WAIT_STABLE`, or `CONSTRUCT` with `ConstructTier` or
   `ConstructFastCache(best_size)`.
4. The frozen phase, ended by `DeleteFastCache`, which returns to
   `WAIT_STABLE` or to `CONSTRUCT`.

The choices there depend on measured latencies and are left free. After
`CtrlBudget` hook calls the monitor stops. Each critical section of
`m_list_mtx` is one step. `Erase` only returns `false` and is left out.

### `Benchmark.tla`: the benchmark run, the monitor and the latency sets

It models how `Benchmark::Run` (`src/benchmark.h`) measures a cache. The
cache's own behaviour is abstracted to a hit or a miss per request.
- **Client threads** run `Work_Cache`. Every request whose index is a
  multiple of `large_granularity_` is sampled: `stop_sample_stat` is always
  true, so the other path is dead code. A sample goes into `hit_latency_set`
  or `other_latency_set` through `MySet::insert`, in two steps:
  - `Claim`: the `__sync_fetch_and_add` on `size_`;
  - `Write`: the later store `data_[index] = value`.

  A stored value is abstracted to the sample's identity `<<client, request>>`.
  `Zero` stands for a zeroed slot.
- **The tickers.** Each lookup also ticks `CACHE_HIT` or `CACHE_MISS` of
  the shard's `Statistics` (`RecordTick`, a `fetch_add`). The model has one
  shard, and the trace is lookups only.
- **The monitor**, `ConcurrentScalableCache::Monitor`:
  - Each pass of either loop starts with `PrintMissRatio`. The warm-up
    loop calls the overload that returns the ratio
    (`PrintMissRatioWarm`), and the stable loop the one that only prints
    it (`PrintMissRatioStable`). Both run the same loop over the shards
    (`MissRatioStep`). Its `GetStat` loads the tickers, then `ResetStat`
    stores 0 into them: two steps.
  - In the warm-up loop, `PrintStepLat` reads each set from `cursor_` to
    `size_` (`PrintFromLastEnd`), then sets `cursor_ = size + 1`. The
    decision to leave the warm-up depends on measured ratios, so
    `MonDecide` leaves it free.
  - Then `PrintGlobalLat` runs: for each set, `print_tail` and then
    `reset()`. `reset()` is the memset of the used slots (`ResetZero`)
    followed by `size_ = 0; cursor_ = 0` (`ResetSize`).
  - Then the stable loop, until `should_stop_`.
- **The main thread** joins the clients, calls `Stop()`, joins the monitor,
  and prints the final global latency.

Each set operation is one step, except `insert`, whose two statements are
two steps. Every other statement touches only thread-local state.

The ghost variables are:
- `fresh`: the samples claimed since the last reset;
- `stepCount`: how many step windows counted each sample;
- `report`: the samples of the final `print_tail`.

### The RocksDB port of the segment policy

It models `SegmentCacheShard` of
`src/end-to-end/rocksdb-7.10.2/cache/segment_cache.{h,cc}`, the cache that
RocksDB port. The port differs from `segment_cache.h`:
- Entries are reference counted through handles. `refs` counts the live slots, the
  pending appends and the handles clients hold; the map holds none.
  `Insert` and `Lookup` return a handle (`refs++`), and `Release` drops it.
  `FreeEntry` runs when `refs` reaches 0 and subtracts the charge.
- `Insert` keeps its accessor through `while (usage_ >= capacity_)
  EvictOne()`, and a key already present is returned, not replaced.
- `Lookup` promotes only while `count < 512`, under a `const_accessor`.
- `SegmentList::Evict` keeps `count > 20` segments, and decrements `count`
  after releasing `tail_segment_mtx`, as `segment_cache.h` does.
- `EvictOne` erases the key only if the slot's version is still current
  under the accessor. If `find` fails, it skips the `refs--` ("Presumably
  unreachable").
- `Erase` has the inverted test described under Findings.

The state is as in `SegmentCache.tla`: `index`, `writer`/`readers` for the
accessors, `entry` records, segments with `slot`, `used`, `head`, `tail`,
`prev`, `nextSeg`, `deleted`, `count`, `usage`, `charged`. Per thread there
are `pc`, `key`, `ent`, `ver`, `seg`, `sid`, `victim`, `scan` and the held
`handle`. A thread holds at most one handle and must `Release` it before its
next insert or lookup, as YCSB's binding does. `StartOp` stands for a YCSB
client thread issuing a request (`DelegateClient`'s loop of `num_ops` calls).
`MC_RocksdbSegmentCache` starts from a warm
shard, given as the sequence `WarmSlots` of keys appended so far (the
`ASSUME`s check that it is a run the code can produce): 22 segments of two
slots, `count = 21`, one free head slot, and a tail segment that holds a
stale slot of key 1 and the current slot of key 2. The floor is the literal
20 of the code.

### `RocksdbSegmentCache.tla`: the RocksDB 8.10.2 shard

YCSB's RocksDB binding (`YCSB/db/a_rocksdb.h`) builds its block cache with
`SegmentCacheOptions::MakeSharedCache` and `num_shard_bits = 0`. That is the
8.10.2 API, so one shard of `rocksdb-8.10.2/cache/segment_cache.cc` holds the
whole capacity. Its `Insert`, `Lookup`, `Erase`, `Release`, `EvictOne` and
`FreeEntry` are the 7.10.2 handlers line for line. The two versions differ in
three ways:
- 8.10.2's `Lookup` has no `wait` argument;
- 8.10.2 takes an eviction callback, where 7.10.2 took a secondary cache, and
  never calls it;
- 8.10.2 adds `CreateStandalone` and stubs that change no state.

The 8.10.2 tree includes a `cache/segment_cache.h` that the repository lacks,
so the model takes 7.10.2's `Segment` and `SegmentList`. The module therefore
declares the same constants and variables as `SegmentCacheShard`. It takes
each handler from that module through the instance `Shard`, under the name of
its 8.10.2 code, and re-states `SegmentCacheShard`'s properties, which
`port_shard` checks through `MC_RocksdbSegmentCache`. A mutant of a
`SegmentCacheShard` handler therefore breaks the 8.10.2 run.

### `LeveldbSegmentCache.tla`: the LevelDB port of the segment policy

It models one `SegmentCache` shard of
`src/end-to-end/leveldb-1.23/util/segment_cache.cc`. Most of its handlers
are the RocksDB port's, line for line: `Insert`, `Release`, `Erase`,
`SegmentList::Add`, `FreeEntry`, and `EvictOne`'s find-and-erase. The module
takes them from `SegmentCacheShard` through the instance `Port`, so the two
models cannot drift apart. Three things are its own:
- `Lookup` promotes whenever `belong` is not the head, with no
  `count < 512` limit.
- `SegmentList::Evict` (`Detach`) has no count floor. It always detaches
  the tail and stores `victim->prev` as the new tail, which is `nullptr`
  for the last segment. The next `Evict` reads through that null tail,
  and the model makes that step a crash.
- `EvictOne`'s loop (`Scan`) never deletes the segment it scanned.

`Init` is the shard as its constructors leave it: one empty segment,
`count = 0`, `usage_ = 0`.

## Runs

| run | cfg | expect | what it shows |
|---|---|---|---|
| `segment_safety` | `MC_SegmentCache.cfg` | pass | Two clients, two requests each, on the warm shard with capacity 5. Every new insert evicts a tail segment while the other client inserts, looks up or erases. The checked properties are listed below this table. |
| `segment_floor` | `MC_SegmentCache_floor.cfg` | violation | `LogAboveFloor`: at least five segments stay linked, the floor of `Evict`'s `count > 4`. Two inserts into the warm shard at capacity both grow the log to six segments and evict; the second evictor tests `count` before the first has decremented it, and the log is left with four. |
| `segment_unpublished` | `MC_SegmentCache_unpublished.cfg` | violation | One client is preempted after `Append`'s `fetch_add`. The other looks up a key three times, each time appending a new segment, then inserts. `EvictOne` reaches the claimed slot while it still holds `nullptr`. |
| `fifo_shard` | `MC_FifoCache.cfg` | pass | Three clients, one insert, lookup or erase each, on a full shard of capacity 2. Evictions race each other and erases, one `EvictOne` finds the list empty, and the overshoot CAS runs. Checks `TypeOK` (an `EvictOne` past its empty check always holds a real node), `ListMatchesMap`, `NoNodeLeak`, `EveryOperationCompletes` and `ImplementsFifoQueue` (the refinement of `FifoQueue`). |
| `fifo_self_deadlock` | `MC_FifoCache_selfwait.cfg` | violation | Two first inserts into an empty shard of capacity 1. The CAS winner pops its own node and waits for its own accessor. |
| `lru_shard` | `MC_LruCache.cfg` | pass | The `fifo_shard` bounds on an LRU shard: `TypeOK`, `ListMatchesMap`, `NoNodeLeak`, `UsageCountsList`, `EveryOperationCompletes`. |
| `frozen_safety` | `MC_FrozenHotCache.cfg` | pass | Two clients, one lookup or insert each, on a FrozenHot shard of capacity 1. The cache starts empty, or over-filled to 2 by `s = m_size++`. Meanwhile the monitor makes six hook calls. The checked properties are listed below this table. |
| `frozen_marker_evicted` | `MC_FrozenHotCache_marker.cfg` | violation | During `GetCurve`, `Evict` pops the curve marker. |
| `leveldb_self_wait` | `MC_LeveldbSegmentCache.cfg` | violation | `NoSelfWait`: `EvictOne` never waits for an accessor its own `Insert` holds. On a LevelDB-port shard with one segment, the first insert to reach capacity detaches that segment and waits on its own key. |
| `bench_stats` | `MC_Benchmark.cfg` | pass | Two clients of two requests each, sampling with granularity 2, race the monitor's step windows, its `PrintGlobalLat` and reset, and the main thread's `Stop`. Checks `TypeOK` (in particular `cursor_ <= size_ + 1`), `NoSampleCountedTwice` (no sample is counted by two step windows, across the reset) and `RunCompletes` (`Run` reaches its final report). Mutants: `reset()` without its memset, `reset()` keeping `cursor_`, and `Stop` not setting `should_stop_`. |
| `bench_final_report` | `MC_Benchmark_final.cfg` | violation | `FinalReportExact`: the final report should hold exactly the samples claimed since the monitor's reset. A client claims a slot in the warm-up and stores into it after the reset, overwriting a measured-phase sample. |
| `port_shard` | `MC_RocksdbSegmentCache.cfg` | pass | Two clients, three requests each (insert, lookup, erase, release), on a warm shard of the RocksDB 8.10.2 port of 22 segments at capacity 5. Checks `TypeOK`, `RefCountExact`, `UsageCountsEntries` and `IndexedEntryHasCurrentSlot` of that module. |

The `segment_safety` run checks these properties:
- `RefCountExact`: `refs` equals the number of slots, pending appends and map
  entries that point at the entry. A freed entry has none of them, so there is
  no use after free.
- `UsageCountsEntries`: `usage_` equals the number of charged live entries.
- `IndexedEntryHasCurrentSlot`: every indexed entry has exactly one slot with
  its current version.
- `EveryOperationCompletes`: once five segments exist, every request returns.

Each property of a passing run is shown to be sensitive to the code by a
mutant in `PROJECT.json`:
- the missing `accessor->second != entry` test;
- `Lookup` without `refs++`;
- `TryFreeEntry` without `fetch_sub`;
- `Add` with the old version;
- the floor off by one.

The FIFO passing runs check these properties:
- `ListMatchesMap`: when no call is running, the list has no duplicates and
  holds exactly the nodes the map points to.
- `NoNodeLeak`: every allocated node is in the list, held by a running call,
  or deleted.
- `EveryOperationCompletes`: every call returns, unless the process crashed
  (`NeverCrashes` reports that on its own). It holds under the `fifo_shard`
  bounds: with a full cache and one request per client, no inserter's own
  node reaches the tail, so the self-deadlock is out of reach.

- `ImplementsFifoQueue` (`fifo_shard` only): the shard refines `FifoQueue`.

Their mutants are:
- `EvictOne` popping the head, the newest node, instead of the tail (this
  breaks `ImplementsFifoQueue`);
- `EvictOne` without the empty check (as in `LruCache`);
- `EvictOne` without `erase`, or without `delete`;
- `Insert` not releasing its accessor;
- `Erase` without `delete`.

In the LRU shard `UsageCountsList` holds until a crash. The case that makes
`usage_` drift in FIFO, an eviction that finds the list empty, crashes in
LRU instead. The `lru_shard` mutants are:
- `EvictOne` going on from `head_`;
- `Lookup` without `is_in_list()`, which links a node under eviction back;
- `Erase` without `delete`;
- the overshoot CAS replaced by a store;
- `Insert` not releasing its accessor.

The `frozen_safety` run checks these properties:
- `MapNodesLive`: every mapped key points at a node that is not deleted. So
  `Lookup` never reads freed memory through `m_map`.
- `SizeCoversEntries`: between requests, `m_size` is at least the number of
  entries and at most `m_max_size + 1`.
- `EveryOperationCompletes`: every request returns unless the process
  faulted.

Their mutants are:
- `Evict` also doing `m_size--`, so the overshoot path decrements twice
  and `m_size` goes below zero;
- `Evict` deleting without `erase`;
- the `!done` test of `s = m_size++` inverted;
- `Insert` keeping its accessor.

Faults are reachable in this run. The second `GetCurve` fails its
`assert(enable_insert)`, and a lookup may reload `m_marker` as `nullptr`.
A fault ends the behaviour, and all four properties allow that end.

### Findings

1. **EvictOne reads an unwritten slot** (`segment_cache.h:251`). `EvictOne` can
   read a slot whose `Append` has claimed it but not written it, and
   dereferences `nullptr`. The preempted `Append` then writes into a deleted
   segment.

2. **FIFO Insert waits on itself** (`fifo_cache.h:199`). `Insert` holds its
   key's accessor while the overshoot branch calls `EvictOne`. `EvictOne` pops
   the tail and takes that key's accessor. If the tail is the inserter's own
   node, the thread waits forever. Two concurrent first inserts into a cache of
   capacity 1 are enough. This is the "once only as the cache fills" case of
   the comment at line 151.
3. **LevelDB port evicts its only segment** (`leveldb-1.23/util/segment_cache.cc:108`).
   `SegmentList::Evict` has none of the `count > K` floor that `spec.md`
   requires. While a shard's head is its only segment (any capacity below
   16384 entries per shard), the first eviction detaches the head.
   `EvictOne` then reaches the inserter's own slot, and
   `find(accessor, key)` waits for the accessor the same `Insert` holds.
4. **Late latency store after the reset** (`utils.h:50`).
   - `MySet::insert` claims its index with `__sync_fetch_and_add` and
     stores the value in a later statement.
   - The monitor's `PrintGlobalLat` calls `reset()` after the warm-up while
     the clients keep running.
   - A client preempted between its claim and its store therefore writes
     its warm-up latency into a slot that a measured-phase insert has
     already claimed and written.
   - The final report then counts a warm-up sample and loses a measured
     one.

5. **FrozenHot evicts the curve marker** (`frozenhot_cache_null.h:595`).
   `Evict` pops the tail, whatever it is.
   - Lookups that read `curve_flag == false` before `GetCurve` pushed the
     marker still promote their nodes to the front, so the marker can be
     left at the tail.
   - The next insert's `Evict` then unlinks the marker and leaves it unlinked
     and never deleted.
   - After that, inserts splice after a marker that is not in the list, and
     `GetCurve`'s `LruRemove(m_marker)` writes through
     `out_of_list_marker_`.
6. **Two evictors pass the segment floor** (`segment_cache.h:141`).
   - `SegmentList::Evict` tests `count > 4` under `tail_segment_mtx`, but
     runs `count--` after releasing it.
   - A second evictor in between tests the old count and detaches one
     more segment, so the log keeps four segments with `count = 3`.
   - `spec.md` says the floor keeps the log non-empty. With six
     concurrent evictors the log can be emptied, and the next `Evict`
     reads through a null tail.
   - The RocksDB 7.10.2 port's `Evict` (`count > 20`, `segment_cache.h:162`)
     has the same unlock-then-decrement.

More defects show in the model without a run of their own:
- Shared-hash LRU replaces a cached key's node (`lru_cache_shared_hash.h:81`).
  - On a key already present, `LruCacheSharedHash::Insert` sets
    `accessor->second = node` and returns false. The code comments this
    "update value".
  - The new node is never appended, and the old node stays in the list
    under no key.
  - A later `Erase` of the key unlinks a node whose `prev` is the marker,
    and crashes.
  - An `EvictOne` that pops the old node erases the key's new node from the
    map instead, and leaks it.
  - `LruCache` updates the value of the existing node and deletes the new
    one.
  - `MC_LruCacheSharedHash.cfg` checks `ListMatchesMap` on the module,
    and TLC finds it violated at depth 3. The project keeps no run of it.
- `DeleteFastCache` on an empty fast list (`frozenhot_cache_null.h:510`).
  - The probe `ConstructTier` moves the whole main list into the fast list.
  - It returns with neither `fast_cache_construct` nor `fast_cache_ready`
    set, so every later lookup moves its node back to the main list.
  - Once the fast list is empty, `DeleteFastCache` sets `m_head.m_next` to
    `&m_fast_tail`, and the main list loses all its nodes.
  - `MC_FrozenHotCache_deconstruct.cfg` checks `DeconstructKeepsNodes`, and
    TLC finds it violated. The project no longer keeps that check as a run.
- FIFO `usage_` undercounts (`fifo_cache.h:191`). `Insert` reads
  `s = usage_` once. Two inserters into a full cache both evict, and the
  second finds the list empty. Both set `done = true` and skip `usage_++`,
  so `usage_` falls below the number of entries, and erasing them all
  wraps it below zero. `fifo_shard` reaches this state; `UsageCountsList`
  fails there and is therefore not among its properties.
- FIFO double unlink (`fifo_cache.h:178`). `Erase` calls `ListRemove`
  without `is_in_list()`. If `EvictOne` popped the node first,
  `ListRemove` writes through the marker `(ListNode*)-1`. `fifo_shard`
  reaches this crash, and its properties hold up to it.
- LRU eviction from an empty list (`lru_cache.h:133`). Two inserts into a
  full cache both evict, and the second unlinks `head_` through the marker.
  `Erase` at line 116 has FIFO's double unlink too, and `Insert` has FIFO's
  self-deadlock (lines 75, 100, 137). `lru_shard` reaches both crashes.
- A step window reads slots that are claimed but not yet stored
  (`utils.h:129`) and averages in 0.0. `bench_stats` reaches it.
- `GetStat` loads the tickers and `ResetStat` then stores 0 into them
  (`statistics.cc:41`). A tick made in between is lost, so a miss ratio
  can undercount. No property states it: a client ticking between the
  two steps shows it in any interleaving, so it would need a run of its own.
- `Insert` hangs below five segments (`segment_cache.h:211`). It loops until
  usage falls under capacity, and `SegmentList::Evict` refuses to evict while
  `count <= 4`, so a cache whose capacity is reached before a fifth segment
  exists spins forever. With 65536 slots per segment that is any capacity
  below about 262144 entries, the disabled test `DISABLED_HitAndMiss`
  (capacity 200, 300 inserts) among them. `EveryOperationCompletes` is
  therefore stated from the fifth segment on; the hazard list records the
  hang.
- The RocksDB port's `Erase` (`rocksdb-7.10.2/cache/segment_cache.cc:136`)
  tests `if (!hash_map_.find(accessor, key))`, the wrong way round. Erasing a
  present key does nothing, and erasing an absent key dereferences the empty
  accessor. `port_shard` reaches that crash (pc `crashed`), and its
  invariants hold in every state up to it.
- `enable_insert` is never set back after `ConstructTier`. Every later insert
  fails, and the next `GetCurve` fails `assert(enable_insert.load())` (line
  528). This is the fault `gc_start`.
- With `FC_size < 20`, `count > FC_size - 20` wraps on `uint64_t` and never
  holds. The walk of `ConstructFastCache` then runs into `m_tail`, and
  `Exceeds` models the wrap.

## Bounds

The bounds and why they are enough:
- **One slot per segment.** Every append that finds the head full grows the
  log, so segment creation, eviction and the floor are reached within a few
  requests. The code's logic does not depend on the slot count beyond `IsFull`.
- **Two clients.** This is enough for every pairwise race between the
  handlers: two inserters that both evict, a lookup promoting the entry an
  evictor is scanning, an erase against an evictor.
- **Three keys, two requests per client.** These cover collisions on the same
  key, a key erased and reinserted, and a stale-version slot of a live key.
- **The unpublished-slot race.** It needs a long request sequence of one client
  (six requests) while the other stalls, so it has its own run.
- **RocksDB port.** With two slots per segment and 22 warm segments, the
  first eviction passes the floor of 20, a racing second one fails it, and a
  lookup can hit without promoting (its key's slot already in the head).
  Three requests per client let a client insert, look up a key whose slot an
  evictor is scanning, and release; every action and every branch of `Scan`
  fires except the null-slot crash and `EvictLock`'s "Presumably unreachable"
  skip, which `RefCountExact` shows cannot happen.
- **Symmetry.** No run uses symmetry, because every passing run checks a
  liveness property.
- **FIFO and LRU.** The passing runs start from a full cache of capacity 2
  with three clients and one request each. That is the smallest setting in
  which three evictors empty a two-node list, an erase frees room so that
  two later inserts overshoot and take the CAS, and an erase races an
  eviction of its key. Every branch but `EvictOne`'s "Presumably
  unreachable" return fires. That return is reachable only after a crash.
  The violation runs use capacity 1, the smallest cache that shows each
  defect.

- **FrozenHot.** The run uses capacity 1 and two clients with one request
  each.
  - The over-filled start is the state two racing first inserts leave, as
    the model itself shows. From it, a third insert takes both the
    ordinary eviction and the overshoot eviction with `InsDec`.
  - Six hook calls cover every monitor choice: the probe, a `ConstructTier`
    and a `ConstructFastCache` phase, and both exits of the frozen phase.
  - `Magic = 0` and `FCSizes = {0}` let the split of `ConstructFastCache`
    happen, as it does for real sizes above 20.
  - The cfgs declare the view `DeadDataView` of `MC_FrozenHotCache`. It
    hides the locals of idle clients and of the monitor between hooks, and
    the fields of freed cells. It keeps `m_time` values only by their order.
    States with the same view have the same futures, so the view is exact.
    It makes the passing run about four times smaller.

- **LevelDB port.** Two clients, two keys, two slots per segment and
  capacity 2: the smallest shard whose head is still its only segment when
  capacity is reached. Three calls per client let a client insert, release
  and insert again.
- **Shared-hash LRU.** Two clients with two requests each, two keys,
  capacity 2, and one key cached at the start. The defect needs one insert
  of a cached key, so TLC finds it at depth 3 (`MC_LruCacheSharedHash.cfg`,
  kept without a run). The other handlers are `LruCache`'s, and `lru_shard`
  checks them.
- **Benchmark.** Two clients and two requests each, with granularity 2,
  give each client one sampled and one unsampled request. Every sample can
  be claimed before or after the reset, and stored before or after a step
  window or the reset. A preempted client's late store, the one defect
  here, needs one stalled client and one that claims after the reset. Three
  requests give millions of states without a new interleaving of the sets.
  The run explores 1.4 million states in about a minute.

## Fairness

Each client thread is an OS thread that keeps running while it has a step to
take. The spec therefore has weak fairness on each thread's steps while its
request is in progress. There is no fairness for issuing new requests: a
client may stop.

Lock waits are enabling conditions of the steps that take them, for example
`EvictLock` waiting for a key's accessor. A holder always releases within its
own steps, so weak fairness suffices.

The FrozenHot monitor is a thread of its own. It has weak fairness on all
its steps, because `FrozenMonitor` loops until `should_stop_`.

In `Benchmark.tla` each client, the monitor and the main thread have weak
fairness. They are OS threads: the monitor's `sleep` always returns, and a
join waits on a condition the joined thread reaches by its own steps. The
monitor's warm-up break is a free choice, and it is not fair. `RunCompletes`
holds without that fairness, because `Stop` also ends the warm-up loop.

## Not modelled, and why

- The LevelDB port's `Prune`, which only the destructor runs, and
  `ShardedSegmentCache`, which routes by hash to two independent shards.
- The RocksDB port's `SetCapacity`, priority-pool setters and `Ref`: they
  store fields no handler branches on, or return `false`. Its liveness: the
  eviction loop may spin while clients keep their handles, and a client may
  keep one forever, so no fairness makes a liveness property true.
- The rest of the LevelDB and RocksDB ports: storage-engine glue.
- YCSB, `main.cc`, `trace.h` and the key generators: I/O and workload
  generation. In `benchmark.h`, `Work_FH_Cache` and the FrozenHot branches
  drive the original FrozenHot interface, which has no module.
- The CLHT fast hash: an external library.
- The `AsyncCache` and `GroupCache` stubs: they are empty.
- The dispatcher: it routes by `key % num_shards`, and shards share no
  state, so one shard is the unit of every model.
- The sort in `print_tail`, which races with late stores: the model reads
  the slots and leaves out the moves of `std::sort`. `Random` in `utils.h`
  has no caller. `PrintStatus` only prints. The `INSERT` ticker and
  the `Statistics` cursors (`GetStep`, `PrintStep`, `ResetCursor`) are
  used only by the commented-out `FrozenMonitor` and `GetCurve`.
- Values, statistics ticks and printing inside the handlers.
- FrozenHot's `frozen_all` (never set), `movement_counter` and the sampling
  loop of `GetCurve` (it reads counters and sleeps), and the fast hash
  beyond its key set.
