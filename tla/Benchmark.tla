----------------------------- MODULE Benchmark -----------------------------
(***************************************************************************)
(* The benchmark run of src/benchmark.h with the latency statistics it     *)
(* keeps: Benchmark::Run starts the client threads (Work_Cache) and the    *)
(* monitor thread (ConcurrentScalableCache::Monitor of                     *)
(* src/cache/scalable_cache.h), joins the clients, calls Stop, joins the   *)
(* monitor and prints the global latency.  Clients sample every            *)
(* Granularity-th request into the MySet hit_latency_set or               *)
(* other_latency_set (src/cache/utils.h); the monitor prints step windows  *)
(* of them (print_from_last_end) and, once the miss ratio is stable, the   *)
(* whole sets (print_tail) before it resets them for the measured phase.   *)
(*                                                                         *)
(* A latency value is abstracted to the sample that took it, <<t, i>> for  *)
(* request i of client t, and the cache to whether the request hit: what   *)
(* the cache does is modelled by the shard modules, and no step here reads *)
(* more of it.  The miss ratios and sizes that end the warm-up are left    *)
(* free, as are the values the printing computes.                          *)
(***************************************************************************)
EXTENDS Integers, FiniteSets, Sequences, Functions

CONSTANTS
  Clients,     \* the client threads
  NumRequests, \* num_requests_per_client
  Granularity  \* large_granularity_ (threads * 1000 in the code)

ASSUME NumRequests \in Nat /\ Granularity \in Nat \ {0}

\* stop_sample_stat is true and never cleared, so a client samples request
\* i when i % large_granularity_ == 0, into one of these two sets.
Sets == {"hit", "other"}
Samples == Clients \X {i \in 0 .. NumRequests - 1 : i % Granularity = 0}
\* MySet::data_, an mmap'd array whose pages read as 0.0 until written.
Zero == <<>>
\* The Statistics tickers PrintMissRatio reads: CACHE_HIT (with
\* FAST_CACHE_HIT) and CACHE_MISS.
Ticks == {"hit", "miss"}
MaxSlots == Cardinality(Samples)
Slots == 0 .. MaxSlots - 1

VARIABLES
  size, cursor, data,  \* per set: MySet::size_, cursor_, data_
  cpc, req, sset, sidx,\* per client: where it is, request i, set and index
  mpc, shouldStop,     \* the monitor thread, should_stop_
  hpc,                 \* the main thread in Benchmark::Run
  fresh,               \* per set: samples claimed since its last reset
  stepCount,           \* per sample: the step windows that counted it
  report,              \* per set: the slots the last print_tail read
  tickers,             \* Statistics::tickers_ of the shard
  seen                 \* the monitor's GetStat results

setVars == <<size, cursor, data>>
clientVars == <<cpc, req, sset, sidx>>
ghostVars == <<fresh, stepCount, report>>
statVars == <<tickers, seen>>
vars == <<setVars, clientVars, mpc, shouldStop, hpc, ghostVars, statVars>>

(* Run: MySet() for both sets, the clients and the monitor started.        *)
Init ==
  /\ size = [s \in Sets |-> 0]
  /\ cursor = [s \in Sets |-> 0]
  /\ data = [s \in Sets |-> [j \in Slots |-> Zero]]
  /\ cpc = [t \in Clients |-> "req"]
  /\ req = [t \in Clients |-> 0]
  /\ sset = [t \in Clients |-> "hit"]
  /\ sidx = [t \in Clients |-> 0]
  /\ mpc = "warm"
  /\ shouldStop = FALSE
  /\ hpc = "join_clients"
  /\ fresh = [s \in Sets |-> {}]
  /\ stepCount = [x \in Samples |-> 0]
  /\ report = [s \in Sets |-> <<>>]
  /\ tickers = [k \in Ticks |-> 0]
  /\ seen = [k \in Ticks |-> 0]

-----------------------------------------------------------------------------
(* Work_Cache: one lookup request of the trace; the cache's Lookup ticks   *)
(* CACHE_HIT or CACHE_MISS (RecordTick, a fetch_add).  ret_flag is true on *)
(* a hit, and a sampled request goes on to hit_latency_set or              *)
(* other_latency_set.                                                      *)
(* Statistics::RecordTick(k): tickers_[k].fetch_add(1).                   *)
RecordTick(k) == tickers' = [tickers EXCEPT ![k] = @ + 1]

Request(t) ==
  /\ cpc[t] = "req" /\ req[t] < NumRequests
  /\ \E outcome \in Ticks :
       /\ RecordTick(outcome)
       /\ IF req[t] % Granularity = 0
          THEN /\ cpc' = [cpc EXCEPT ![t] = "claim"]
               /\ sset' = [sset EXCEPT ![t] = IF outcome = "hit" THEN "hit" ELSE "other"]
               /\ UNCHANGED req
          ELSE /\ req' = [req EXCEPT ![t] = @ + 1]
               /\ UNCHANGED <<cpc, sset>>
  /\ UNCHANGED <<setVars, sidx, mpc, shouldStop, hpc, ghostVars, seen>>

(* MySet::insert: index = __sync_fetch_and_add(&size_, 1).                *)
Claim(t) ==
  LET s == sset[t] IN
  /\ cpc[t] = "claim"
  /\ sidx' = [sidx EXCEPT ![t] = size[s]]
  /\ size' = [size EXCEPT ![s] = @ + 1]
  /\ fresh' = [fresh EXCEPT ![s] = @ \cup {<<t, req[t]>>}]
  /\ cpc' = [cpc EXCEPT ![t] = "write"]
  /\ UNCHANGED <<cursor, data, req, sset, mpc, shouldStop, hpc, stepCount, report, statVars>>

(* data_[index] = value, and the client's loop goes on with offset++.      *)
Write(t) ==
  /\ cpc[t] = "write"
  /\ data' = [data EXCEPT ![sset[t]][sidx[t]] = <<t, req[t]>>]
  /\ req' = [req EXCEPT ![t] = @ + 1]
  /\ cpc' = [cpc EXCEPT ![t] = "req"]
  /\ UNCHANGED <<size, cursor, sset, sidx, mpc, shouldStop, hpc, ghostVars, statVars>>

(* All requests done: the client prints its counts and returns.            *)
ClientDone(t) ==
  /\ cpc[t] = "req" /\ req[t] = NumRequests
  /\ cpc' = [cpc EXCEPT ![t] = "done"]
  /\ UNCHANGED <<setVars, req, sset, sidx, mpc, shouldStop, hpc, ghostVars, statVars>>

-----------------------------------------------------------------------------
(* MySet operations run by the monitor or the main thread.                 *)

\* The samples among the slots lo .. hi - 1 of set s.
SamplesIn(s, lo, hi) == {data[s][j] : j \in lo .. hi - 1} \ {Zero}

(* print_from_last_end: if size_ == 0 or cursor_ >= size_ print "none";    *)
(* otherwise sum data_[cursor_ .. size_) and set cursor_ = size + 1.      *)
PrintFromLastEnd(s) ==
  IF size[s] = 0 \/ cursor[s] >= size[s]
  THEN UNCHANGED <<cursor, stepCount>>
  ELSE LET read == SamplesIn(s, cursor[s], size[s]) IN
       /\ stepCount' = [x \in Samples |-> IF x \in read THEN stepCount[x] + 1
                                                      ELSE stepCount[x]]
       /\ cursor' = [cursor EXCEPT ![s] = size[s] + 1]

(* print_tail(size): size = size_, sort data_[0 .. size), sum it.  No     *)
(* reader tells the sorted order apart, so the sort is left out.           *)
PrintTail(s) ==
  report' = [report EXCEPT ![s] = [j \in 1 .. size[s] |-> data[s][j - 1]]]

\* Mutant of ResetZero: reset() without its memset.
ResetZeroNothing(s) == data' = data

(* reset(), first statement: memset(data_, 0, sizeof(double) * size_).     *)
ResetZero(s) ==
  data' = [data EXCEPT ![s] = [j \in Slots |-> IF j < size[s] THEN Zero ELSE @[j]]]

\* Mutant of ResetSize: cursor_ is not reset.
ResetSizeKeepsCursor(s) ==
  /\ size' = [size EXCEPT ![s] = 0]
  /\ UNCHANGED cursor
  /\ fresh' = [fresh EXCEPT ![s] = {}]

(* reset(), the rest: size_ = 0; cursor_ = 0; sorted_ = false.             *)
ResetSize(s) ==
  /\ size' = [size EXCEPT ![s] = 0]
  /\ cursor' = [cursor EXCEPT ![s] = 0]
  /\ fresh' = [fresh EXCEPT ![s] = {}]

-----------------------------------------------------------------------------
(* Monitor.  Each pass of either loop checks should_stop_, prints the miss *)
(* ratio (PrintMissRatio) and calls PrintStepLat, which runs               *)
(* print_from_last_end on the hit set, then the other set.                 *)
MonLoop ==
  /\ mpc \in {"warm", "stable"}
  /\ mpc' = CASE shouldStop     -> IF mpc = "warm" THEN "gl_tail_hit" ELSE "exit"
              [] mpc = "warm"   -> "warm_stat"
              [] OTHER          -> "stable_stat"
  /\ UNCHANGED <<setVars, clientVars, shouldStop, hpc, ghostVars, statVars>>

(* Statistics::GetStat: load FAST_CACHE_HIT, CACHE_HIT and CACHE_MISS.     *)
GetStat == seen' = tickers

(* Statistics::ResetStat, called at the end of GetStat: tickers_[i] = 0    *)
(* and cursors_[i] = 0, plain stores after the loads.                      *)
ResetStat == tickers' = [k \in Ticks |-> 0]

(* The loop over the shards of PrintMissRatio, both overloads: GetStat on  *)
(* the shard, whose two statements are two steps; the miss ratio only      *)
(* feeds the free warm-up decision or is printed.                          *)
StatPc == [warm_stat |-> "warm_reset", warm_reset |-> "warm_hit",
           stable_stat |-> "stable_reset", stable_reset |-> "stable_hit"]

MissRatioStep(phases) ==
  /\ mpc \in phases
  /\ mpc' = StatPc[mpc]
  /\ \/ /\ mpc \in {"warm_stat", "stable_stat"}
        /\ GetStat
        /\ UNCHANGED tickers
     \/ /\ mpc \in {"warm_reset", "stable_reset"}
        /\ ResetStat
        /\ seen' = [k \in Ticks |-> 0]   \* GetStat's locals go out of scope
  /\ UNCHANGED <<setVars, clientVars, shouldStop, hpc, ghostVars>>

\* PrintMissRatio(miss_ratio), called by the warm-up loop.
PrintMissRatioWarm == MissRatioStep({"warm_stat", "warm_reset"})

\* PrintMissRatio(), called by the stable loop.
PrintMissRatioStable == MissRatioStep({"stable_stat", "stable_reset"})

StepPc == [warm_hit |-> "warm_other", warm_other |-> "warm_decide",
           stable_hit |-> "stable_other", stable_other |-> "stable"]
StepSet == [warm_hit |-> "hit", warm_other |-> "other",
            stable_hit |-> "hit", stable_other |-> "other"]

PrintStepLat ==
  /\ mpc \in DOMAIN StepPc
  /\ PrintFromLastEnd(StepSet[mpc])
  /\ mpc' = StepPc[mpc]
  /\ UNCHANGED <<size, data, clientVars, shouldStop, hpc, fresh, report, statVars>>

(* Warm-up: wait_count >= wait_stable_threshold breaks the loop; it       *)
(* depends on the measured miss ratios and sizes, so either may happen.   *)
MonDecide ==
  /\ mpc = "warm_decide"
  /\ mpc' \in {"warm", "gl_tail_hit"}
  /\ UNCHANGED <<setVars, clientVars, shouldStop, hpc, ghostVars, statVars>>


(* PrintGlobalLat: print_tail on both sets, then reset() on both; run by   *)
(* the monitor after the warm-up and by the main thread at the end.       *)
GlPhases == <<"gl_tail_hit", "gl_tail_other", "gl_zero_hit", "gl_size_hit",
              "gl_zero_other", "gl_size_other">>
GlStep(p) == CHOOSE i \in 1 .. Len(GlPhases) : GlPhases[i] = p
GlSet(p) == IF GlStep(p) \in {1, 3, 4} THEN "hit" ELSE "other"
GlAfter(p, last) == IF GlStep(p) = Len(GlPhases) THEN last ELSE GlPhases[GlStep(p) + 1]

PrintGlobalLat(p) ==
  \/ /\ GlStep(p) \in {1, 2}
     /\ PrintTail(GlSet(p))
     /\ UNCHANGED <<setVars, fresh, stepCount>>
  \/ /\ GlStep(p) \in {3, 5}
     /\ ResetZero(GlSet(p))
     /\ UNCHANGED <<size, cursor, ghostVars>>
  \/ /\ GlStep(p) \in {4, 6}
     /\ ResetSize(GlSet(p))
     /\ UNCHANGED <<data, stepCount, report>>

(* Monitor, between the loops: "first wait stable", PrintGlobalLat.       *)
MonGlobal ==
  /\ mpc \in Range(GlPhases)
  /\ PrintGlobalLat(mpc)
  /\ mpc' = GlAfter(mpc, "stable")
  /\ UNCHANGED <<clientVars, shouldStop, hpc, statVars>>

-----------------------------------------------------------------------------
\* Mutant of Stop: should_stop_ is never set.
StopNothing == UNCHANGED shouldStop

(* Main thread.  ConcurrentScalableCache::Stop: should_stop_ = true.       *)
Stop == shouldStop' = TRUE

(* Join every client, then cache_->Stop().                                 *)
JoinClients ==
  /\ hpc = "join_clients"
  /\ \A t \in Clients : cpc[t] = "done"
  /\ Stop
  /\ hpc' = "join_monitor"
  /\ UNCHANGED <<setVars, clientVars, mpc, ghostVars, statVars>>

JoinMonitor ==
  /\ hpc = "join_monitor" /\ mpc = "exit"
  /\ hpc' = "gl_tail_hit"
  /\ UNCHANGED <<setVars, clientVars, mpc, shouldStop, ghostVars, statVars>>

(* cache_->PrintGlobalLat(), then PrintStatus(), which only prints.       *)
MainGlobal ==
  /\ hpc \in Range(GlPhases)
  /\ PrintGlobalLat(hpc)
  /\ hpc' = GlAfter(hpc, "done")
  /\ UNCHANGED <<clientVars, mpc, shouldStop, statVars>>

Finished == hpc = "done" /\ UNCHANGED vars

ClientStep(t) == Request(t) \/ Claim(t) \/ Write(t) \/ ClientDone(t)
MonitorStep == MonLoop \/ PrintMissRatioWarm \/ PrintMissRatioStable \/ PrintStepLat \/ MonDecide \/ MonGlobal
MainStep == JoinClients \/ JoinMonitor \/ MainGlobal

Next == (\E t \in Clients : ClientStep(t)) \/ MonitorStep \/ MainStep \/ Finished

\* Every thread is an OS thread that runs while it has a step to take.
Fairness ==
  /\ \A t \in Clients : WF_vars(ClientStep(t))
  /\ WF_vars(MonitorStep)
  /\ WF_vars(MainStep)

Spec == Init /\ [][Next]_vars /\ Fairness

-----------------------------------------------------------------------------
(* Properties.                                                             *)

TypeOK ==
  /\ size \in [Sets -> 0 .. MaxSlots]
  /\ cursor \in [Sets -> 0 .. MaxSlots + 1]
  /\ \A s \in Sets : cursor[s] <= size[s] + 1
  /\ data \in [Sets -> [Slots -> Samples \cup {Zero}]]
  /\ cpc \in [Clients -> {"req", "claim", "write", "done"}]
  /\ sidx \in [Clients -> Slots]
  /\ stepCount \in [Samples -> Nat]
  /\ \A s \in Sets : fresh[s] \subseteq Samples
  /\ tickers \in [Ticks -> Nat] /\ seen \in [Ticks -> Nat]

(* No latency sample is counted in two step windows: the windows of one   *)
(* set never overlap, and a sample left in data_ by the warm-up is zeroed  *)
(* by reset() before a window of the measured phase can reach its slot,    *)
(* although clients keep claiming slots while reset() runs and write     *)
(* them after it.                                                          *)
NoSampleCountedTwice == \A x \in Samples : stepCount[x] <= 1

\* Main has run print_tail on set s and not yet reset it.
MainReported(s) ==
  /\ hpc \in Range(GlPhases)
  /\ GlStep(hpc) > (IF s = "hit" THEN 1 ELSE 2)
  /\ GlStep(hpc) <= (IF s = "hit" THEN 4 ELSE 6)

(* The final report, printed by Run after every client has been joined,   *)
(* holds exactly the samples the clients took into each set since the     *)
(* monitor's reset: "clear stat for next stage" before the measured phase. *)
FinalReportExact ==
  \A s \in Sets :
     MainReported(s) =>
       /\ Range(report[s]) = fresh[s]
       /\ Len(report[s]) = Cardinality(fresh[s])

(* Benchmark::Run returns: the clients finish, Stop ends the monitor's     *)
(* loops, and join() on the monitor returns.                               *)
RunCompletes == <>(hpc = "done")

=============================================================================
