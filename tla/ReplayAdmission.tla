---------------------------- MODULE ReplayAdmission ----------------------------
(***************************************************************************)
(* The MARS admission of the replay driver (_fill_active_mars and the main *)
(* loop of main_async, experiments/replay/vllm_tool_baseline/              *)
(* run_experiment.py) together with the tool pool whose load it reads.     *)
(*                                                                         *)
(* The driver and the requests are coroutines of one event loop: a fill    *)
(* reads the pool's load, asks the engine for its KV statistics when the   *)
(* cached ones are too old, the only place where others may run, and then  *)
(* decides in one go.                                                      *)
(***************************************************************************)
EXTENDS ToolPool, WindowMath, Functions

CONSTANTS
    Workloads,      \* the possible prefill_tokens_est of the requests
    LongThreshold,  \* mars_long_prefill_tokens; 0 means no request is long
    PoolSize,       \* mars_active_pool_size
    WindowMinArg,   \* mars_window_min
    WindowInitArg,  \* mars_window_init
    WindowInc,      \* mars_window_inc
    DecNum, DecDen, \* mars_window_dec_factor is DecNum / DecDen
    CpuCapArg,      \* ceil(num_workers * cpu_cap_ratio)
    HighLoad,       \* the least number of tools in flight that is a high load
    LowLoad,        \* the largest one that is a low load
    LongPct,        \* mars_long_kv_ratio, in percent
    TargetPct,      \* mars_kv_target_ratio, in percent
    BlockSize,      \* block_size of the engine
    NumGpuBlocks,   \* num_gpu_blocks of the engine, the null block included
    FreeReadings,   \* the numbers of free blocks it may report while requests run
    StatsMayFail,   \* may the utility call get_kv_cache_stats fail
    LongCap         \* non_tail_long_cap

ASSUME ReplayAssumption ==
    /\ Requests = 1..Cardinality(Requests)
    /\ Workloads \subseteq [Requests -> Nat \ {0}]
    /\ LongThreshold \in Nat /\ PoolSize \in Nat \ {0}
    /\ WindowMinArg \in Int /\ WindowInitArg \in Int /\ WindowInc \in Nat
    /\ DecNum \in Nat /\ DecDen \in Nat \ {0} /\ DecNum <= DecDen
    /\ CpuCapArg \in Nat /\ LowLoad \in Nat /\ HighLoad \in Nat
    /\ LongPct \in 0..100 /\ TargetPct \in 10..99
    /\ BlockSize \in Nat \ {0} /\ NumGpuBlocks \in Nat /\ NumGpuBlocks > 1
    /\ FreeReadings \subseteq 0..(NumGpuBlocks - 1)
    /\ StatsMayFail \in BOOLEAN /\ LongCap \in Nat

VARIABLES
    tokens,        \* prefill_tokens_est of every request
    pc,            \* "emit", "kv", "fetch", "loop", "pause" or "done"
    arrived,       \* i: requests 1..arrived have arrived
    emitDone,      \* emit_done
    backlog,       \* mars_backlog
    pending,       \* pending: the launched requests that are not drained
    kvOf,          \* pending_kv_blocks_by_task; 0 when absent
    kvTotal,       \* pending_kv_blocks_total
    window,        \* mars_active_limit
    cpuLow,        \* cpu_healthy_for_growth in this fill
    cpuOverloaded, \* mars_cpu_overloaded
    free,          \* num_free_blocks of mars_kv_cached, -1 when that is None
    kvOverloaded,  \* mars_kv_overloaded
    shortEmpty,    \* mars_short_empty_since_mono is not None
    tailPhase,     \* mars_tail_phase
    tailBudget     \* mars_tail_kv_budget_blocks_cached, 0 when None

books == <<backlog, pending, kvOf, kvTotal>>
control == <<window, cpuLow, cpuOverloaded, free, kvOverloaded, shortEmpty, tailPhase, tailBudget>>
replayVars == <<tokens, poolVars, pc, arrived, emitDone, books, control>>

WindowMin == Clamp(1, PoolSize, WindowMinArg)
InitialWindow == Higher(WindowMin, Lower(WindowInitArg, PoolSize))
CpuCap == Clamp(WindowMin, PoolSize, CpuCapArg)
IsLong(r) == LongThreshold > 0 /\ tokens[r] > LongThreshold
LongIn(rs) == {r \in rs : IsLong(r)}
Cost(r) == BlocksFor(tokens[r], BlockSize)
CostOf(rs) == FoldFunctionOnSet(+, 0, [r \in Requests |-> Cost(r)], rs)
UsageHigh == 100 * TargetPct
UsageLow == Higher(0, UsageHigh - 500)

ReplayInit ==
    /\ tokens \in Workloads
    /\ PoolInit
    /\ pc = "emit" /\ arrived = 0 /\ emitDone = FALSE
    /\ backlog = {} /\ pending = {}
    /\ kvOf = [r \in Requests |-> 0] /\ kvTotal = 0
    /\ window = InitialWindow
    /\ cpuLow = TRUE /\ cpuOverloaded = FALSE
    /\ free = -1 /\ kvOverloaded = FALSE
    /\ shortEmpty = FALSE /\ tailPhase = FALSE /\ tailBudget = 0

-----------------------------------------------------------------------------
\* Mutant: a request that waits for its tool is taken for one that has ended.
FinishedOrWaiting == {r \in pending : turn[r] # "gpu"}
Finished == {r \in pending : turn[r] = "done"}

\* Mutant: the total is not reduced.
KeepTotal(rs) == kvTotal
TotalWithout(rs) == kvTotal - FoldFunctionOnSet(+, 0, kvOf, rs)

\* _drain_done, and the first part of _fill_active_mars: the pool's stats() and
\* the hysteresis of the tool pressure.  There is never an average queue wait.
DrainAndReadLoad ==
    /\ pending' = pending \ Finished
    /\ kvTotal' = TotalWithout(Finished)
    /\ kvOf' = [r \in Requests |-> IF r \in Finished THEN 0 ELSE kvOf[r]]
    /\ cpuLow' = (Cardinality(futures) <= LowLoad)
    /\ cpuOverloaded' = IF cpuOverloaded THEN Cardinality(futures) > LowLoad
                                         ELSE Cardinality(futures) >= HighLoad
    /\ pc' = "kv"
    /\ UNCHANGED <<poolVars, window, free, kvOverloaded, shortEmpty, tailPhase, tailBudget>>

\* The next request arrives: _mars_enqueue.
Arrive ==
    /\ pc = "emit"
    /\ arrived < Cardinality(Requests)
    /\ arrived' = arrived + 1
    /\ backlog' = backlog \cup {arrived + 1}
    /\ DrainAndReadLoad
    /\ UNCHANGED emitDone

EmitDone ==
    /\ pc = "emit"
    /\ arrived = Cardinality(Requests)
    /\ emitDone' = TRUE
    /\ pc' = "loop"
    /\ UNCHANGED <<poolVars, arrived, books, control>>

\* while mars_backlog or pending
Loop ==
    /\ pc = "loop"
    /\ backlog # {} \/ pending # {}
    /\ DrainAndReadLoad
    /\ UNCHANGED <<arrived, emitDone, backlog>>

LeaveLoop ==
    /\ pc = "loop"
    /\ backlog = {} /\ pending = {}
    /\ pc' = "done"
    /\ UNCHANGED <<poolVars, arrived, emitDone, books, control>>

Waits == pending # {} /\ (Cardinality(pending) >= window \/ backlog = {})

\* Waits for the first completion if nothing can be admitted before it.
Pause ==
    /\ pc = "pause"
    /\ Waits => Finished # {}
    /\ pc' = "loop"
    /\ UNCHANGED <<poolVars, arrived, emitDone, books, control>>

-----------------------------------------------------------------------------
(* The KV statistics *)

Launched == {r \in Requests : turn[r] \in {"gpu", "tool"}}

\* What the engine reports while no request is launched is an empty cache.
Readings ==
    (IF Launched = {} THEN {NumGpuBlocks - 1} ELSE FreeReadings)
        \cup (IF StatsMayFail THEN {-1} ELSE {})

Fetch ==
    /\ pc = "kv"
    /\ free' \in Readings
    /\ pc' = "fetch"
    /\ UNCHANGED <<poolVars, arrived, emitDone, books, window, cpuLow, cpuOverloaded,
                   kvOverloaded, shortEmpty, tailPhase, tailBudget>>

\* kv_stats, and budget_blocks; a reading of no free blocks counts as none.
HasStats == free # -1
HasBudget == free > 0
Guard == GuardBlocks(NumGpuBlocks, TargetPct)
Budget == Higher(0, free - Guard)
Usage == PoolUsage(free, NumGpuBlocks)

-----------------------------------------------------------------------------
(* The window *)

KvCap == IF HasStats THEN UsageCap(Usage, UsageLow, UsageHigh, WindowMin, PoolSize) ELSE PoolSize

KvOverloadedNow ==
    IF ~HasStats THEN kvOverloaded
    ELSE IF kvOverloaded THEN Usage > UsageLow ELSE Usage >= UsageHigh

Headroom ==
    /\ cpuLow /\ ~cpuOverloaded /\ ~KvOverloadedNow
    /\ HasStats => Usage <= UsageLow
    /\ HasBudget => Budget > 0

TargetWindow ==
    IF cpuOverloaded \/ KvOverloadedNow THEN (window * DecNum) \div DecDen
    ELSE IF Headroom THEN window + WindowInc
    ELSE window

\* Mutant: the window may shrink to nothing.
NextWindowNoFloor == Lower(KvCap, Lower(CpuCap, Lower(PoolSize, TargetWindow)))
NextWindow ==
    Clamp(WindowMin, KvCap, Clamp(WindowMin, CpuCap, Clamp(WindowMin, PoolSize, TargetWindow)))

-----------------------------------------------------------------------------
(* Whom to admit, with a window of w *)

TailMode == emitDone /\ backlog # {} /\ LongIn(backlog) = backlog

FreeSlots(limit) == Higher(0, limit - Cardinality(pending))
Untracked == {r \in pending : kvOf[r] = 0}
Slots(w) ==
    IF ~TailMode THEN FreeSlots(Lower(w, Lower(CpuCap, KvCap)))
    ELSE Lower(FreeSlots(PoolSize), IF Untracked # {} THEN 1 ELSE PoolSize)

\* Needle insertion: may long requests be admitted before the tail?  The time
\* without short ones counts from the fill that first saw none.
MayInsertLong(elapsed) ==
    /\ LongIn(backlog) = backlog
    /\ ~KvOverloadedNow
    /\ pending = {} \/ (shortEmpty /\ elapsed)
LongAllowed(elapsed) ==
    IF MayInsertLong(elapsed) THEN Higher(0, LongCap - Cardinality(LongIn(pending))) ELSE 0

ByArrival(a, b) == a < b
SmallFirst(a, b) == tokens[a] < tokens[b] \/ (tokens[a] = tokens[b] /\ a < b)
LargeFirst(a, b) == tokens[a] > tokens[b] \/ (tokens[a] = tokens[b] /\ a < b)

\* The place of every candidate in an order of the backlog.
Places(before(_, _)) == [r \in backlog |-> Cardinality({q \in backlog : before(q, r)}) + 1]

\* The candidates in their order, taken while they fit: at most slots of them,
\* longs of them long, and blocks in all.
Greedy(place, slots, longs, blocks) ==
    LET Fits(sel, r) ==
            /\ Cardinality(sel) < slots
            /\ IsLong(r) => Cardinality(LongIn(sel)) < longs
            /\ CostOf(sel \cup {r}) <= blocks
        taken[i \in 0..Cardinality(backlog)] ==
            IF i = 0 THEN {}
            ELSE taken[i - 1] \cup {r \in backlog : place[r] = i /\ Fits(taken[i - 1], r)}
    IN  taken[Cardinality(backlog)]
Ample == CostOf(Requests)

\* Everything fits under light load; else large ones go first while the tools
\* are overloaded and small ones otherwise.
Selection(slots, elapsed) ==
    LET blocks == IF HasBudget THEN Budget ELSE Ample
        all == Cardinality(backlog)
    IN  IF Headroom /\ all <= slots
        THEN Greedy(Places(ByArrival), slots, LongAllowed(elapsed), blocks)
        ELSE IF cpuOverloaded
        THEN Greedy(Places(LargeFirst), slots, all, blocks)
        ELSE Greedy(Places(SmallFirst), slots, LongAllowed(elapsed), blocks)

RatioBlocks == Higher(1, (free * LongPct) \div 100)
TailBudgetNow == IF HasBudget /\ LongPct > 0 THEN RatioBlocks ELSE tailBudget

TailBudgetLeft == Higher(0, TailBudgetNow - kvTotal)

\* The first of an order, when no long request that is in the books is in flight:
\* one that was launched without statistics is not.
FirstIfNoneTracked(place) == {r \in backlog : kvTotal <= 0 /\ place[r] = 1}

\* Tail mode: what fits of the rest of the budget; a single request when there is
\* no budget, or when nothing fits.
TailSelection(slots) ==
    IF ~HasStats \/ TailBudgetNow = 0 THEN FirstIfNoneTracked(Places(SmallFirst))
    ELSE LET fit == Greedy(Places(ByArrival), slots, slots, TailBudgetLeft)
         IN  IF fit # {} THEN fit ELSE FirstIfNoneTracked(Places(ByArrival))

Selected(slots, elapsed) ==
    IF slots = 0 THEN {} ELSE IF TailMode THEN TailSelection(slots) ELSE Selection(slots, elapsed)

\* _launch for everything selected.  Only long requests of known cost are tracked.
Admit(rs) ==
    /\ Launch(rs)
    /\ backlog' = backlog \ rs
    /\ pending' = pending \cup rs
    /\ \E tracked \in {IF HasStats THEN LongIn(rs) ELSE {}} :
          /\ kvOf' = [r \in Requests |-> IF r \in tracked THEN Cost(r) ELSE kvOf[r]]
          /\ kvTotal' = kvTotal + CostOf(tracked)

\* The rest of _fill_active_mars.  The window moves when mars_control_interval_s
\* has elapsed; mars_short_empty_since_mono only when there are slots.
Fill ==
    /\ window' \in {window, NextWindow}
    /\ kvOverloaded' = KvOverloadedNow
    /\ tailPhase' = (tailPhase \/ TailMode)
    /\ tailBudget' = IF TailMode /\ ~tailPhase /\ HasBudget /\ LongPct > 0
                     THEN RatioBlocks ELSE tailBudget
    /\ \E slots \in {IF backlog = {} THEN 0 ELSE Slots(window')}, elapsed \in BOOLEAN :
          /\ Admit(Selected(slots, elapsed))
          /\ shortEmpty' = IF slots = 0 THEN shortEmpty ELSE LongIn(backlog) = backlog
    /\ pc' = IF emitDone THEN "pause" ELSE "emit"
    /\ UNCHANGED <<arrived, emitDone, cpuLow, cpuOverloaded, free>>

\* mars_kv_stat_interval_s has not elapsed.
FillCached == pc = "kv" /\ HasStats /\ Fill
FillFetched == pc = "fetch" /\ Fill

-----------------------------------------------------------------------------
ReplayDriver == Arrive \/ EmitDone \/ Loop \/ LeaveLoop \/ Pause \/ Fetch \/ FillCached \/ FillFetched

\* Coroutines run while the driver awaits, threads and processes at any time.
Beside == UNCHANGED <<tokens, pc, arrived, emitDone, books, control>>
PoolTurn ==
    /\ PoolStep \/ (pc = "done" /\ ShutDown)
    /\ pc = "kv" => UNCHANGED clients
    /\ Beside

Ended == pc = "done" /\ down = "down" /\ UNCHANGED replayVars

ReplayNext == (ReplayDriver \/ PoolTurn \/ Ended) /\ UNCHANGED tokens

ReplaySpec == ReplayInit /\ [][ReplayNext]_replayVars

\* The event loop lets everyone have a turn, the statistics get too old at some
\* time, and every tool ends.
FairReplay ==
    /\ ReplaySpec
    /\ WF_replayVars(ReplayDriver /\ UNCHANGED tokens) /\ SF_replayVars(Fetch /\ UNCHANGED tokens)
    /\ \A r \in Requests : SF_replayVars(pc # "kv" /\ Coroutine(r) /\ Beside)
    /\ \A r \in Requests : SF_replayVars(pc # "kv" /\ Timeout(r) /\ Beside)
    /\ \A w \in Workers : WF_replayVars(Worker(w) /\ Beside)
    /\ \A t \in Calls : WF_replayVars(ProcExit(t) /\ Beside)
    /\ WF_replayVars(Collect /\ Beside)

-----------------------------------------------------------------------------
ReplayTypeOK ==
    /\ pc \in {"emit", "kv", "fetch", "loop", "pause", "done"}
    /\ arrived \in 0..Cardinality(Requests) /\ emitDone \in BOOLEAN
    /\ backlog \subseteq Requests /\ pending \subseteq Requests
    /\ kvOf \in [Requests -> Nat] /\ kvTotal \in Nat
    /\ window \in WindowMin..PoolSize
    /\ {cpuLow, cpuOverloaded, kvOverloaded, shortEmpty, tailPhase} \subseteq BOOLEAN
    /\ free \in -1..(NumGpuBlocks - 1)
    /\ tailBudget \in Nat

\* No request is lost or launched twice between the arrivals, the backlog, the
\* event loop's tasks and the drain, and those in flight fit the pool.
EveryRequestOnce ==
    /\ backlog = {r \in 1..arrived : turn[r] = "new"}
    /\ Launched \subseteq pending
    /\ \A r \in pending : turn[r] # "new"
    /\ Cardinality(pending) <= PoolSize

\* The running total of the blocks of long requests in flight is what the
\* requests in flight add up to, through launches, completions and drains.
KvTotalExact ==
    /\ kvTotal = FoldFunction(+, 0, kvOf)
    /\ {r \in Requests : kvOf[r] > 0} \subseteq LongIn(pending)

\* What the driver keeps about the requests in flight is true, across the await
\* in the middle of a fill too.
BooksExact == ReplayTypeOK /\ EveryRequestOnce /\ KvTotalExact

WithinTailBudget(rs) == HasStats /\ CostOf(rs) <= TailBudgetLeft

\* "admit at most one long request at a time ... avoid long-long interference":
\* in tail mode a long request that no budget covers starts only when no other
\* long request is in flight.
TailLongAlone ==
    [][TailMode /\ LongIn(pending' \ pending) # {} /\ ~WithinTailBudget(pending' \ pending)
           => LongIn(Launched) = {}]_replayVars

\* Every request is admitted and answered, and the driver comes to its end: also
\* when the worker is killed with a tool in its hands, when the statistics are
\* missing or show no free block, and for a long request above the tail's budget.
ReplayEnds == <>(pc = "done")
=============================================================================
