---------------------------- MODULE MarsAdmission ----------------------------
(***************************************************************************)
(* The external admission controller of MARS: the main loop and            *)
(* _process_mars_submissions of experiments/openhands/run_task_workload.py.*)
(*                                                                         *)
(* The driver is one thread; pc says where in its loop it is.  Beside it   *)
(* run the admitted tasks, the tools and the engine, which it sees through *)
(* the futures, the tool pressure and the KV statistics.  Intervals that   *)
(* gate a refresh may or may not have elapsed, and a full reading of the   *)
(* statistics may be too old by the time it is needed.                     *)
(***************************************************************************)
EXTENDS WindowMath, Sequences, FiniteSets, Functions

CONSTANTS
    NumTasks,       \* the tasks are 1..NumTasks; a task's number is its seq
    Tokens,         \* prefill_tokens_est of every task
    LongThreshold,  \* mars_long_prefill_tokens; 0 means no task is long
    PoolSize,       \* mars_active_pool_size
    WindowMinArg,   \* mars_window_min
    WindowInitArg,  \* mars_window_init
    WindowInc,      \* mars_window_inc
    DecNum, DecDen, \* mars_window_dec_factor is DecNum / DecDen
    CpuCapArg,      \* ceil(num_workers * cpu_cap_ratio)
    NoKvLimit,      \* mars_no_kv_active_limit
    LongMax,        \* mars_long_max_inflight
    TailMax,        \* mars_tail_max_inflight
    TailPct,        \* mars_tail_kv_budget_ratio, in percent
    TargetPct,      \* mars_kv_target_ratio, in percent
    BlockSize,      \* block_size of the engine
    NumGpuBlocks,   \* num_gpu_blocks of the engine, the null block included
    FreeReadings    \* the numbers of free blocks the engine may report

Tasks == 1..NumTasks

ASSUME AdmissionAssumption ==
    /\ NumTasks \in Nat
    /\ Tokens \in [Tasks -> Nat]
    /\ LongThreshold \in Nat
    /\ PoolSize \in Nat \ {0}
    /\ WindowMinArg \in Int /\ WindowInitArg \in Int /\ WindowInc \in Nat
    /\ DecNum \in Nat /\ DecDen \in Nat \ {0} /\ DecNum <= DecDen
    /\ CpuCapArg \in Nat /\ NoKvLimit \in Int
    /\ LongMax \in Nat /\ TailMax \in Nat
    /\ TailPct \in 0..100 /\ TargetPct \in 10..99
    /\ BlockSize \in Nat \ {0}
    /\ NumGpuBlocks \in Nat /\ NumGpuBlocks > 1
    /\ FreeReadings \subseteq 0..(NumGpuBlocks - 1)

VARIABLES
    pc,            \* see PCs
    emitted,       \* next_index: tasks 1..emitted have arrived
    backlog,       \* backlog
    futures,       \* submitted tasks whose result is not collected
    done,          \* the futures that have completed
    pending,       \* pending_kv_blocks_by_request_id; 0 when absent
    window,        \* mars_active_limit
    cpu,           \* tool pressure in this call: "low", "mid" or "high"
    cpuOverloaded, \* mars_cpu_overloaded
    kv,            \* mars_kv_cached
    supported,     \* the server is not in _KV_CACHE_STATS_UNSUPPORTED_ROOTS
    lastFull,      \* mars_kv_last_full, NoStats once it is too old
    kvOverloaded,  \* mars_kv_overloaded
    mode,          \* selection_mode
    slots,         \* slots
    budget,        \* budget_remaining_sel
    remaining,     \* the candidates not looked at yet
    selected       \* selected

tasks == <<emitted, backlog, futures, done, pending>>
pressure == <<cpu, cpuOverloaded, kv, supported, lastFull, kvOverloaded>>
choice == <<mode, slots, budget, remaining, selected>>
vars == <<pc, tasks, window, pressure, choice>>

PCs == {"poll", "emit", "cpu", "telemetry", "window", "plan", "select", "fill",
        "commit", "check", "completed", "stopped"}
Modes == {"no_kv_short_only", "tail_kv_fit", "low_pressure_fcfs",
          "cpu_overloaded_long_first", "short_first"}

WindowMin == Clamp(1, PoolSize, WindowMinArg)
InitialWindow == Higher(WindowMin, Lower(WindowInitArg, PoolSize))
CpuCap == Clamp(WindowMin, PoolSize, CpuCapArg)

IsLong(t) == LongThreshold > 0 /\ Tokens[t] > LongThreshold
Cost(t) == BlocksFor(Tokens[t], BlockSize)

NoStats == [kind |-> "none", free |-> 0, usage |-> 0]
\* Statistics without block counts: a bare usage, or the endpoint's error text.
Partial == [kind |-> "partial", free |-> 0, usage |-> 0]
Full(f, u) == [kind |-> "full", free |-> f, usage |-> u]
Reliable == kv.kind = "full"

Usage(f) == PoolUsage(f, NumGpuBlocks)
UsageHigh == 100 * TargetPct
UsageLow == Higher(0, UsageHigh - 500)

Init ==
    /\ pc = "poll"
    /\ emitted = 0 /\ backlog = {} /\ futures = {} /\ done = {}
    /\ pending = [t \in Tasks |-> 0]
    /\ window = InitialWindow
    /\ cpu = "low" /\ cpuOverloaded = FALSE
    /\ supported = TRUE
    /\ kv = NoStats /\ lastFull = NoStats /\ kvOverloaded = FALSE
    /\ mode = "short_first" /\ slots = 0 /\ budget = 0
    /\ remaining = {} /\ selected = {}

-----------------------------------------------------------------------------
\* Mutant: completion forgets the reservation.
ReleaseNothing(ts) == UNCHANGED pending

\* _poll_runtime_state: collect what is done and give its reservation back.
Release(ts) == pending' = [t \in Tasks |-> IF t \in ts THEN 0 ELSE pending[t]]
Poll ==
    /\ pc = "poll"
    /\ futures' = futures \ done
    /\ done' = {}
    /\ Release(done)
    /\ pc' = "emit"
    /\ UNCHANGED <<emitted, backlog, window, pressure, choice>>

\* SIGTERM: the loop is left and nothing more is admitted.
StopRequested ==
    /\ pc = "emit"
    /\ pc' = "stopped"
    /\ UNCHANGED <<tasks, window, pressure, choice>>

\* A task's arrival time has passed.
Emit ==
    /\ pc = "emit"
    /\ emitted < NumTasks
    /\ emitted' = emitted + 1
    /\ backlog' = backlog \cup {emitted + 1}
    /\ UNCHANGED <<pc, futures, done, pending, window, pressure, choice>>

LeaveEmit ==
    /\ pc = "emit"
    /\ pc' = IF backlog = {} THEN "check" ELSE "cpu"
    /\ UNCHANGED <<tasks, window, pressure, choice>>

-----------------------------------------------------------------------------
\* Tool pressure, with hysteresis between the two thresholds.
ObserveCpu ==
    /\ pc = "cpu"
    /\ cpu' \in {"low", "mid", "high"}
    /\ cpuOverloaded' = IF cpuOverloaded THEN cpu' # "low" ELSE cpu' = "high"
    /\ pc' = "telemetry"
    /\ UNCHANGED <<tasks, window, kv, supported, lastFull, kvOverloaded, choice>>

\* The last full reading is usable while it is younger than mars_kv_max_stale_s.
StillFresh == {lastFull, NoStats}

\* /v1/kv_cache_stats answers in full.
FetchStats ==
    /\ pc = "telemetry"
    /\ supported
    /\ \E f \in FreeReadings :
          /\ kv' = Full(f, Usage(f))
          /\ lastFull' = kv'
    /\ pc' = "window"
    /\ UNCHANGED <<tasks, window, cpu, cpuOverloaded, supported, kvOverloaded, choice>>

\* It answers with an error text; mars_kv_last_full is not consulted.
FetchError ==
    /\ pc = "telemetry"
    /\ supported
    /\ kv' = Partial
    /\ pc' = "window"
    /\ UNCHANGED <<tasks, window, cpu, cpuOverloaded, supported, lastFull, kvOverloaded, choice>>

\* After a 404 or 501 it is never asked again.
NoAnswer == supported' \in {supported, FALSE}

\* It does not answer: /metrics gives the usage, merged into the last full
\* reading.  _fetch_metrics_gpu_cache_usage takes the gauge for a percentage.
FromGauge(u) == u \div 100
FetchMetrics ==
    /\ pc = "telemetry"
    /\ NoAnswer
    /\ \E f \in FreeReadings, known \in StillFresh :
          /\ kv' = IF known = NoStats THEN Partial ELSE [known EXCEPT !.usage = FromGauge(Usage(f))]
          /\ lastFull' = known
    /\ pc' = "window"
    /\ UNCHANGED <<tasks, window, cpu, cpuOverloaded, kvOverloaded, choice>>

\* Neither answers.
FetchNothing ==
    /\ pc = "telemetry"
    /\ NoAnswer
    /\ \E known \in StillFresh : kv' = known /\ lastFull' = known
    /\ pc' = "window"
    /\ UNCHANGED <<tasks, window, cpu, cpuOverloaded, kvOverloaded, choice>>

\* mars_kv_stat_interval_s has not elapsed.
KeepTelemetry ==
    /\ pc = "telemetry"
    /\ kv # NoStats
    /\ pc' = "window"
    /\ UNCHANGED <<tasks, window, pressure, choice>>

-----------------------------------------------------------------------------
\* kv_window_cap
KvCap ==
    IF Reliable THEN UsageCap(kv.usage, UsageLow, UsageHigh, WindowMin, PoolSize)
    ELSE Higher(1, Lower(NoKvLimit, PoolSize))

Reserve == GuardBlocks(NumGpuBlocks, TargetPct)
FreeBudget == Higher(0, kv.free - Reserve)

KvOverloadedNow ==
    \/ ~Reliable
    \/ kvOverloaded /\ kv.usage > UsageLow
    \/ ~kvOverloaded /\ kv.usage >= UsageHigh

\* Both sides look healthy.
Headroom(overloaded) ==
    /\ cpu = "low" /\ ~cpuOverloaded /\ ~overloaded
    /\ Reliable /\ kv.usage <= UsageLow /\ FreeBudget > 0

\* Multiplicative decrease, additive increase.
TargetWindow ==
    IF cpuOverloaded \/ KvOverloadedNow THEN (window * DecNum) \div DecDen
    ELSE IF Headroom(KvOverloadedNow) THEN window + WindowInc
    ELSE window

\* Mutant: the caps are applied without the floor.
NextWindowNoFloor == Lower(KvCap, Lower(CpuCap, Lower(PoolSize, TargetWindow)))

\* The pool and the two caps bound the target from above, the floor from below.
NextWindow ==
    Clamp(WindowMin, KvCap, Clamp(WindowMin, CpuCap, Clamp(WindowMin, PoolSize, TargetWindow)))

\* The KV hysteresis, and the window when mars_control_interval_s has elapsed.
ControlWindow ==
    /\ pc = "window"
    /\ kvOverloaded' = KvOverloadedNow
    /\ window' \in {window, NextWindow}
    /\ pc' = "plan"
    /\ UNCHANGED <<tasks, cpu, cpuOverloaded, kv, supported, lastFull, choice>>

-----------------------------------------------------------------------------
ActiveLimit == Lower(window, Lower(CpuCap, KvCap))
LongIn(ts) == {t \in ts : IsLong(t)}
Reserved == FoldFunction(+, 0, pending)
\* Mutant: there is no draining mode.
NoTailMode == FALSE
TailMode == Reliable /\ backlog # {} /\ LongIn(backlog) = backlog
TailBudget == (NumGpuBlocks * TailPct) \div 100
MaxLong == IF mode = "tail_kv_fit" THEN TailMax ELSE LongMax
Untracked == {t \in futures : pending[t] = 0}

SelectionMode(free) ==
    IF ~Reliable THEN "no_kv_short_only"
    ELSE IF TailMode THEN "tail_kv_fit"
    ELSE IF Headroom(kvOverloaded) /\ Cardinality(backlog) <= free THEN "low_pressure_fcfs"
    ELSE IF cpuOverloaded THEN "cpu_overloaded_long_first"
    ELSE "short_first"

\* Draining has its own limit, and one slot while an untracked task runs.
TailSlots(free) ==
    LET n == Lower(free, TailMax - Cardinality(LongIn(futures)))
    IN  IF Untracked # {} THEN Lower(n, 1) ELSE n

FreeSlots == ActiveLimit - Cardinality(futures)
Slots == IF TailMode THEN TailSlots(FreeSlots) ELSE FreeSlots

\* No slot: the call returns.
NoSlots ==
    /\ pc = "plan"
    /\ Slots <= 0
    /\ pc' = "check"
    /\ UNCHANGED <<tasks, window, pressure, choice>>

\* The rest of the call up to the selection loop.
Plan ==
    /\ pc = "plan"
    /\ Slots > 0
    /\ mode' = SelectionMode(FreeSlots)
    /\ slots' = Slots
    /\ budget' = Higher(0, (IF TailMode THEN TailBudget ELSE FreeBudget) - Reserved)
    /\ remaining' = backlog
    /\ pc' = "select"
    /\ UNCHANGED <<tasks, window, pressure, selected>>

\* The order of candidates.  A short task has fewer tokens than a long one.
Goes(a, b) ==
    IF mode \in {"tail_kv_fit", "low_pressure_fcfs"} THEN a <= b
    ELSE \/ Tokens[a] = Tokens[b] /\ a <= b
         \/ cpuOverloaded /\ Tokens[a] > Tokens[b]
         \/ ~cpuOverloaded /\ Tokens[a] < Tokens[b]
Candidate == CHOOSE t \in remaining : \A u \in remaining : Goes(t, u)

\* Mutant: the long tasks already in flight are not counted.
LongRoomInCall == Cardinality(LongIn(selected)) < MaxLong
LongRoom == Cardinality(LongIn(futures)) + Cardinality(LongIn(selected)) < MaxLong
\* Mutant: the budget is not consulted.
FitsAnyBudget(t) == IsLong(t) => Reliable /\ LongRoom
Fits(t) == IsLong(t) => Reliable /\ LongRoom /\ Cost(t) <= budget
Take(t) ==
    /\ selected' = selected \cup {t}
    /\ budget' = IF IsLong(t) THEN Higher(0, budget - Cost(t)) ELSE budget

\* One iteration of the selection loop; what does not fit is skipped.
Select ==
    /\ pc = "select"
    /\ remaining # {} /\ Cardinality(selected) < slots
    /\ remaining' = remaining \ {Candidate}
    /\ IF Fits(Candidate) THEN Take(Candidate) ELSE UNCHANGED <<selected, budget>>
    /\ UNCHANGED <<pc, tasks, window, pressure, mode, slots>>

\* The tail-fill pass follows, cheapest first.
LeaveSelect ==
    /\ pc = "select"
    /\ remaining = {} \/ Cardinality(selected) = slots
    /\ pc' = IF mode = "tail_kv_fit" /\ Cardinality(selected) < slots /\ budget > 0
                THEN "fill" ELSE "commit"
    /\ remaining' = backlog \ selected
    /\ UNCHANGED <<tasks, window, pressure, mode, slots, budget, selected>>

Cheapest == CHOOSE t \in remaining : \A u \in remaining :
                Cost(t) < Cost(u) \/ (Cost(t) = Cost(u) /\ t <= u)
Fill ==
    /\ pc = "fill"
    /\ remaining # {} /\ Cardinality(selected) < slots /\ LongRoom
    /\ remaining' = remaining \ {Cheapest}
    /\ IF Cost(Cheapest) <= budget THEN Take(Cheapest) ELSE UNCHANGED <<selected, budget>>
    /\ UNCHANGED <<pc, tasks, window, pressure, mode, slots>>

LeaveFill ==
    /\ pc = "fill"
    /\ remaining = {} \/ Cardinality(selected) = slots \/ ~LongRoom
    /\ pc' = "commit"
    /\ UNCHANGED <<tasks, window, pressure, choice>>

\* Selection's local variables die with the call.
ResetChoice ==
    /\ mode' = "short_first" /\ slots' = 0 /\ budget' = 0
    /\ remaining' = {} /\ selected' = {}

\* _submit_admitted_request for everything selected.
Commit ==
    /\ pc = "commit"
    /\ backlog' = backlog \ selected
    /\ futures' = futures \cup selected
    /\ pending' = [t \in Tasks |-> IF t \in LongIn(selected) THEN Cost(t) ELSE pending[t]]
    /\ ResetChoice
    /\ pc' = "check"
    /\ UNCHANGED <<emitted, done, window, pressure>>

\* The end of the loop body.
Check ==
    /\ pc = "check"
    /\ pc' = IF emitted = NumTasks /\ backlog = {} /\ futures = {} THEN "completed" ELSE "poll"
    /\ UNCHANGED <<tasks, window, pressure, choice>>

\* A task's worker returns.
Finish(t) ==
    /\ t \in futures \ done
    /\ done' = done \cup {t}
    /\ UNCHANGED <<pc, emitted, backlog, futures, pending, window, pressure, choice>>

-----------------------------------------------------------------------------
Telemetry == FetchStats \/ FetchError \/ FetchMetrics \/ FetchNothing \/ KeepTelemetry
Driver == \/ Poll \/ Emit \/ LeaveEmit \/ ObserveCpu \/ Telemetry \/ ControlWindow
          \/ NoSlots \/ Plan \/ Select \/ LeaveSelect \/ Fill \/ LeaveFill \/ Commit \/ Check
Over == pc \in {"completed", "stopped"} /\ UNCHANGED vars

Next == Driver \/ StopRequested \/ (\E t \in Tasks : Finish(t)) \/ Over

Spec == Init /\ [][Next]_vars

\* The driver loops, tasks arrive in time and end, and a statistics endpoint
\* asked again and again answers now and then; nothing else about pressure.
FairSpec ==
    /\ Spec
    /\ WF_vars(Driver) /\ SF_vars(Emit) /\ SF_vars(FetchStats)
    /\ \A t \in Tasks : WF_vars(Finish(t))

-----------------------------------------------------------------------------
Stats == [kind : {"none", "partial", "full"}, free : Nat, usage : Nat]

TypeOK ==
    /\ pc \in PCs
    /\ emitted \in 0..NumTasks
    /\ backlog \subseteq Tasks /\ futures \subseteq Tasks /\ done \subseteq futures
    /\ pending \in [Tasks -> Nat]
    /\ window \in WindowMin..PoolSize
    /\ cpu \in {"low", "mid", "high"} /\ cpuOverloaded \in BOOLEAN
    /\ kv \in Stats /\ lastFull \in Stats /\ kvOverloaded \in BOOLEAN
    /\ mode \in Modes /\ slots \in Nat /\ budget \in Nat
    /\ remaining \subseteq Tasks /\ selected \subseteq Tasks
    /\ supported \in BOOLEAN

\* A reservation stands exactly while its long task is in flight: completion
\* gives it back, and an admission never forgets to make it.
ReservationsExact == {t \in Tasks : pending[t] > 0} = LongIn(futures)

\* However stale the statistics and however the modes alternate, the blocks
\* reserved for long tasks in flight never exceed what the larger of the two
\* budgets allows.
ReservationsFit == Reserved <= Higher(TailBudget, NumGpuBlocks - 1 - Reserve)

\* Reservations are made and given back with their tasks, within the budgets,
\* whatever the window (which keeps to its own limits) and the statistics do.
ReservationsSound == TypeOK /\ ReservationsExact /\ ReservationsFit

\* Long tasks in flight stay within the larger of the two limits, and within
\* the ordinary one while short tasks are still waiting to come before them;
\* all tasks in flight stay within the pool.
InflightBounds ==
    /\ Cardinality(LongIn(futures)) <= Higher(LongMax, TailMax)
    /\ Cardinality(futures) <= PoolSize
    /\ pc = "commit" /\ backlog # LongIn(backlog) /\ LongIn(selected) # {} =>
          Cardinality(LongIn(futures \cup selected)) <= LongMax

\* Unless it is stopped, the run ends with every task's result collected; where
\* the endpoint was given up, long tasks that wait for full statistics may be left
\* over, and nothing else.
RunEnds ==
    <>(\/ pc \in {"completed", "stopped"}
       \/ /\ ~supported
          /\ emitted = NumTasks /\ futures = {} /\ LongIn(backlog) = backlog)
=============================================================================
