# A verification project for MARS

MARS serves agent workloads on a modified vLLM. An *external admission
controller* decides which root workflows may enter the engine; an
*agent-centric scheduler* inside the engine orders, chunks, preempts and
resumes their requests; a *paged KV cache* is the resource both compete for.
The repository also carries the systems MARS is compared with (Continuum,
InferCept, Autellix, LightLLM and CONCUR), a replay driver with its own tool
pool, and vLLM's data-parallel mode.
This directory holds TLA+ modules of these parts, TLC configurations that check
them on small instances, and TLAPS proofs of the main safety properties for
every instance. `PROJECT.json` lists every definition with the source lines it
models, every run, every property with a mutant that breaks it, the hazards the
properties are aimed at, and the theorems.

Paths below are relative to `src/`; `sched/` stands for
`vllm-continuum/vllm/v1/core/sched/`.

## 1. Inventory

| Component | State | Operations | Hard behaviour |
|---|---|---|---|
| MARS waiting queue (`sched/request_queue.py`) | binary heap, dictionaries of requests, versions and keys, two counters | add, prepend, peek, pop, remove | lazy deletion: removed requests stay in the heap and are told apart by a version that restarts |
| Agent-centric scheduler (`sched/scheduler.py`) | running list, waiting queue, overflow list, per-request level and last service, token counters, finished ids | `add_request`, `finish_requests`, `schedule`, `update_from_output` | preemption while the running list is being walked, elastic chunks, aborts anywhere, outputs that arrive after a preemption |
| Engine core loop (`vllm/v1/engine/core.py`) | input queue, batch queue | busy loop, `step`, `step_with_batch_queue` | several batches in flight, client messages between them |
| KV cache (`vllm/v1/core/block_pool.py`, `kv_cache_manager.py`, `single_type_kv_cache_manager.py`, `kv_cache_utils.py`) | block tables, reference counts, free queue, hash map | lookup, allocate, touch, evict, cache, free, reset | blocks shared, freed, evicted and handed out again; hashes are published when a step is scheduled, keys and values written when it is executed |
| Continuum and InferCept retention (`sched/scheduler.py`, `ContinuumRequestQueue`) | pins with their ends, blocks of finished turns | pin, expire, use, forced unpin, preemption | a pinned request is no longer a request, yet holds blocks; expiry, forced release and the job's next turn may meet in one step |
| LightLLM (`sched/lightllm_policy.py` and branches of `sched/scheduler.py`) | deferred candidates with held blocks, estimate of output lengths | preview, admission by peak tokens, prefill or decode step | blocks are looked up in the preview and used after others have allocated |
| Autellix (branches of `sched/scheduler.py`, `AutellixRequestQueue`) | deques by level, service and wait of programs, quanta | demote, promote, preempt, switch to FCFS | the waiting queue is replaced in the middle of a run |
| External admission controller (`experiments/openhands/run_task_workload.py`) | backlog, futures, window, telemetry cache, pressure flags, reservations | poll, emit, refresh, window control, select, commit | stale, partial and missing telemetry, an endpoint that is given up, limits that change with the mode while tasks are in flight |
| CONCUR controller (same file, and `experiments/agent_cli/backend_proxy.py`) | active and paused agents, their order, window, gate files | AIMD control, pause, resume, admit, complete | agents run beside the driver and block at their gates while they hold a thread |
| Task driver (same file) | thread pool, worker processes, traces, signal flag | submit, supervise, time out, record, shut down, summarise | processes that outlive their leader, signals at any point, writes that fail half way |
| Replay driver (`experiments/replay/vllm_tool_baseline/run_experiment.py`) | backlog, asyncio tasks, cached statistics, reserved blocks, window | emit, drain, fill, tail fill | a fill reads the load, awaits the statistics and decides with what it has read |
| Tool pool (`tool_pool.py`, `tool_worker.py` there) | task and result queues, futures, workers | submit, execute, collect, time out, shut down | a killed worker takes its task with it; answers after the time-out |
| Data parallelism (`vllm/v1/engine/core.py`, `coordinator.py`, `core_client.py`) | wave numbers, running flags, messages under way | send, wake up, step together, end a wave | requests that arrive with an old wave number, messages of three parties that overtake each other |
| The rest | | | section 8 |

**Interaction.** The controller submits a task to a thread pool; its worker
starts an agent, which sends requests to the engine through a proxy. The engine
core thread alternates between client messages, `schedule()` and
`update_from_output()`; the workers (GPU processes) receive the scheduler's
output. The controller reads the cache's free blocks back over HTTP. The MARS
controller holds tasks outside; the CONCUR controller also pauses admitted
agents by deleting the file their proxy waits for. The replay driver does
without agents: its coroutines alternate between the engine and the tool pool.

**What makes the parts correct.** A live request is in exactly one queue;
blocks are conserved and cover every computed token; a step's token accounting
survives preemption; workers know the requests they are sent; the window
bounds the active set; every request is answered. In the cache, reference
counts are exact, nobody reads another request's keys and values, and what a
lookup finds has been computed; pins and holds count as references, keep what
they are for, and are given back. In the
controllers, books, gates and futures agree, reservations are returned and stay
within the budget, the window reacts to pressure, and the run ends. In the
drivers, a time-out ends its request, the run ends, and a summary is true. Data-parallel
engines meet in the same collective and none waits alone.

## 2. Modules

| Module | Models | Notes |
|---|---|---|
| `QueueOrder` | list removal, filtering, sorting and insertion by level | shared by the scheduler, the queue specification, the KV cache, CONCUR, Autellix and LightLLM |
| `MarsQueueSpec` | what the waiting queue promises | abstract: a sequence ordered by level, FIFO within a level, prepended requests first |
| `MarsRequestQueue` | the heap with lazy deletion | `ImplementsQueue` is refinement of `MarsQueueSpec`, with `q <- Iter` |
| `MarsScheduler` | the MARS policy and the engine core loop | one action per iteration of each loop of `schedule()`; `pc` says where the engine is |
| `KVCache` | prefix caching | block hashes are token prefixes; `assigned`, `due` and `blank` are histories of what blocks are for and whether it is written |
| `PinnedKV` | Continuum and InferCept retention | composes the scheduler's loops with the cache: `EXTENDS KVCache` |
| `LightLLM` | the LightLLM policy | likewise over `KVCache` |
| `Autellix` | the Autellix policy and its switch to FCFS | a request's cache is a number of blocks |
| `ConcurAdmission` | CONCUR controller, thread pool, gates, agents | driver and agents interleave |
| `WindowMath` | rounding, window caps, block estimates | shared by the two MARS admission loops |
| `MarsAdmission` | MARS controller with its telemetry | |
| `TaskDriver` | the driver loop around worker processes | admission left to the two modules above |
| `ToolPool` | the tool pool and the requests that use it | actions only; composed by the next module |
| `ReplayAdmission` | the replay driver with the tool pool | `EXTENDS ToolPool` |
| `DPWaves` | front ends, coordinator and engines of data parallelism | one sequence of messages per connection |
| `MC...` | constants for TLC | |
| `CollectionLemmas` | lemmas about lists, their order, filtering and sorting, sums, recursion and choices | section 6 |
| `MarsSchedulerProofs`, `MarsAdmissionProofs`, `DPWavesProofs` | theorems about the module of that name | section 6 |
| `WaitingQueueProofs` | theorems about `MarsRequestQueue` and `Autellix` | section 6 |
| `KVCacheProofs` | theorems about `KVCache` and `PinnedKV` | section 6 |
| `BaselineProofs` | theorems about `ConcurAdmission` and `LightLLM` | `LightLLM` through an instance of `KVCacheProofs` |
| `DriverProofs` | theorems about `TaskDriver`, `ToolPool` and `ReplayAdmission` | section 6 |

### `MarsScheduler`

`pc` is `"input"` between calls, `"admit"`, `"running"`, `"alloc"`, `"waiting"`,
`"walloc"` and `"commit"` inside `schedule()`, and `"output"` inside
`update_from_output()`. Client messages are handled at `"input"` only: the
engine core is one thread. What runs beside it is the clock (`Elapsed`, the ticks between two
calls), grammar compilation (`GrammarReady`) and the workers, whose result is
there, or not yet there, when a batch has been handed over (`EndSchedule`).

| Actions | Code |
|---|---|
| `AddRequest`, `FinishRequest` | `add_request`, `finish_requests` with `_free_request` and `_free_blocks` |
| `BeginSchedule`, `AdmitOverflow`, `ReorderRunning` | prologue, `_mars_admit_overflow`, `_mars_reorder_running` |
| `PickRunning`, `ScheduleRunning`, `ShrinkRunning`, `PreemptRunning`, `LeaveRunningLoop` | the RUNNING loop: token count, allocation, elastic chunk, victim choice |
| `PickWaiting`, `SkipWaiting`, `ShrinkWaiting`, `BlockedWaiting`, `ScheduleWaiting`, `LeaveWaitingLoop` | the WAITING loop |
| `EndSchedule` | skipped requests put back, `_update_after_schedule`, batch handed over, workers' `_update_states` |
| `DrainBatches`, `IgnoreOutput`, `AppendOutput`, `StopOutput`, `EndOutput` | the batch queue and `update_from_output` |

The waiting queue is the sequence `MarsQueueSpec` describes; the run `queue`
shows that the heap implements it. A request's cache is a number of blocks,
since prefix caching is off in this module; `KVCache` models it on its own.
Ages are clock ticks capped at `MaxAge`, from where every level is boosted to
0; requests at the cap may be reordered either way. A stop token is a
nondeterministic choice (`StopOutput` is enabled for every sampled token,
`AppendOutput` only while the length limits allow it).

### `KVCache`

One action allocates slots for a request up to a chosen token count
(`ScheduleNew` with a prefix lookup, `ScheduleMore` without), one frees a
request's blocks, one resets the prefix cache. `AllocateSlots` is
`KVCacheManager.allocate_slots` with everything it calls: touch, pop from the
free queue, eviction of the popped blocks' hashes, caching of full blocks.
Token sequences are complete from the start (`Content`): a generated token is
the next token of the sequence.

Allocation gives full blocks their hashes, but the keys and values are written
when the workers execute the step (`Execute`, the external `execute_model`).
`assigned` is what a block is to hold, `due` the blocks that the step being
scheduled will write, and `blank` those given up before that. `CacheSpec` frees a
request at any time. `OrderlySpec` adds the discipline that the cache leaves to
the scheduler, `FreesWritten`: a request with slots in the step being scheduled is
not freed before the step is executed. FCFS, InferCept and LightLLM keep to it,
because they preempt the last running request and never one that this step has
scheduled. PRIORITY, MARS, Autellix and Continuum choose among all that run, and
do not; `PinnedKV_unwritten.cfg` (section 3) shows what follows.

### The other policies: `PinnedKV`, `LightLLM`, `Autellix`

They follow the same loops as `MarsScheduler`, with one batch at a time, so
that `schedule()` and `update_from_output()` alternate; structured requests,
whose grammar may not be ready, are left to `MarsScheduler`.

* `PinnedKV`. `RetainOrFree` is the decision of `_free_request` and
  `pin_request`; `UnpinExpired` runs at the beginning of `schedule()`,
  `ReleasePin` is the preemption of a pinned turn through
  `pop_running_request_based_on_last_step`, `BlockedWaiting` the forced release
  of a pin for a waiting request. How long a pin lasts comes from the tool call
  estimator, which is not modelled: any time up to `MaxHold`, or no pin. Time
  passes between calls only (`Tick`). Which policy is in force (`continuum`) is
  chosen in the initial state, so one run covers both. The number of tokens to
  allocate for (`attempt`) is fixed when a running request is picked; a preemption
  that gives tokens back to the budget does not enlarge it. `EndSchedule` includes
  the execution of the step.
* `LightLLM`. `AdmitCandidate` previews one candidate: `PeakTokens` is the peak
  estimate, `Reserve` the blocks held for a prefix hit. `Packed` and
  `EndPreview` choose the class of the step; `ScheduleWaiting` gives the hold
  back and allocates (a failed allocation holds again, so nothing changes).
  The branch for a stale preview is unreachable, which `HeldPrefixIntact`
  shows; it has no action. The average of output lengths may move
  to any value between the old one and the observed one. `IgnoreEos` are the
  requests whose estimate is their limit.
* `Autellix`. Service and wait are counted in tokens and steps. Steps of a program
  are sent one after the other (`Previous`), the last one (`LastSteps`) when its
  others are over. `Abort` has a parameter for whether the request carried a tool
  call when it ended.

### `ConcurAdmission` and `MarsAdmission`

The driver's main loop is `"poll"`, `"emit"`, the controller's call, and
`"check"`. The wait at the end of the loop body collects futures just as the
next poll does and is not a step of its own. Intervals between refreshes of
telemetry or window are not timed: a refresh may or may not happen in a call.
CONCUR's window may hold, grow or shrink in each call, whatever the telemetry
says, so its properties hold for every telemetry; a worker may fail or be killed
at its gate, in a model request or between two (`WorkerFails`). `MarsAdmission` keeps the
telemetry, because its modes and budgets depend on it: the endpoint answers in
full, with an error text, or not at all, and may at any fetch answer so that it
is never asked again (`supported`); then `/metrics` may answer, and a full
reading may or may not still be fresh enough to be reused.

### `TaskDriver`

A task is a future, a thread's place in `_run_request_subprocess` (`stage`), the
worker that leads a process group, and its descendants. These are of four kinds:
in the worker's group or in a session of their own, with the worker's standard
output or with their own (`Kinds`). `communicate()` returns when the worker has
ended and nobody holds its output. The time-out sends SIGTERM to the group, which
worker and descendants may heed or ignore, and SIGKILL only if the *leader* is
still there after the grace period. `CollectFails` is an exception while records
are written: some of them are, and the set of futures is not reassigned. At the
end the interpreter joins the pool's threads, as `concurrent.futures` does; the
signal handlers have been restored before, so that a further signal then kills
the driver and leaves the workers to themselves (`SignalAtExit`).

### `ToolPool` and `ReplayAdmission`

Coroutines of one event loop: between two awaits nothing else runs, so a fill
is one action when its statistics are cached (`FillCached`) and two (`Fetch`,
`FillFetched`) when it has to await them. Beside the event loop run the worker
processes (or, with `thread_pool`, one process per task) and the collector
thread. A time-out may expire whenever a request waits for a tool; a worker may
be killed (`WorkerCrash`), a tool process may exit without a result. The mode of
the pool and the sizes of the requests are chosen in the initial state. As in the
code, only a long request that is launched with statistics enters the books
(`kvOf`, `kvTotal`), and the tail's test for long requests in flight reads the
books (`FirstIfNoneTracked`).

### `DPWaves`

A forward pass and the all-reduce that ends a wave are collectives: `Forward`
and `Reduce` need every engine. Connections keep their order (ZMQ), nothing more.
The exclusion of an engine from a wake-up call is modelled as the code does it;
see deviation 8.

## 3. Runs

Times are for two to four workers on an ordinary machine.

| Run | Result | States | Time | What it shows |
|---|---|---|---|---|
| `queue` | pass | 134,695 | seconds | reachability of every queued request and refinement of the ordered queue, with aborts, prepends and stale entries; ids are added once |
| `scheduler` | pass | 507,014 | 140 s | all safety properties of the scheduler with two batches in flight, and that every request is answered or aborted |
| `scheduler_starvation` | violation | | seconds | two prefills evict each other for ever |
| `kvcache` | pass | 245,651 | 115 s | exact reference counts, prefix-closed chains, isolation of content, a consistent hash map, and hits that are written or due, if nobody is freed in the step that has scheduled it |
| `pins` | pass | 126,450 | 55 s | pins retain what they are for and nothing else, a preemption has a victim, pins cannot starve a request, hits of InferCept are computed |
| `lightllm` | pass | 261,031 | 80 s | references exact with deferred candidates, held prefixes intact and written, order kept, every request answered |
| `autellix` | pass | 170,130 | 15 s | no request lost or at a wrong level across the switch, service carried over, every request answered |
| `concur` | pass | 15,030 | seconds | one consistent set of books, pool never exhausted, the run ends |
| `admission` | pass | 434,748 | 40 s | reservations exact and within budget, in-flight limits; the run ends, or only long tasks are left because the endpoint was given up |
| `driver` | pass | 461,442 | 40 s | a truthful summary, and an end of every run, even if no worker ends by itself, unless a descendant keeps the output of a worker that has ended |
| `replay` | pass | 251,289 | 130 s | load and reservations exact across awaits, crashes and time-outs, the driver ends |
| `waves` | pass | 309,375 | 70 s | engines agree on collectives and waves, wave numbers never go back; without aborts nobody is left alone and every request is answered |

### Properties worth reading first

Several invariants are conjunctions of named parts; each part is described where
it is defined, and nearly every one has a mutant of its own.

* `QueuePartition`: a live request is in exactly one of running, waiting,
  skipped and overflow, and its status says which.
* `SlotsCovered` and `AccountsExact`: the pool is never overdrawn, blocks add
  up, every computed or scheduled token has a slot; what is scheduled and what
  is left add up to the batch limit in every state of `schedule()`, with the
  cursor still on the request in hand after a victim in front of it was removed.
* `WorkerKnowsScheduled`: a request sent to the workers as known is known to
  them, and nothing stays behind when the engine goes idle.
* `ChainsPrefixClosed`, `CacheSound`: a lookup may stop at the first miss; what a
  block table points at is for the request's own content, and what can be hit or
  read is written or will be in this step.
* `PinsSound`: blocks belong to a running request or a pinned turn; while a turn
  is pinned, the job's next turn finds all of it that it can use; where the last
  running request is preempted, `HitsComputed`.
* `HoldsSound`, `NoPreemptionWhileDeferred`: references are tables plus holds, a
  held hit is never evicted, those who hold count against the limit on running
  requests, and deferring a request never costs a running one its blocks.
* `QueuesSound`, `ServiceCarriesOver`: no request waits at a level it has left,
  before and after the switch; a program's steps enter with its service.
* `OneStory`, `AgentsFitPool`, `OldestKeepsRunning`: why CONCUR cannot exhaust
  its pool with paused agents and never pauses everybody.
* `ReservationsSound`: however stale the statistics, reservations are those of
  long tasks in flight and within the larger of the two budgets.
* `RecordsSound`, `RunEnds` of `TaskDriver`: what the driver says of a run is true,
  and what a time-out can and cannot end.
* `PoolSound`, `BooksExact`: the load the replay driver reads is the pool's, and its
  totals are true. Two parts of them cannot fail in the run, and are covered by the
  theorems only: `Cardinality(pending) <= PoolSize` (there are two requests and a
  pool of three), and a late answer that meets its request in a later round (there
  is one round).
* `EnginesAgree`, `EveryWaveEnds`: nobody meets in different collectives or
  waves, and nobody waits in a forward pass for ever.

### Finding

**`scheduler_starvation`**. Aging boosts the order of service but not the choice
of the victim, and a victim starts over at token 0 with level 0. Two prefills
that fit one at a time take the blocks from each other for ever. The run is
under weak fairness of the engine. With prefix caching on, part of a victim's
prefill may survive in the cache; that is not modelled here. The same
property holds in `scheduler`, where the prompts are not of that kind.

### Witnesses

Four configurations are not among the runs above. Each checks one statement of the
repository that the code does not keep, and TLC is expected to find it violated:
`tlc -config <cfg> <module>`. The properties of the runs are stated so that they
hold of the code, with these cases excepted by name.

| Configuration | Module | Property | Time |
|---|---|---|---|
| `PinnedKV_unwritten.cfg` | `MCPinnedKV` | `HitsComputed` | 40 s |
| `ReplayAdmission_untracked.cfg` | `MCReplayAdmission` | `TailLongAlone` | seconds |
| `TaskDriver_timeout.cfg` | `TaskDriver` | `TimeoutIsHard` | seconds |
| `TaskDriver_descendants.cfg` | `TaskDriver` | `DescendantsEnd` | seconds |

**`PinnedKV_unwritten`**. `allocate_slots` publishes the hashes of full blocks
(`kv_cache_manager.py:346`). If the next request of the same step runs out of
blocks, the victim may be one that this step has already scheduled; `S:1402-1419`
unschedules it and frees its blocks, which keep their hashes and are never
written. A later lookup takes them for "blocks that are computed for the request"
(`kv_cache_manager.py:203`), and the request that hits them decodes from whatever
the block held before. In the trace, under Continuum with the default settings, a
prefill longer than a batch evicts a decoding request of a younger job that the
step has scheduled, and is itself evicted because that is not enough; both are
aborted, and the next turn of the younger job hits the unwritten block. With
`long_prefill_token_threshold` a victim may be in the middle of its prefill and
lose several blocks. MARS's halved chunks and Autellix's quanta have the same
effect; those modules count blocks and have no prefix hits, so the project does
not show it for them. `PinsSound` claims `HitsComputed` for InferCept only, and
`CacheSound` is about `OrderlySpec`.

**`ReplayAdmission_untracked`**. In the tail a long request that no budget covers is
admitted if `pending_kv_blocks_total` is zero (`X:2511`, `X:2539`). A long request
launched without statistics is in flight and adds nothing to the sum, so a second
one starts beside it, against "admit at most one long request at a time ... avoid
long-long interference" (`X:2508`). The property excuses launches within the
budget, where overlap is intended.

**`TaskDriver_timeout`**, **`TaskDriver_descendants`**. `_terminate_worker_process` ends
when the leader has (`R:820`, `R:846`). A descendant that holds the output of a
worker that has ended keeps `communicate()` (`R:1032`) waiting without limit,
against "Hard per-request worker timeout" (`R:177`); one that ignores SIGTERM, or
has a session of its own, survives the request, against "terminate the worker and
every descendant it spawned" (`experiments/agent_cli/run_workload.py:592`, which
calls the same teardown). `RunEnds` excludes exactly the first case.

### Deviations seen while modelling

Places where the code does not do what a comment or document next to it says.
The modules model the code; the properties above are stated so that they hold
of it. `R` is `run_task_workload.py`, `X` the replay driver's
`run_experiment.py`, `S` the scheduler.

1. `sched/request_queue.py:529`: `remove_request` forgets the version counter and
   keeps the heap entry, and `_push` restarts at version 1. An id that is removed
   and added again has peek and pop follow the old key, `__iter__` the new one,
   although the comment at line 544 promises one order. Front ends draw unique
   ids; with `ReuseIds = TRUE` the refinement fails.
2. `block_pool.py:69`: one block of the pool is the null block; the start-up check
   in `kv_cache_utils.py:674` does not count it. A pool of exactly the size of
   one full request preempts that request for ever.
3. `R:697` divides the gauge of `/metrics` by 100, but it is a fraction
   (`metrics/loggers.py:214`): a full cache reads as 1 percent. `MarsAdmission`
   keeps the code's scaling (`FromGauge`).
4. `R:672`: one 404 or 501 gives the statistics endpoint up for good; `/metrics`
   steers the window but is no budget, so long tasks then wait for ever. `RunEnds`
   of `MarsAdmission` says that nothing else waits with them.
5. `sched/lightllm_policy.py:251`: a candidate whose peak reaches the capacity is
   refused. A request that outgrew its estimate and is preempted may be one, and
   is never admitted again, whatever `gpu_model_runner.py:520` expects. In the
   run each request's own estimate fits.
6. `S:1438`: after the switch to FCFS a younger request that is preempted is
   prepended before older ones (`config/scheduler.py:136`). `S:1081`: recomputed
   tokens count as service, so that without the switch two prompts that fit one
   at a time evict each other for ever (`config/scheduler.py:145`).
7. `coordinator.py:335`: the engine that reports a request of a finished wave is
   left out of the wake-up call and has not set its own flag. If the request is
   aborted before it steps, the others wait for it in the forward pass. This is
   why `EveryWaveEnds` assumes that nothing is aborted.
8. `core_client.py:1096` names that engine by its ZMQ identity, which never equals
   the index it is compared with, so in this path everybody is woken up.
9. `X:1372`: after an hour without an answer the next round starts while the tool
   still runs, against the "serial GPU/tool pattern" of the README there.
   `tool_pool.py:1170` reads times under names no worker writes, so the average
   wait is never known.
10. `X:2095`: cached free blocks are spent again by each fill until the next
    reading. `X:2088`: zero free blocks become "unknown", and nothing is skipped.
    `X:2475`: a request that is too large but not long is never admitted outside
    the tail.
11. `R:1552`: when writing a record raises, futures already recorded are kept
    and recorded again by the last poll. `RecordsSound` bounds this at two and
    shows that such a run never claims completion.

## 4. Bounds

* `scheduler`: four requests in a window of 3 (so overflow happens), 2
  running, 4 usable blocks of 2 tokens for prompts of 6, 2, 5 and 3 (so prefills
  shrink, preempt each other, and decodes preempt prefills), 5 tokens per batch,
  three levels, aging within reach, one structured request, two batches in
  flight (so that outputs of preempted and aborted requests arrive late).
* `queue`: three ids on two levels, four prepends, so that every mix of
  stale and current entries of a request occurs.
* `kvcache`: three conversations, two of which share their first block, while the
  third repeats the tokens of another's second block; 4 blocks of 2 tokens, fewer
  than all need together. The run is of `OrderlySpec`; that reference counts and
  chains are sound when requests are freed at any time is proved for `CacheSpec`.
* `pins`: two turns of one job, a third request that repeats the first turn, and
  another job; 4 blocks of one token, fewer than a pinned turn and the next need.
  `long_prefill_token_threshold` is 2. In `PinnedKV_unwritten.cfg` it is 0, the
  default; two jobs of two turns and one of one share 15 blocks, and one prompt is
  longer than a batch.
* `lightllm`: four requests on 8 blocks of 2 tokens: one begins like another, two
  outgrow the initial estimate of one output token, one has a prompt longer
  than a step; the router's thresholds are scaled down with the pool.
* `autellix`: a program of three steps and two of one, three levels, 5 blocks of 2;
  the switch comes after the first finished job, while requests wait and run.
* `concur`: three tasks, two threads, two turns each; the window moves between 1 and 2.
* `admission`: four tasks, three of them long (32, 60 and 32 blocks), readings
  of 0, 12 and 99 free blocks out of 100: full, between the watermarks with
  nothing to spend, empty; all five selection modes and the tail fill occur.
* `driver`: three tasks, two threads, one failing write, one signal while the
  handlers are installed and one later, and for each worker no descendant, one of
  any kind, or a silent one and one in a session of its own. The two witnesses
  need one thread and one kind of descendant.
* `replay`: two requests, either one long (above the tail's budget) and one short,
  or two long ones; one round of tool use, one worker that may be killed, readings
  of 0 and 5 free blocks out of 10, failing readings. With two rounds the safety
  properties were also checked (6,287,324 states); the run keeps one round to
  leave room for liveness. `LongCap` is 1 there, and not 2 as in the code
  (`X:2434`), so that the cap is reached with two requests; `ReplayAdmission_untracked.cfg` has
  two long requests and the code's 2.
* `waves`: two engines, one front end, two requests of one step each, one of which
  may be aborted; the engines agree on the end of a wave every second step.

`MaxAdds` and `MaxPrepends` cap the queue's counters, `MaxAge` the ages,
`MaxHold` the length of pins; every other quantity is bounded by the constants of the code itself. The runs
with finite work end in explicit stuttering steps (`Idle`, `Over`, `Quiet`,
`Ended`), so deadlock checking stays on, but for `waves`, where the
aborts of deviation 7 really stop the engines.

## 5. Fairness

* Engine (`MarsScheduler`, `PinnedKV`, `LightLLM`, `Autellix`): weak fairness of
  the engine's steps (the busy loop never blocks while it has requests), and in
  `MarsScheduler` of each grammar compilation. Clients owe nothing. Nothing is
  assumed about `Tick`: a request must not depend on the expiry of a pin.
* CONCUR: weak fairness of the driver and of each agent whose next step is
  possible; strong fairness of `Emit`, since an arrival time passes once and for
  all while the driver leaves the emit loop again and again. Nothing is assumed about
  telemetry or SIGTERM, and no worker has to fail.
* MARS admission: likewise, tasks end, and strong fairness of `FetchStats`: an
  endpoint that is asked again and again, and not given up, answers now and then.
  Without it long tasks are rightly never admitted, and the run does not end.
* `TaskDriver`: the main thread, the pool and the supervisors run, and time-outs
  expire. Neither workers nor descendants need end, and signals need not come.
* Replay: the driver, workers and collector run (weak); a coroutine whose turn comes
  again and again gets it, time-outs expire, and a reading that is asked for
  again and again comes (strong). Nothing makes a worker crash or survive.
* `DPWaves`: every process runs (weak); an engine takes messages only between
  steps, and reads each connection now and then (strong).

## 6. Proofs

All theorems hold for every value of the constants that satisfies the named
assumptions (`QueueAssumption`; `RequestsAssumption`, `ConfigAssumption`,
`PromptAssumption`; `CacheAssumption`, `RetentionAssumption`; the `PolicyAssumption`
of `LightLLM` and of `Autellix`; `AdmissionAssumption`; `ConcurAssumption`;
`DriverAssumption`; `PoolAssumption`, `ReplayAssumption`; `WavesAssumption`), which
TLC evaluates in the runs. Two of them go beyond types and ranges:
`RetentionAssumption` and the `PolicyAssumption` of `LightLLM` say that the pool
holds any one request by itself. The engine checks that at start-up
(`check_enough_kv_cache_memory`), but for the null block of deviation 2.

| Theorem | Property |
|---|---|
| `WaitingQueueProofs.HeapCorrect` | `HeapSound` |
| `WaitingQueueProofs.QueueRefined` | `ImplementsQueue` (refinement) |
| `WaitingQueueProofs.PolicyCorrect`, `BudgetCorrect`, `ServiceCorrect` | `QueuesSound`, `BudgetExact`, `ServiceCarriesOver` |
| `MarsSchedulerProofs.TypeCorrect`, `PartitionCorrect`, `SlotsCorrect`, `WindowCorrect` | `TypeOK`, `QueuePartition`, `SlotsCovered`, `WindowBound` |
| `MarsSchedulerProofs.AccountsCorrect`, `WorkersCorrect`, `OrderCorrect` | `AccountsExact`, `WorkerKnowsScheduled`, `WaitingSorted` |
| `KVCacheProofs.BlocksCorrect`, `CacheCorrect`, `ChainsCorrect` | `BlocksSound`, `CacheSound` (of `OrderlySpec`), `ChainsPrefixClosed` |
| `KVCacheProofs.PinsCorrect`, `VictimCorrect` | `PinsSound`, `AlwaysAVictim` |
| `MarsAdmissionProofs.ReservationsCorrect`, `InflightCorrect` | `ReservationsSound`, `InflightBounds` |
| `BaselineProofs.TypeCorrect`, `StoryCorrect`, `PoolCorrect` | `ConcurTypeOK`, `OneStory`, `AgentsFitPool` |
| `BaselineProofs.OldestRuns` | `OldestKeepsRunning` (action property) |
| `BaselineProofs.HoldsCorrect` | `HoldsSound` |
| `BaselineProofs.OrderKept` | `KeepsFCFS` (action property) |
| `DriverProofs.RecordsCorrect` | `RecordsSound` |
| `DriverProofs.PoolCorrect`, `BooksCorrect` | `PoolSound`, `BooksExact` |
| `DPWavesProofs.EnginesMeet` | `EnginesAgree` |
| `DPWavesProofs.WavesNeverBack` | `WavesMonotone` (action property) |

**`WaitingQueueProofs`, the heap**. `HeapCorrect` holds with and without reuse of ids:
`EveryRequestReachable` is inductive with the types once the heap is finite, so
that a purged heap has a top. `QueueRefined` assumes `~ReuseIds` (front ends draw
unique ids; a request that returns does so by `prepend_request`), because a stale
entry of an id that is added again may count as current and put the request at
its old place. Its invariant adds that orders are unique and within the range
of the two counters, that the heap knows only ids seen before, and
`StaleBehindKey`: whatever is left in the heap of a queued request is at or behind
its key, since the request can only have come back to the very front. Hence the
top of the purged heap is the entry of the first request of `Iter` (`TopIsHead`).
The refinement mapping sorts a set with `CHOOSE`; `SortedUnique` shows that there
is only one way to do so, so that it is enough to name, for each action, the list
that enumerates the queue afterwards: `EnumeratesInsert`, `EnumeratesPrepend`,
`EnumeratesTail`, `EnumeratesWithout`.

**`WaitingQueueProofs`, Autellix**. One inductive invariant, `PolicyInv`, serves
all three theorems, because the parts lean on each other.

* `DequesFit`: a deque holds the requests of its level, once each, and the index
  from requests to deques agrees; under FCFS the deques are empty. `StatusFits`:
  the status names the list. Together they are `QueuesSound` in the form in which
  demotion, promotion, prepending and the switch can be checked: each takes a
  request out of one list and puts it into another, or, in the switch, sorts the
  union of all deques into one list.
* `PoolFits` counts the blocks of what the step *will* have computed, `TokensFit`
  says that an unscheduled running request has tokens left, `BatchFits` and
  `CursorFits` that the loop has not scheduled whom it has not reached. Without the
  last a victim behind the cursor would give back tokens it never had.
* `StepsFollow` and `ServiceKept`: a program's steps do not overlap, and a finished
  step's charge stays with the program until its last step is over, which is when
  the table forgets it.

The iteration over the deques is a recursive function (`Concat`); what it lists is
shown with `RecursionExists` and `SegmentInduction`. The sums of blocks and of
scheduled tokens change by one request at a time (`TallyUpdate`).

**`MarsSchedulerProofs`**. The inductive invariant of the first four theorems is
`TypeOK /\ Locals /\ Separate /\ Batched /\ SlotsCovered /\ WindowBound`.

* `Locals` says what each loop knows of the request in hand at each `pc`: the
  cursor is inside the list, and the attempted chunk is within the token budget
  and within the tokens the request has left.
* `Separate` is `QueuePartition` list by list, the form in which an action that
  moves one request between two lists can be checked.
* `Batched` says that only requests that have run are in a batch. It is why a
  late output finds its request running, preempted or gone, and never in
  the overflow list, which `StopOutput` would not clean.

On top of it, `AccountsCorrect` needs `CursorSound` (nobody at or behind the
cursor of the running loop has been scheduled, so a victim taken from behind it
returns nothing and one in front of it returns its chunk and moves the cursor);
the two sums follow from `TotalUpdate`, one request at a time. `WorkersCorrect`
needs `WorkersSound`: the workers keep exactly the requests that run, have been
preempted or have ended unreported, and those that start in this step are about
to be sent. `OrderCorrect` needs nothing more: insertion keeps the order of an
ordered list, and whatever is prepended (a preempted request, or all those set
aside in a step) gets the best level.

**`KVCacheProofs`, the cache**. The inductive invariant is `CacheInv`, that is
`BooksTypeOK /\ RefCountExact /\ SizesFit /\ SharedAreHashed /\ ContentIsolated /\
CacheMapConsistent /\ TailBeforeHead`, with `WritesFit`: what is due is in the table
of the request that is to write it. It holds of `CacheSpec`. `CacheCorrect` is about
`OrderlySpec`, where in addition `blank = {}`: only `Free` could give up a block that
is due. Of `CacheSpec` it would be false.

* `SizesFit` ties table and hashes of a request to its computed tokens.
* `SharedAreHashed`: only a full, hashed block is shared, so the step that fills
  the last block of a request writes into nobody else's.
* `TailBeforeHead` is what `ChainsPrefixClosed` needs to be inductive: a cached
  block that nobody references stands in the free queue in front of some block
  with the prefix before it, or that one is still referenced. `free` keeps it
  because it returns a table from its tail; `touch` because a hit takes the whole
  prefix; popping from the front because what it takes first is the longer chain.

The lemmas `AllocateKeeps` and `FreeKeeps` are stated for any number of slots and
any hits that were found, as the policies over the cache use them.

**`KVCacheProofs`, retention**. `PinInv` is the invariant of the cache with what the
scheduler knows of its requests. `ComputedFits` says when a request has tokens in
the cache: from being scheduled until it is preempted or has ended and is not
pinned. `PinsFit` says that an ended request has blocks only if it is pinned or is
being freed at this moment, that a pin of a completed turn covers all of it but
the last token, and that a job has one pin. `PinsSound` follows with the
consistency of the hash map. That hits are computed under InferCept needs
`AttemptFits`, `DueScheduled` (only what this step has scheduled is due) and
`LastGoesFirst`: the request in hand is the one `index` names, those behind it are
unscheduled, and the last one is never a scheduled one. `VictimCorrect` needs `LoopFits`: the request in hand
is in the running list. If it is the only one there and nothing is pinned, it owns
every block that is not free, and then it cannot be short of blocks, because the
pool is enough for any one request.

**`MarsAdmissionProofs`**. The budget of a call is computed once and spent over
several steps. `PlanFits` says that what is reserved, what has been selected and
what is left of the budget fit the larger of the two budgets together; it needs
`ReadingsBounded` (no statistics, however old, report more free blocks than the
pool has), `ReservationsExact` and `ChoiceSound`, which keeps the selection within
backlog, slots and the limit of the mode it was planned in.

**`BaselineProofs`, CONCUR**. The
inductive invariant adds `BacklogFresh` to the three state properties: the
backlog holds each task once, none whose future is outstanding, and only tasks
that have arrived. Without it
`Admit` could put a task into the books a second time. `PoolCorrect` rests on one
observation: `Admit` requires an empty pause list, so by `OneStory` nobody is
paused then, and the active agents alone are below the window. `OldestRuns`
follows from the invariant and from the pause taking the last element of a list
longer than the window, which is at least 1.

**`BaselineProofs`, LightLLM**. A hold is a block table of full blocks. Let `Owned`
be the table of a request, or its hold while it is deferred. Then the preview's
reservation, the release, the allocation that takes over a hold, and preemption
are allocations and frees of the KV cache on `Owned`, so `KVCacheProofs` is
instantiated with `Owned` in place of `table` and its lemmas are used again:
`ReserveKeeps` is `AllocateKeeps` with hits and no new block, `GiveBackKeeps` is
`FreeKeeps`, and `HoldExtends` shows that releasing a hold just before allocating,
as `schedule()` does, comes to the same as extending it (`ReleasedHold`: touching
the released blocks restores the free queue). `LightInv` adds

* `TablesFit`: who is deferred has nothing but the hold, which leaves at least one
  token to compute (else the step would schedule none);
* `ListsFit`, over the line of those who wait, skipped ones first;
* `TokensFit`, `BatchFits`, `LoopFits`: tokens are in the cache exactly while a
  request runs, and the victim of a preemption is not in the batch;
* `AdmittedBound`, which holds because the router counts deferred requests;
* `StepWrites`: only what the step has scheduled is due, and no block is blank.

`OrderKept` follows action by action: the line loses one place, gains one at an
end, or stays, also while a request is moved from `waiting` to `skipped` and back.

**`DriverProofs`, the task driver**. `Supervised` says that a thread at work belongs
to a running future; `Fresh` that what is not yet submitted has no future.
`RecordsCorrect` adds `RecordedOnce`: until a write fails, a task has a
record exactly when it has been collected, and only the last poll can follow a
failing write; the count in the summary is then a sum of ones. A signal at exit
changes neither.

**`DriverProofs`, the tool pool and the replay driver**. `PoolInv`: a task is in one
place at most (`InOnePlace`: queued, with a worker, with a process, or answered),
and it is `Answerable`: what is in a place has a future and no answer yet, and
futures without a place are no more than workers that have died. The load is then
a count of disjoint sets. `BooksInv`: requests are in the backlog, in flight or
over (`EveryRequestOnce`), what has not arrived was not launched, and the total of
the books is the sum of the entries, which belong to long requests in flight. It
is an invariant of single steps, so that whatever happens between the two halves
of a fill is covered. The greedy choice is a recursion
over the sorted backlog; that it stays within the slots at every position
(`GreedyFits`) bounds the requests in flight.

**`DPWavesProofs`**. `InStep`: all engines have the same wave and the same number
of forward passes, and stand in the all-reduce together. The rest says what the
connections carry: no call to an engine tells of a wave beyond the coordinator's
(`CallsKnown`), updates reach a front end in the order of the waves
(`UpdatesOrdered`), and a wave reported complete is over (`ReportsTrue`). Each is
needed because an old message may arrive at any later time; `WavesNeverBack`
follows from them.

**`CollectionLemmas`** states what removing, filtering, inserting by level,
prepending, reversing and appending do to the elements, the length, the order and
the injectivity of a list; that a sum does not depend on the order in which it is
folded, and how it changes with one summand; that a finite totally ordered
set has a least element; that sorting a finite set lists each element once
(`ListedByPlace`); and that a recursion over a list has a solution
(`RecursionExists`). The provers have no induction rule they can use on a
predicate; where one is needed the lemma argues from a minimal counterexample, a
set (`MinimalSubset`, `SegmentInduction`).

**Only model-checked**: liveness, which is out of the prover's reach, and
`NoPreemptionWhileDeferred` of `LightLLM`. The latter rests on an estimate of
output lengths that a request may outgrow (deviation 5); it holds where the
estimates are as good as in the run, and no assumption on the constants that the
code would justify makes it hold in general.

## 7. Mutants

Each property of a passing run has a mutant in the module it is about, placed
before the definition it replaces and marked `Mutant:`; where a property is a
conjunction most parts have one. It is a plausible slip at that place of the
code, such as a missed list, an index not adjusted or a reservation not returned.
TLC finds the property violated with it.

## 8. What is not modelled, and the plan

Worth doing next, in this order:

1. A proof that `PinnedKV` and `LightLLM` refine `KVCache` as specifications. The
   lemmas about single steps are there; what is missing is that every hit and
   every length the policies choose is one that `KVCache` may choose.
2. Composition of `MarsScheduler` and `KVCache`: prefix hits at admission, and
   whether they end the mutual eviction of the finding.
3. An id that is aborted and submitted again while a batch of its old incarnation
   is in flight (`S:2315`). Front ends draw unique ids, so this needs a
   client that does not.

Not modelled:

* *Tool call estimator*, *lifecycle collector*, event normalisation, traces:
  text and statistics. What reaches control (the length of a pin) is any
  value in `PinnedKV`.
* *Encoder cache, LoRA, speculative decoding, KV connectors* (and so the swapping
  variant of InferCept), *hybrid and sliding-window KV groups*: vLLM features the
  experiments of the repository run without.
* *Front end* (`async_llm.py`, `output_processor.py`): upstream code; the engine
  models take its add and abort messages in any order.
* *Load balancing, elastic scaling, start-up handshakes and failures of
  processes* in data parallelism.
* *Worker scripts and proxies* of the agent harnesses beyond the admission gate:
  HTTP, sockets and the protocols of external programs. Start-up of the drivers:
  argument parsing and preparation of workloads.
* *Models, kernels, quantisation, entrypoints, benchmarks*: numerical or vendored
  code without control state of its own. It is most of the repository's lines:
  the implementation files are vLLM's, of which the project models the
  engine core, the scheduler and the cache, where the repository differs from
  upstream or depends on it.
