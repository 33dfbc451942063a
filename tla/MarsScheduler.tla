---------------------------- MODULE MarsScheduler ----------------------------
(***************************************************************************)
(* The MARS policy of the vLLM v1 scheduler together with the engine-core  *)
(* loop that drives it (vllm-continuum/vllm/v1/core/sched/scheduler.py and *)
(* vllm/v1/engine/core.py).                                                *)
(*                                                                         *)
(* One process, the engine core, alternates between handling client        *)
(* messages (add, abort), one call of Scheduler.schedule(), and            *)
(* update_from_output() for the oldest batch of the batch queue.  The      *)
(* loops of schedule() take one step per iteration; pc keeps client        *)
(* messages out of a call that has started.  What really runs beside the   *)
(* engine is time (Elapsed), grammar compilation and the workers.          *)
(*                                                                         *)
(* Prefix caching, KV connectors, LoRA, encoder inputs and speculative     *)
(* decoding are off, so a request's KV cache is a number of blocks.        *)
(***************************************************************************)
EXTENDS QueueOrder

CONSTANTS
    Requests,        \* request ids; a smaller id has the earlier arrival_time
    PromptLen,       \* num_prompt_tokens of every request
    MaxTokens,       \* max_tokens of every request
    Structured,      \* the requests that use structured output
    BlockSize,       \* tokens per KV block
    NumGpuBlocks,    \* num_gpu_blocks, the null block included
    MaxModelLen,     \* max_model_len
    MaxBatchTokens,  \* max_num_scheduled_tokens
    MaxRunning,      \* max_num_running_reqs
    Window,          \* _mars_active_window_size
    Quanta,          \* _mars_level_quanta
    Thresholds,      \* the prompt length buckets
    AgingInterval,   \* _mars_aging_interval_s, in clock ticks
    Elapsed,         \* ticks that may pass between two calls of schedule()
    BatchQueueSize   \* batch_queue_size; 1 is EngineCore.step()

ASSUME RequestsAssumption ==
    /\ Requests \subseteq Nat
    /\ IsFiniteSet(Requests)
    /\ PromptLen \in [Requests -> Nat \ {0}]
    /\ MaxTokens \in [Requests -> Nat \ {0}]
    /\ Structured \subseteq Requests

ASSUME ConfigAssumption ==
    /\ BlockSize \in Nat \ {0}
    /\ NumGpuBlocks \in Nat \ {0}
    /\ MaxModelLen \in Nat \ {0}
    /\ MaxBatchTokens \in Nat \ {0}
    /\ MaxRunning \in Nat \ {0}
    /\ Window \in Nat \ {0}
    /\ Quanta \in Seq(Nat \ {0})
    /\ Thresholds \in Seq(Nat)
    /\ Len(Quanta) = Len(Thresholds) + 1
    /\ AgingInterval \in Nat
    /\ Elapsed \subseteq Nat \ {0}
    /\ BatchQueueSize \in Nat \ {0}

\* The front end rejects a prompt that does not leave room for one token.
ASSUME PromptAssumption == \A r \in Requests : PromptLen[r] < MaxModelLen

Blocks(n) == (n + BlockSize - 1) \div BlockSize

\* check_enough_kv_cache_memory, at start-up.
ASSUME StartupAssumption == NumGpuBlocks >= Blocks(MaxModelLen)

VARIABLES
    pc,        \* where the engine core is: see PCs
    running,   \* Scheduler.running
    waiting,   \* Scheduler.waiting, in the order peek/pop use
    qlvl,      \* the level a request has in the waiting queue
    overflow,  \* _mars_overflow
    skipped,   \* skipped_waiting_requests
    status,    \* Request.status; "new" before add_request
    grammar,   \* the structured requests whose grammar is compiled
    computed,  \* Request.num_computed_tokens
    tokens,    \* Request.num_tokens
    level,     \* _mars_level_by_req_id
    age,       \* ticks since _mars_last_scheduled_by_req_id, NoAge if absent
    held,      \* number of KV blocks of a request
    free,      \* number of blocks in the pool's free queue
    idx,       \* req_index
    budget,    \* token_budget
    sched,     \* num_scheduled_tokens; 0 when absent
    attempt,   \* attempt_tokens
    preempted, \* preempted_reqs
    newReqs,   \* scheduled_new_reqs
    batches,   \* batch_queue, oldest first; see EndSchedule
    worker,    \* the requests the workers keep state for
    finished   \* finished_req_ids

queues == <<running, waiting, qlvl, overflow, skipped>>
reqs == <<status, computed, tokens, level, age>>
kv == <<held, free>>
step == <<idx, budget, sched, attempt, preempted, newReqs>>
engine == <<batches, worker, finished>>
vars == <<pc, queues, reqs, grammar, kv, step, engine>>

PCs == {"input", "admit", "running", "alloc", "waiting", "walloc", "commit", "output"}
Live == {"waiting", "fsm", "running", "preempted"}
NoAge == -1
NumLevels == Len(Quanta)

\* BlockPool sets one block aside as the null block.
NumBlocks == NumGpuBlocks - 1

\* Ages beyond this bound boost every level to 0 and are not told apart.
MaxAge == AgingInterval * (NumLevels + 1)

-----------------------------------------------------------------------------
Least(a, b) == IF a <= b THEN a ELSE b
Most(a, b) == IF a >= b THEN a ELSE b

\* The bucket of n among the ascending thresholds; the last level is open-ended.
BucketLevel(n) == Cardinality({i \in DOMAIN Thresholds : n > Thresholds[i]})

RemainingLevel(r, c) == IF c >= PromptLen[r] THEN 0 ELSE BucketLevel(PromptLen[r] - c)
AgeOf(r) == IF age[r] = NoAge THEN MaxAge ELSE age[r]
EffectiveLevel(r, c) ==
    LET base == Most(level[r], RemainingLevel(r, c))
        boost == IF AgingInterval = 0 THEN 0 ELSE AgeOf(r) \div AgingInterval
    IN  Most(0, base - boost)
Quantum(l) == Least(Quanta[l + 1], MaxBatchTokens)

\* _mars_reorder_running's key.  Requests whose ages have reached MaxAge may
\* come in either order: their clocks are not told apart any more.
SortsBefore(a, b) ==
    LET la == EffectiveLevel(a, computed[a])
        lb == EffectiveLevel(b, computed[b])
    IN  \/ la < lb
        \/ la = lb /\ AgeOf(a) > AgeOf(b)
        \/ la = lb /\ AgeOf(a) = AgeOf(b) /\ (a < b \/ AgeOf(a) = MaxAge)
Reorderings ==
    {p \in Bijection(DOMAIN running, ToSet(running)) :
        \A i, j \in DOMAIN p : i < j => SortsBefore(p[i], p[j])}

\* Mutant: the tokens about to be scheduled get no slots.
RequiredComputed(r, c, n) == Blocks(Least(c, MaxModelLen))
\* KVCacheManager.allocate_slots
Required(r, c, n) == Blocks(Least(c + n, MaxModelLen))
CanAllocate(r, c, n) == Required(r, c, n) - held[r] <= free
Allocate(r, c, n) ==
    LET h == Most(held[r], Required(r, c, n))
    IN  /\ held' = [held EXCEPT ![r] = h]
        /\ free' = free - (h - held[r])
\* Mutant: the blocks do not return to the pool.
LeakBlocks(r) ==
    /\ held' = [held EXCEPT ![r] = 0]
    /\ UNCHANGED free
Release(r) ==
    /\ held' = [held EXCEPT ![r] = 0]
    /\ free' = free + held[r]

\* Mutant: a request put at the front keeps the level it was added with.
FrontKeepsLevel(rs) == qlvl
\* prepend_request and prepend_requests put requests rs in front at level 0.
FrontLevels(rs) == [r \in Requests |-> IF r \in rs THEN 0 ELSE qlvl[r]]

-----------------------------------------------------------------------------
Init ==
    /\ pc = "input"
    /\ running = <<>> /\ waiting = <<>> /\ overflow = <<>> /\ skipped = <<>>
    /\ qlvl = [r \in Requests |-> 0]
    /\ status = [r \in Requests |-> "new"]
    /\ grammar = {}
    /\ computed = [r \in Requests |-> 0]
    /\ tokens = PromptLen
    /\ level = [r \in Requests |-> 0]
    /\ age = [r \in Requests |-> NoAge]
    /\ held = [r \in Requests |-> 0] /\ free = NumBlocks
    /\ idx = 0 /\ budget = MaxBatchTokens /\ attempt = 0
    /\ sched = [r \in Requests |-> 0]
    /\ preempted = {} /\ newReqs = {}
    /\ batches = <<>> /\ worker = {} /\ finished = {}

\* Mutant: waiting requests do not count towards the window.
RunningOnly == Len(running)
ActiveCount == Len(running) + Len(waiting)

\* Scheduler.add_request: MARS admission window.
AddRequest(r) ==
    /\ pc = "input"
    /\ status[r] = "new"
    /\ status' = [status EXCEPT ![r] = IF r \in Structured THEN "fsm" ELSE "waiting"]
    /\ level' = [level EXCEPT ![r] = 0]
    /\ age' = [age EXCEPT ![r] = NoAge]
    /\ \/ /\ ActiveCount < Window
          /\ qlvl' = [qlvl EXCEPT ![r] = BucketLevel(PromptLen[r])]
          /\ waiting' = InsertByLevel(waiting, qlvl', r)
          /\ UNCHANGED overflow
       \/ /\ ActiveCount >= Window
          /\ overflow' = Append(overflow, r)
          /\ UNCHANGED <<waiting, qlvl>>
    /\ UNCHANGED <<pc, running, skipped, computed, tokens, grammar, kv, step, engine>>

\* _free_request and _free_blocks; the request object is dropped.
FreeRequest(r) ==
    /\ status' = [status EXCEPT ![r] = "finished"]
    /\ finished' = finished \cup {r}
    /\ computed' = [computed EXCEPT ![r] = 0]
    /\ tokens' = [tokens EXCEPT ![r] = PromptLen[r]]
    /\ level' = [level EXCEPT ![r] = 0]
    /\ age' = [age EXCEPT ![r] = NoAge]
    /\ Release(r)

\* Mutant: the overflow list is forgotten.
DequeueNotOverflow(r) ==
    /\ running' = IF status[r] = "running" THEN Without(running, r) ELSE running
    /\ waiting' = IF status[r] = "running" THEN waiting ELSE Without(waiting, r)
    /\ UNCHANGED overflow

Dequeue(r) ==
    \/ /\ status[r] = "running"
       /\ running' = Without(running, r)
       /\ UNCHANGED <<waiting, overflow>>
    \/ /\ status[r] # "running"
       /\ waiting' = Without(waiting, r)
       /\ overflow' = Without(overflow, r)
       /\ UNCHANGED running

\* finish_requests: an abort reaches a request wherever it is queued.
FinishRequest(r) ==
    /\ pc = "input"
    /\ status[r] \in Live
    /\ Dequeue(r)
    /\ FreeRequest(r)
    /\ UNCHANGED <<pc, qlvl, skipped, grammar, step, batches, worker>>

\* The grammar's future completes in the structured output manager's executor.
GrammarReady(r) ==
    /\ r \in Structured \ grammar
    /\ status[r] = "fsm"
    /\ grammar' = grammar \cup {r}
    /\ UNCHANGED <<pc, queues, reqs, kv, step, engine>>

-----------------------------------------------------------------------------
\* Mutant: the requests that wait are not counted.
HasRunning == Len(running) > 0
HasUnfinished == Len(waiting) + Len(running) + Len(overflow) > 0
\* Mutant: an engine with nothing to run stops at once.
UnfinishedOnly == HasUnfinished
HasRequests == HasUnfinished \/ finished # {}

\* The prologue of schedule(), where the clock is read.
BeginSchedule(d) ==
    /\ pc = "input"
    /\ HasRequests
    /\ pc' = "admit"
    /\ age' = [r \in Requests |-> IF age[r] = NoAge THEN NoAge ELSE Least(age[r] + d, MaxAge)]
    /\ UNCHANGED <<queues, status, computed, tokens, level, grammar, kv, step, engine>>

\* One iteration of _mars_admit_overflow.
AdmitOverflow ==
    /\ pc = "admit"
    /\ overflow # <<>>
    /\ ActiveCount < Window
    /\ LET r == Head(overflow)
       IN  /\ overflow' = Tail(overflow)
           /\ qlvl' = [qlvl EXCEPT ![r] = BucketLevel(PromptLen[r])]
           /\ waiting' = InsertByLevel(waiting, qlvl', r)
           /\ level' = [level EXCEPT ![r] = 0]
           /\ age' = [age EXCEPT ![r] = NoAge]
    /\ UNCHANGED <<pc, running, skipped, status, computed, tokens, grammar, kv, step, engine>>

\* _mars_reorder_running, once nothing more is admitted.
ReorderRunning ==
    /\ pc = "admit"
    /\ overflow = <<>> \/ ActiveCount >= Window
    /\ \E p \in Reorderings : running' = p
    /\ pc' = "running"
    /\ UNCHANGED <<waiting, qlvl, overflow, skipped, reqs, grammar, kv, step, engine>>

-----------------------------------------------------------------------------
\* The RUNNING loop.
Current == running[idx + 1]

NewTokensRunning(r) ==
    LET n == Least(Least(tokens[r] - computed[r], budget), MaxModelLen - 1 - computed[r])
    IN  IF computed[r] < PromptLen[r]
           THEN Least(n, Quantum(EffectiveLevel(r, computed[r])))
           ELSE n

LeaveRunningLoop ==
    /\ pc = "running"
    /\ idx >= Len(running) \/ budget <= 0
    /\ pc' = IF preempted = {} THEN "waiting" ELSE "commit"
    /\ UNCHANGED <<queues, reqs, grammar, kv, step, engine>>

\* Compute num_new_tokens; a request with nothing to compute is passed over.
PickRunning ==
    /\ pc = "running"
    /\ idx < Len(running) /\ budget > 0
    /\ IF NewTokensRunning(Current) = 0
          THEN idx' = idx + 1 /\ UNCHANGED <<pc, attempt>>
          ELSE pc' = "alloc" /\ attempt' = NewTokensRunning(Current) /\ UNCHANGED idx
    /\ UNCHANGED <<queues, reqs, grammar, kv, budget, sched, preempted, newReqs, engine>>

Demote(l) == Least(l + 1, NumLevels - 1)

\* _mars_on_scheduled: c is num_computed_tokens, n the scheduled tokens.
OnScheduled(r, c, n) ==
    /\ age' = [age EXCEPT ![r] = 0]
    /\ level' = [level EXCEPT ![r] =
            IF c >= PromptLen[r] THEN 0
            ELSE IF n >= Quantum(EffectiveLevel(r, c)) /\ tokens[r] - c - n > 0
            THEN Demote(level[r])
            ELSE level[r]]

ScheduleRunning ==
    /\ pc = "alloc"
    /\ CanAllocate(Current, computed[Current], attempt)
    /\ Allocate(Current, computed[Current], attempt)
    /\ sched' = [sched EXCEPT ![Current] = attempt]
    /\ budget' = budget - attempt
    /\ idx' = idx + 1
    /\ OnScheduled(Current, computed[Current], attempt)
    /\ pc' = "running"
    /\ UNCHANGED <<queues, status, computed, tokens, grammar, attempt, preempted, newReqs, engine>>

\* MARS halves a prefill chunk that does not fit before it preempts.
CanShrink(r) == computed[r] < PromptLen[r] /\ attempt > BlockSize
HalveAttempt == attempt' = Most(BlockSize, attempt \div 2)

ShrinkRunning ==
    /\ pc = "alloc"
    /\ ~CanAllocate(Current, computed[Current], attempt)
    /\ CanShrink(Current)
    /\ HalveAttempt
    /\ UNCHANGED <<pc, queues, reqs, grammar, kv, idx, budget, sched, preempted, newReqs, engine>>

\* preempt_key, compared lexicographically; arrival times are distinct.
PreemptLevel(r) ==
    IF computed[r] >= PromptLen[r] THEN -1 ELSE Most(level[r], RemainingLevel(r, computed[r]))
BlocksEst(r) == Blocks(Least(computed[r], MaxModelLen))
KeyAtMost(a, b) ==
    \/ PreemptLevel(a) < PreemptLevel(b)
    \/ PreemptLevel(a) = PreemptLevel(b) /\ BlocksEst(a) < BlocksEst(b)
    \/ PreemptLevel(a) = PreemptLevel(b) /\ BlocksEst(a) = BlocksEst(b) /\ a <= b
IsVictim(i) == \A j \in DOMAIN running : KeyAtMost(running[j], running[i])

\* Mutant: req_index still counts the victim.
UnscheduleKeepIndex(i) ==
    /\ sched' = [sched EXCEPT ![running[i]] = 0]
    /\ budget' = budget + sched[running[i]]
    /\ idx' = idx
    /\ preempted' = preempted \cup {running[i]}

\* Undo what this step has done for the victim: refund its tokens, keep
\* req_index on the current request, drop it from the output.
Unschedule(i) ==
    /\ sched' = [sched EXCEPT ![running[i]] = 0]
    /\ budget' = budget + sched[running[i]]
    /\ idx' = IF i - 1 < idx THEN idx - 1 ELSE idx
    /\ preempted' = preempted \cup {running[i]}

\* The victim loses its blocks and goes to the front of the waiting queue.
Preempt(i) ==
    LET v == running[i]
    IN  /\ running' = RemoveAt(running, i)
        /\ Unschedule(i)
        /\ Release(v)
        /\ status' = [status EXCEPT ![v] = "preempted"]
        /\ computed' = [computed EXCEPT ![v] = 0]
        /\ level' = [level EXCEPT ![v] = 0]
        /\ age' = [age EXCEPT ![v] = NoAge]
        /\ qlvl' = FrontLevels({v})
        /\ waiting' = <<v>> \o waiting

PreemptRunning ==
    /\ pc = "alloc"
    /\ ~CanAllocate(Current, computed[Current], attempt)
    /\ ~CanShrink(Current)
    /\ \E i \in DOMAIN running :
          /\ IsVictim(i)
          /\ Preempt(i)
          /\ pc' = IF running[i] = Current THEN "commit" ELSE "alloc"
    /\ UNCHANGED <<overflow, skipped, tokens, grammar, attempt, newReqs, engine>>

-----------------------------------------------------------------------------
\* The WAITING loop, entered only when nothing was preempted.
NextWaiting == Head(waiting)

LeaveWaitingLoop ==
    /\ pc = "waiting"
    /\ waiting = <<>> \/ budget <= 0 \/ Len(running) = MaxRunning
    /\ pc' = "commit"
    /\ UNCHANGED <<queues, reqs, grammar, kv, step, engine>>

AtWaitingHead == pc = "waiting" /\ waiting # <<>> /\ budget > 0 /\ Len(running) # MaxRunning

\* The head's grammar is still being compiled: set it aside for this step.
SkipWaiting ==
    /\ AtWaitingHead
    /\ status[NextWaiting] = "fsm"
    /\ NextWaiting \notin grammar
    /\ waiting' = Tail(waiting)
    /\ skipped' = <<NextWaiting>> \o skipped
    /\ UNCHANGED <<pc, running, qlvl, overflow, reqs, grammar, kv, step, engine>>

\* Without prefix caching a waiting request has no computed token.
NewTokensWaiting(r) ==
    Least(Least(tokens[r], budget), Quantum(EffectiveLevel(r, 0)))

PickWaiting ==
    /\ AtWaitingHead
    /\ status[NextWaiting] = "fsm" => NextWaiting \in grammar
    /\ status' = [status EXCEPT ![NextWaiting] = IF @ = "fsm" THEN "waiting" ELSE @]
    /\ attempt' = NewTokensWaiting(NextWaiting)
    /\ pc' = "walloc"
    /\ UNCHANGED <<queues, computed, tokens, level, age, grammar, kv, idx, budget, sched,
                   preempted, newReqs, engine>>

ShrinkWaiting ==
    /\ pc = "walloc"
    /\ ~CanAllocate(NextWaiting, 0, attempt)
    /\ CanShrink(NextWaiting)
    /\ HalveAttempt
    /\ UNCHANGED <<pc, queues, reqs, grammar, kv, idx, budget, sched, preempted, newReqs, engine>>

\* No slots for the head: the loop ends, nobody behind it is tried.
BlockedWaiting ==
    /\ pc = "walloc"
    /\ ~CanAllocate(NextWaiting, 0, attempt)
    /\ ~CanShrink(NextWaiting)
    /\ pc' = "commit"
    /\ UNCHANGED <<queues, reqs, grammar, kv, step, engine>>

ScheduleWaiting ==
    LET r == NextWaiting
    IN  /\ pc = "walloc"
        /\ CanAllocate(r, 0, attempt)
        /\ Allocate(r, 0, attempt)
        /\ waiting' = Tail(waiting)
        /\ running' = Append(running, r)
        /\ idx' = idx + 1
        /\ newReqs' = IF status[r] = "waiting" THEN newReqs \cup {r} ELSE newReqs
        /\ sched' = [sched EXCEPT ![r] = attempt]
        /\ budget' = budget - attempt
        /\ status' = [status EXCEPT ![r] = "running"]
        /\ computed' = [computed EXCEPT ![r] = 0]
        /\ OnScheduled(r, 0, attempt)
        /\ pc' = "waiting"
        /\ UNCHANGED <<qlvl, overflow, skipped, tokens, grammar, attempt, preempted, engine>>

-----------------------------------------------------------------------------
Scheduled == {r \in Requests : sched[r] > 0}

\* gpu_model_runner._update_states: forget what finished, keep what is new.
WorkerUpdate == (worker \ finished) \cup newReqs

\* The local variables of schedule() die with the call and are initialised
\* again by the next one; nothing reads them in between.
ResetStep ==
    /\ idx' = 0 /\ budget' = MaxBatchTokens /\ attempt' = 0
    /\ sched' = [r \in Requests |-> 0]
    /\ preempted' = {} /\ newReqs' = {}

\* The end of schedule(): put skipped requests back at the head (at level 0),
\* _update_after_schedule, and hand the batch to the executor.  A batch maps a
\* request to the position its chunk ends at, 0 when it is not in the batch.
EndSchedule ==
    /\ pc = "commit"
    /\ waiting' = Reverse(skipped) \o waiting
    /\ qlvl' = FrontLevels(ToSet(skipped))
    /\ skipped' = <<>>
    /\ computed' = [r \in Requests |-> computed[r] + sched[r]]
    /\ batches' = Append(batches,
            [r \in Requests |-> IF sched[r] > 0 THEN computed[r] + sched[r] ELSE 0])
    /\ worker' = WorkerUpdate
    /\ finished' = {}
    \* Go back for more input only while the queue has room, the batch is not
    \* empty and the oldest result is not there yet.
    /\ \/ pc' = "output"
       \/ Scheduled # {} /\ Len(batches') < BatchQueueSize /\ pc' = "input"
    /\ ResetStep
    /\ UNCHANGED <<running, overflow, status, tokens, level, age, grammar, kv>>

\* step_with_batch_queue when the scheduler has nothing left.
DrainBatches ==
    /\ pc = "input"
    /\ ~HasRequests
    /\ batches # <<>>
    /\ pc' = "output"
    /\ UNCHANGED <<queues, reqs, grammar, kv, step, engine>>

InBatch == {r \in Requests : Head(batches)[r] > 0}
\* An iteration changes its own request only, so the order is immaterial.
NextOutput == CHOOSE r \in InBatch : TRUE
\* The runner discards the sample of a chunk that stops short of the last token.
Samples(r) == Head(batches)[r] >= tokens[r]
MustStop(r) == tokens[r] + 1 >= MaxModelLen \/ tokens[r] + 1 - PromptLen[r] >= MaxTokens[r]
TakeOutput(r) == batches' = [batches EXCEPT ![1] = [@ EXCEPT ![r] = 0]]

\* The request is gone, or its chunk produced no token.
IgnoreOutput ==
    /\ pc = "output"
    /\ InBatch # {}
    /\ status[NextOutput] = "finished" \/ ~Samples(NextOutput)
    /\ TakeOutput(NextOutput)
    /\ UNCHANGED <<pc, queues, reqs, grammar, kv, step, worker, finished>>

\* _update_request_with_output: the token is appended and does not stop it.
AppendOutput ==
    /\ pc = "output"
    /\ InBatch # {}
    /\ status[NextOutput] \in Live /\ Samples(NextOutput)
    /\ ~MustStop(NextOutput)
    /\ tokens' = [tokens EXCEPT ![NextOutput] = @ + 1]
    /\ TakeOutput(NextOutput)
    /\ UNCHANGED <<pc, queues, status, computed, level, age, grammar, kv, step, worker, finished>>

\* The token stops the request (length, EOS or a stop token), which is then
\* removed from the running list or, preempted in the meantime, from waiting.
StopOutput ==
    /\ pc = "output"
    /\ InBatch # {}
    /\ status[NextOutput] \in Live /\ Samples(NextOutput)
    /\ FreeRequest(NextOutput)
    /\ IF status[NextOutput] = "running"
          THEN running' = Without(running, NextOutput) /\ UNCHANGED waiting
          ELSE waiting' = Without(waiting, NextOutput) /\ UNCHANGED running
    /\ TakeOutput(NextOutput)
    /\ UNCHANGED <<pc, qlvl, overflow, skipped, grammar, step, worker>>

EndOutput ==
    /\ pc = "output"
    /\ InBatch = {}
    /\ batches' = Tail(batches)
    /\ pc' = "input"
    /\ UNCHANGED <<queues, reqs, grammar, kv, step, worker, finished>>

-----------------------------------------------------------------------------
Schedule ==
    \/ \E d \in Elapsed : BeginSchedule(d)
    \/ AdmitOverflow \/ ReorderRunning
    \/ LeaveRunningLoop \/ PickRunning \/ ScheduleRunning \/ ShrinkRunning \/ PreemptRunning
    \/ LeaveWaitingLoop \/ SkipWaiting \/ PickWaiting
    \/ ShrinkWaiting \/ BlockedWaiting \/ ScheduleWaiting
    \/ EndSchedule
UpdateFromOutput == DrainBatches \/ IgnoreOutput \/ AppendOutput \/ StopOutput \/ EndOutput
EngineStep == Schedule \/ UpdateFromOutput

Clients == \E r \in Requests : AddRequest(r) \/ FinishRequest(r)

\* Every request is done with and the engine blocks on its input queue.
Idle ==
    /\ pc = "input" /\ ~HasRequests /\ batches = <<>>
    /\ \A r \in Requests : status[r] = "finished"
    /\ UNCHANGED vars

Next ==
    \/ EngineStep
    \/ Clients
    \/ \E r \in Requests : GrammarReady(r)
    \/ Idle

Spec == Init /\ [][Next]_vars

\* The busy loop never stops and grammar compilation terminates; clients owe nothing.
Fairness ==
    /\ WF_vars(EngineStep)
    /\ \A r \in Requests : WF_vars(GrammarReady(r))
FairSpec == Spec /\ Fairness

-----------------------------------------------------------------------------
Total(f) == FoldFunction(+, 0, f)

TypeOK ==
    /\ pc \in PCs
    /\ running \in Seq(Requests) /\ waiting \in Seq(Requests)
    /\ overflow \in Seq(Requests) /\ skipped \in Seq(Requests)
    /\ qlvl \in [Requests -> 0..(NumLevels - 1)]
    /\ status \in [Requests -> Live \cup {"new", "finished"}]
    /\ grammar \subseteq Structured
    /\ computed \in [Requests -> Nat] /\ tokens \in [Requests -> Nat]
    /\ level \in [Requests -> 0..(NumLevels - 1)]
    /\ age \in [Requests -> Nat \cup {NoAge}]
    /\ held \in [Requests -> Nat] /\ free \in Int
    /\ idx \in Int /\ budget \in Int /\ attempt \in Int
    /\ sched \in [Requests -> Int]
    /\ preempted \subseteq Requests /\ newReqs \subseteq Requests
    /\ batches \in Seq([Requests -> Int])
    /\ worker \subseteq Requests /\ finished \subseteq Requests

\* A live request is queued in exactly one place, once, and its status says
\* which: preemption, abort, overflow admission and late outputs never lose
\* or duplicate a request.
QueuePartition ==
    LET all == running \o waiting \o skipped \o overflow
    IN  /\ IsInjective(all)
        /\ ToSet(all) = {r \in Requests : status[r] \in Live}
        /\ ToSet(running) = {r \in Requests : status[r] = "running"}

\* Blocks are neither leaked nor handed out twice, whatever is preempted,
\* aborted or finished in between.
KVConservation == free + Total(held) = NumBlocks

\* The pool is never overdrawn, whoever is not running holds no blocks, and
\* every token computed or scheduled has a slot: preemption and the reuse of
\* a request's counters never leave a running request short of blocks.
SlotsCovered ==
    /\ free >= 0
    /\ \A r \in Requests : status[r] # "running" => held[r] = 0
    /\ \A r \in Requests : held[r] * BlockSize >= computed[r] + sched[r]

InSchedule == pc \in PCs \ {"input", "output"}

\* The step's token accounting survives unscheduling: what is scheduled and
\* what is left add up to the batch limit, only running requests are
\* scheduled, and nobody at or behind the cursor is scheduled already.
BudgetExact ==
    InSchedule =>
        /\ budget >= 0
        /\ budget + Total(sched) = MaxBatchTokens
        /\ Scheduled \subseteq ToSet(running)
        /\ \A i \in DOMAIN running : i > idx => sched[running[i]] = 0
        /\ idx <= Len(running)
        /\ pc = "alloc" => idx < Len(running)

\* The scheduler's two accounts, blocks and tokens, are exact.
AccountsExact == KVConservation /\ BudgetExact

\* The active window bounds running and waiting requests together.
WindowBound ==
    /\ Len(running) + Len(waiting) + Len(skipped) <= Window
    /\ Len(running) <= MaxRunning

\* The waiting queue is ordered by level, as insertion behind the last request of
\* a level requires: also after the requests that a step has set aside have been
\* put back in front of it.
WaitingSorted == \A i, j \in DOMAIN waiting : i < j => qlvl[waiting[i]] <= qlvl[waiting[j]]

\* The workers know exactly the requests that have been in a batch and whose
\* end they have not been told yet: a resumed or running request is never sent
\* to a worker that does not know it, and no state stays behind.
WorkerKnowsScheduled ==
    /\ pc = "commit" => Scheduled \subseteq WorkerUpdate
    /\ \A r \in Requests : status[r] = "preempted" => r \in worker
    /\ ~HasRequests /\ pc = "input" => worker = {}

\* Every request a client submits is eventually answered in full (or aborted).
EventuallyFinished == \A r \in Requests : (status[r] \in Live) ~> (status[r] = "finished")
=============================================================================
