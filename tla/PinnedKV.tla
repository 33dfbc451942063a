------------------------------- MODULE PinnedKV -------------------------------
(***************************************************************************)
(* KV retention: a finished turn of an agent's conversation keeps its      *)
(* blocks ("pin") while the agent runs a tool, so that the next turn hits   *)
(* them.  Scheduler under the policies CONTINUUM, CONTINUUM_DY, INFERCEPT   *)
(* and INFERCEPT_SWAP without a connector, ContinuumRequestQueue, and the   *)
(* scheduler's engine core loop, over the blocks of KVCache.               *)
(*                                                                         *)
(* How long a pin lasts comes from the tool call estimator, which is left   *)
(* out: a finished turn is retained for any time up to MaxHold, or not at   *)
(* all.  Time passes between calls of schedule().                          *)
(***************************************************************************)
EXTENDS KVCache

CONSTANTS
    Job,          \* job_id of every request
    Prompt,       \* number of prompt tokens of every request
    IsLastStep,   \* is_last_step of every request
    Before,       \* the turns that are over before the agent sends this one
    MaxRunning,   \* max_num_running_reqs
    MaxBatch,     \* max_num_scheduled_tokens
    LongPrefill,  \* long_prefill_token_threshold; 0 (the default) when there is none
    None,         \* no request
    MaxHold       \* longest retention, in ticks

ASSUME RetentionAssumption ==
    /\ None \notin Requests
    /\ MaxRunning \in Nat \ {0} /\ MaxBatch \in Nat \ {0} /\ MaxHold \in Nat
    /\ LongPrefill \in Nat
    /\ Prompt \in [Requests -> Nat]
    /\ \A r \in Requests :
          /\ Prompt[r] \in 1..(Len(Content[r]) - 1)
          \* The pool holds any one request: check_enough_kv_cache_memory (which
          \* does not count the null block).
          /\ Cdiv(Len(Content[r]) - 1, BlockSize) <= NumBlocks
          /\ Before[r] \subseteq Requests
          /\ IsLastStep[r] \in BOOLEAN

VARIABLES
    continuum,  \* TRUE: CONTINUUM, CONTINUUM_DY; FALSE: INFERCEPT, INFERCEPT_SWAP
    status,     \* "new" before arrival, then RequestStatus
    tokens,     \* num_tokens: prompt and output
    running,    \* Scheduler.running
    waiting,    \* Scheduler.waiting, in the order of the deque
    jobs,       \* jobs by first entry time, earliest first
    pins,       \* pinned_requests: request and ticks left until its end time
    unreported, \* finished_req_ids is not empty
    pc,         \* where the engine core is
    index,      \* req_index
    current,    \* the request in hand in the RUNNING loop or in _free_blocks
    budget,     \* token_budget
    attempt,    \* attempt_tokens of the request in hand in the RUNNING loop
    batch,      \* num_scheduled_tokens in its order; later, outputs not yet handled
    preempted   \* preempted_reqs is not empty

queues == <<status, tokens, running, waiting, jobs, pins, unreported>>
step == <<index, current, budget, attempt, batch, preempted>>
vars == <<continuum, kv, queues, pc, step>>

Smallest(a, b) == IF a <= b THEN a ELSE b

Init ==
    /\ continuum \in BOOLEAN
    /\ CacheInit
    /\ status = [r \in Requests |-> "new"]
    /\ tokens = Prompt
    /\ running = <<>> /\ waiting = <<>> /\ jobs = <<>> /\ pins = <<>>
    /\ unreported = FALSE
    /\ pc = "input"
    /\ index = 1 /\ current = None /\ budget = 0 /\ attempt = 0
    /\ batch = <<>> /\ preempted = FALSE

-----------------------------------------------------------------------------
(* Pins *)

\* kv_cache_manager.free, which finds nothing to do for a request without blocks.
FreeKV(r) == IF table[r] = <<>> THEN UNCHANGED kv ELSE Free(r)

WaitingJobs == {Job[r] : r \in ToSet(waiting)}
\* unpin_requests_regular drops a pin at its end time, unless its job waits.
Expired(p) == p.left = 0 /\ Job[p.req] \notin WaitingJobs

\* Mutant: the pin goes, the blocks stay.
UnpinOnly(i) == pins' = RemoveAt(pins, i) /\ UNCHANGED kv
\* unpin_request: the pin goes and its blocks are freed.
Unpin(i) == pins' = RemoveAt(pins, i) /\ FreeKV(pins[i].req)

\* The pin with the latest end time; ends that differ by less than a tick, or
\* are past, may be ordered either way.
IsLatest(i) == \A j \in DOMAIN pins : pins[j].left <= pins[i].left

\* Time passes while the engine core waits for the next message or step.
Tick ==
    /\ pc = "input"
    /\ \E p \in ToSet(pins) : p.left > 0
    /\ pins' = [i \in DOMAIN pins |->
                    [pins[i] EXCEPT !.left = IF @ = 0 THEN 0 ELSE @ - 1]]
    /\ UNCHANGED <<kv, status, tokens, running, waiting, jobs, unreported, pc, step>>

-----------------------------------------------------------------------------
(* Clients *)

AddRequest(r) ==
    /\ pc = "input"
    /\ status[r] = "new"
    /\ \A b \in Before[r] : status[b] = "finished"
    /\ status' = [status EXCEPT ![r] = "waiting"]
    /\ jobs' = IF Contains(jobs, Job[r]) THEN jobs ELSE Append(jobs, Job[r])
    /\ waiting' = Append(waiting, r)
    /\ UNCHANGED <<kv, tokens, running, pins, unreported, pc, step>>

\* _free_request: r is finished and _free_blocks begins.
BeginFree(r) ==
    /\ status' = [status EXCEPT ![r] = "finished"]
    /\ unreported' = TRUE
    /\ current' = r
    /\ pc' = "free"

\* finish_requests: a client aborts a request, whatever it is doing.
Abort(r) ==
    /\ pc = "input"
    /\ status[r] \notin {"new", "finished"}
    /\ running' = Without(running, r)
    /\ waiting' = Without(waiting, r)
    /\ BeginFree(r)
    /\ UNCHANGED <<kv, tokens, jobs, pins, index, budget, attempt, batch, preempted>>

-----------------------------------------------------------------------------
(* _free_blocks *)

\* Mutant: the pins of earlier turns are left alone.
NoPinOfJob(r) == {}
PinsOfJob(r) == {i \in DOMAIN pins : Job[pins[i].req] = Job[r]}

\* The pins of the same job are dropped, first to last.
UnpinJob ==
    /\ pc = "free"
    /\ PinsOfJob(current) # {}
    /\ Unpin(CHOOSE i \in PinsOfJob(current) : \A j \in PinsOfJob(current) : i <= j)
    /\ UNCHANGED <<status, tokens, running, waiting, jobs, unreported, pc, step>>

\* Mutant: the blocks are given back although the turn is pinned.
PinAndFree(r, hold) == pins' = Append(pins, [req |-> r, left |-> hold]) /\ FreeKV(r)
\* pin_request
PinRequest(r, hold) == pins' = Append(pins, [req |-> r, left |-> hold]) /\ UNCHANGED kv

\* A last step has no next turn.  CONTINUUM retains another turn for a fixed
\* time if its tool is fast, CONTINUUM_DY for the time that pays best.
ContinuumHold(r) == IF IsLastStep[r] THEN {0} ELSE 0..MaxHold
\* INFERCEPT retains a tool call for the expected time of the tool if that costs
\* less than computing its prefix again, and evicts it otherwise.
InferceptHold(r) == IF IsLastStep[r] THEN {0} ELSE 0..MaxHold

RetainOrFree ==
    /\ pc = "free"
    /\ PinsOfJob(current) = {}
    /\ \E hold \in IF continuum THEN ContinuumHold(current) ELSE InferceptHold(current) :
          \/ hold > 0 /\ PinRequest(current, hold)
          \/ hold = 0 /\ FreeKV(current) /\ UNCHANGED pins
    /\ pc' = "output"
    /\ current' = None
    /\ UNCHANGED <<status, tokens, running, waiting, jobs, unreported,
                   index, budget, attempt, batch, preempted>>

-----------------------------------------------------------------------------
(* schedule() *)

HasRequests == running # <<>> \/ waiting # <<>> \/ unreported

BeginSchedule ==
    /\ pc = "input"
    /\ HasRequests
    /\ pc' = "unpin"
    /\ UNCHANGED <<kv, queues, step>>

UnpinExpired ==
    /\ pc = "unpin"
    /\ \E i \in DOMAIN pins :
          /\ Expired(pins[i])
          /\ \A j \in 1..(i - 1) : ~Expired(pins[j])
          /\ Unpin(i)
    /\ UNCHANGED <<status, tokens, running, waiting, jobs, unreported, pc, step>>

BeginRunning ==
    /\ pc = "unpin"
    /\ \A p \in ToSet(pins) : ~Expired(p)
    /\ pc' = "running"
    /\ index' = 1 /\ budget' = MaxBatch /\ batch' = <<>> /\ preempted' = FALSE
    /\ UNCHANGED <<kv, queues, current, attempt>>

\* Mutant: a chunk may exceed what is left of the batch.
NewTokensUncapped(r, done) == tokens[r] - done
NewTokens(r, done) ==
    LET left == tokens[r] - done
    IN  Smallest(IF LongPrefill \in 1..(left - 1) THEN LongPrefill ELSE left, budget)

PickRunning ==
    /\ pc = "running"
    /\ index <= Len(running) /\ budget > 0
    /\ current' = running[index]
    /\ attempt' = NewTokens(running[index], computed[running[index]])
    /\ pc' = "alloc"
    /\ UNCHANGED <<kv, queues, index, budget, batch, preempted>>

\* The waiting queue is left alone in a step that has preempted a request.
LeaveRunning ==
    /\ pc = "running"
    /\ index > Len(running) \/ budget = 0
    /\ pc' = IF preempted THEN "commit" ELSE "waiting"
    /\ UNCHANGED <<kv, queues, step>>

\* The attempt is not enlarged by what a preemption gives back to the budget.
Slots(r) == computed[r] + attempt
OutOfBlocks == pc = "alloc" /\ ~CanAllocate(current, <<>>, Slots(current))

ScheduleRunning ==
    /\ pc = "alloc"
    /\ ~OutOfBlocks
    /\ AllocateSlots(current, <<>>, Slots(current))
    /\ batch' = Append(batch, [req |-> current, num |-> attempt])
    /\ budget' = budget - attempt
    /\ index' = index + 1
    /\ current' = None /\ attempt' = 0
    /\ pc' = "running"
    /\ UNCHANGED <<queues, preempted>>

\* With nobody else to preempt, continuum gives up the pin that would last longest.
ReleasesPin == continuum /\ Len(running) <= 1

ReleasePin ==
    /\ OutOfBlocks
    /\ ReleasesPin
    /\ \E i \in DOMAIN pins : IsLatest(i) /\ Unpin(i)
    /\ UNCHANGED <<status, tokens, running, waiting, jobs, unreported, pc, step>>

\* Continuum preempts the job that came last, a final step only when there is
\* nothing else, the first of several; the other policies the last of the list.
EntryOf(r) == Position(jobs, Job[r])
Victim ==
    LET resumable == {i \in DOMAIN running : ~IsLastStep[running[i]]}
        among == IF resumable # {} THEN resumable ELSE DOMAIN running
        first == CHOOSE i \in among : \A j \in among :
                    \/ EntryOf(running[j]) < EntryOf(running[i])
                    \/ EntryOf(running[j]) = EntryOf(running[i]) /\ i <= j
    IN  IF continuum THEN running[first] ELSE Last(running)

\* A victim that was scheduled in this step is taken out of the batch again.
\* req_index is not adjusted, unlike for the policies that know the victim's
\* place: the request behind the one in hand may be passed over in this step.
PreemptRunning ==
    /\ OutOfBlocks
    /\ ~ReleasesPin
    /\ \E v \in {Victim} : LET mine == {b \in ToSet(batch) : b.req = v} IN
           /\ running' = Without(running, v)
           /\ FreeKV(v)
           /\ status' = [status EXCEPT ![v] = "preempted"]
           /\ waiting' = <<v>> \o waiting
           /\ batch' = Removed(batch, mine)
           /\ budget' = IF mine = {} THEN budget ELSE budget + (CHOOSE b \in mine : TRUE).num
           /\ pc' = IF v = current THEN "commit" ELSE "alloc"
           /\ current' = IF v = current THEN None ELSE current
           /\ attempt' = IF v = current THEN 0 ELSE attempt
    /\ preempted' = TRUE
    /\ UNCHANGED <<tokens, jobs, pins, unreported, index>>

\* ContinuumRequestQueue.peek_request: the jobs with a pin first, then the job
\* that came first; the other policies have a plain FCFS queue.
Peek ==
    LET pinned == {i \in DOMAIN waiting : \E p \in ToSet(pins) : Job[p.req] = Job[waiting[i]]}
        among == IF pinned # {} THEN pinned ELSE DOMAIN waiting
        first == CHOOSE i \in among : \A j \in among :
                    \/ EntryOf(waiting[i]) < EntryOf(waiting[j])
                    \/ EntryOf(waiting[i]) = EntryOf(waiting[j]) /\ i <= j
    IN  IF continuum THEN waiting[first] ELSE Head(waiting)

MayAdmit == waiting # <<>> /\ budget > 0 /\ Len(running) < MaxRunning
Hits(r) == HitBlocks(r, tokens[r])
HitTokens(r) == Len(Hits(r)) * BlockSize
FirstSlots(r) == HitTokens(r) + NewTokens(r, HitTokens(r))

ScheduleWaiting ==
    /\ pc = "waiting"
    /\ MayAdmit
    /\ \E r \in {Peek} :
           /\ AllocateSlots(r, Hits(r), FirstSlots(r))
           /\ waiting' = Without(waiting, r)
           /\ running' = Append(running, r)
           /\ status' = [status EXCEPT ![r] = "running"]
           /\ batch' = Append(batch, [req |-> r, num |-> NewTokens(r, HitTokens(r))])
           /\ budget' = budget - NewTokens(r, HitTokens(r))
    /\ UNCHANGED <<tokens, jobs, pins, unreported, pc, index, current, attempt, preempted>>

\* Mutant: no pin is given up for a waiting request.
GivesUpNothing == FALSE
GivesUpPin == running = <<>> /\ pins # <<>>

\* No blocks for the request at the head: if nothing runs a pin is given up for
\* a later step, and the loop ends in any case.
BlockedWaiting ==
    /\ pc = "waiting"
    /\ MayAdmit
    /\ \E r \in {Peek} : ~CanAllocate(r, Hits(r), FirstSlots(r))
    /\ IF GivesUpPin THEN \E i \in DOMAIN pins : IsLatest(i) /\ Unpin(i)
                     ELSE UNCHANGED <<pins, kv>>
    /\ pc' = "commit"
    /\ UNCHANGED <<status, tokens, running, waiting, jobs, unreported, step>>

LeaveWaiting ==
    /\ pc = "waiting"
    /\ ~MayAdmit
    /\ pc' = "commit"
    /\ UNCHANGED <<kv, queues, step>>

\* _update_after_schedule: finished ids have been reported to the workers, which
\* execute the step before update_from_output sees its outputs.
EndSchedule ==
    /\ pc = "commit"
    /\ unreported' = FALSE
    /\ pc' = "output"
    /\ WriteBatch
    /\ UNCHANGED <<status, tokens, running, waiting, jobs, pins, step>>

-----------------------------------------------------------------------------
(* update_from_output() *)

\* A request whose computed tokens have caught up gets a new one.
Output ==
    /\ pc = "output"
    /\ batch # <<>>
    /\ LET r == Head(batch).req
           sampled == computed[r] = tokens[r]
           stops == sampled /\ tokens[r] + 1 = Len(Content[r])
       IN  /\ tokens' = IF sampled THEN [tokens EXCEPT ![r] = @ + 1] ELSE tokens
           /\ IF stops THEN BeginFree(r) /\ running' = Without(running, r)
                       ELSE UNCHANGED <<status, unreported, current, pc, running>>
    /\ batch' = Tail(batch)
    /\ UNCHANGED <<kv, waiting, jobs, pins, index, budget, attempt, preempted>>

EndOutput ==
    /\ pc = "output"
    /\ batch = <<>>
    /\ pc' = "input"
    /\ index' = 1 /\ budget' = 0 /\ preempted' = FALSE
    /\ UNCHANGED <<kv, queues, current, attempt, batch>>

-----------------------------------------------------------------------------
FreeBlocks == UnpinJob \/ RetainOrFree
Schedule ==
    \/ BeginSchedule \/ UnpinExpired \/ BeginRunning
    \/ PickRunning \/ LeaveRunning \/ ScheduleRunning \/ ReleasePin \/ PreemptRunning
    \/ ScheduleWaiting \/ BlockedWaiting \/ LeaveWaiting \/ EndSchedule
UpdateFromOutput == Output \/ EndOutput
EngineStep == Schedule \/ UpdateFromOutput \/ FreeBlocks

\* Every request is over and nothing is left to report.
Idle ==
    /\ pc = "input"
    /\ ~HasRequests
    /\ \A r \in Requests : status[r] = "finished"
    /\ UNCHANGED vars

Next ==
    /\ \/ EngineStep
       \/ Tick
       \/ \E r \in Requests : AddRequest(r) \/ Abort(r)
       \/ Idle
    /\ UNCHANGED continuum  \* configured at start-up

\* The engine core never stops while it has requests.  Nothing is assumed about
\* clients, nor about time: a pin may seem to last for ever.
Spec == Init /\ [][Next]_vars /\ WF_vars(EngineStep /\ UNCHANGED continuum)

-----------------------------------------------------------------------------
TypeOK ==
    /\ continuum \in BOOLEAN
    /\ CacheTypeOK
    /\ status \in [Requests -> {"new", "waiting", "running", "preempted", "finished"}]
    /\ \A r \in Requests : tokens[r] \in Prompt[r]..Len(Content[r])
    /\ running \in Seq(Requests) /\ waiting \in Seq(Requests)
    /\ pins \in Seq([req : Requests, left : 0..MaxHold])
    /\ pc \in {"input", "unpin", "running", "alloc", "waiting", "commit", "output", "free"}
    /\ index \in 1..(Len(running) + Cardinality(Requests) + 1)
    /\ current \in Requests \cup {None}
    /\ budget \in 0..MaxBatch /\ attempt \in 0..MaxBatch
    /\ batch \in Seq([req : Requests, num : 1..MaxBatch])
    /\ unreported \in BOOLEAN /\ preempted \in BOOLEAN

\* Nothing is retained by accident: blocks belong to a running request, to a
\* finished turn that is pinned, or to the one being freed, and a job has at
\* most one pinned turn.
RetainedByPinOnly ==
    /\ \A r \in Requests : table[r] # <<>> =>
          \/ status[r] = "running"
          \/ status[r] = "finished" /\ (r = current \/ \E p \in ToSet(pins) : p.req = r)
    /\ \A i, j \in DOMAIN pins : i # j => Job[pins[i].req] # Job[pins[j].req]

\* What a pin is for: as long as a completed turn is pinned, the job's next turn
\* finds all of it that belongs to its own prompt in the cache, in whole blocks,
\* whatever was evicted in between.
PinKeepsPrefix ==
    \A p \in ToSet(pins), r \in ToSet(waiting) :
        Job[p.req] = Job[r] /\ tokens[p.req] = Len(Content[p.req]) =>
            \A i \in 1..Smallest(MaxHit(tokens[r]), MaxHit(tokens[p.req])) :
                HashOf(r, i) = HashOf(p.req, i) => i <= HitLength(r, tokens[r])

\* The blocks that get_computed_blocks returns for the next request to be admitted
\* are computed: written by an earlier step, or by this one.
HitsComputed == pc = "waiting" /\ MayAdmit => ToSet(Hits(Peek)) \cap blank = {}

\* Pins retain what they are for, nothing else is retained, and, where the last
\* running request is the one preempted, hits are computed.
PinsSound == TypeOK /\ RetainedByPinOnly /\ PinKeepsPrefix /\ (~continuum => HitsComputed)

\* pop_running_request_based_on_last_step never has to raise IndexError: when a
\* running request is out of blocks there is another one to preempt or a pin to
\* give up.
AlwaysAVictim == OutOfBlocks /\ ReleasesPin => pins # <<>>

\* Every request that was submitted is answered or aborted (each at most once,
\* so it is enough that none is left again and again), even if no pin expires.
EventuallyFinished == []<>(\A r \in Requests : status[r] \in {"new", "finished"})
=============================================================================
