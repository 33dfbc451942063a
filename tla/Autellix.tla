------------------------------- MODULE Autellix -------------------------------
(***************************************************************************)
(* The Autellix policy of the scheduler (the AUTELLIX branches of          *)
(* scheduler.py, AutellixRequestQueue): requests wait in one deque per     *)
(* level, enter at the level of the service their program has attained,    *)
(* are demoted when they use up a quantum, promoted when their program has *)
(* waited too long, and handled first come first served once enough jobs   *)
(* are over.  One batch at a time, no prefix caching.                      *)
(***************************************************************************)
EXTENDS QueueOrder, Functions, FiniteSetsExt

CONSTANTS
    Requests,
    Job,         \* job_id of every request
    Previous,    \* the request whose answer the client waits for, or Nobody
    LastSteps,   \* requests marked is_last_step
    Prompt,      \* num_prompt_tokens of every request
    Total,       \* num_tokens with which a request stops
    BlockSize,
    NumBlocks,   \* blocks that requests may use
    MaxRunning,  \* max_num_running_reqs
    MaxBatch,    \* max_num_scheduled_tokens
    Thresholds,  \* _autellix_service_thresholds
    Quanta,      \* _autellix_level_quanta
    Beta,        \* _autellix_beta
    FcfsAfter,   \* autellix_tail_fcfs_after_finished
    Abortable,   \* requests whose clients may abort them
    Nobody       \* no request

Jobs == {Job[r] : r \in Requests}
Levels == 1..Len(Quanta)   \* level l is the deque with index l - 1

ASSUME PolicyAssumption ==
    /\ IsFiniteSet(Requests) /\ Nobody \notin Requests
    /\ Prompt \in [Requests -> Nat \ {0}] /\ Total \in [Requests -> Nat]
    /\ \A r \in Requests : Total[r] > Prompt[r]
    /\ Previous \in [Requests -> Requests \cup {Nobody}]
    /\ \A r \in Requests : Previous[r] # Nobody => Job[Previous[r]] = Job[r]
    /\ BlockSize \in Nat \ {0} /\ NumBlocks \in Nat
    /\ MaxRunning \in Nat \ {0} /\ MaxBatch \in Nat \ {0}
    /\ Thresholds \in Seq(Nat) /\ Quanta \in Seq(Nat \ {0})
    /\ Len(Quanta) = Len(Thresholds) + 1
    /\ Beta \in Nat \ {0} /\ FcfsAfter \in Nat
    /\ LastSteps \subseteq Requests /\ Abortable \subseteq Requests

VARIABLES
    status,      \* "new" before arrival, then RequestStatus
    arrived,     \* the requests in the order of their arrival_time
    tokens,      \* num_tokens: prompt and output
    computed,    \* num_computed_tokens
    blocks,      \* blocks that each request holds
    running,     \* Scheduler.running
    policy,      \* Scheduler.policy
    queues,      \* AutellixRequestQueue._queues
    where,       \* AutellixRequestQueue._req_to_q_idx
    line,        \* the FCFS queue that takes their place
    level,       \* _autellix_q_idx
    quanta,      \* _autellix_quanta_left
    waited,      \* _autellix_wait_tokens
    served,      \* _autellix_model_tokens
    atArrival,   \* _autellix_service: the program's service on arrival
    service,     \* _autellix_program_service
    programWait, \* _autellix_program_wait
    finishedJobs,\* _autellix_finished_job_ids
    unreported,  \* finished_req_ids is not empty
    pc,          \* where the engine core is
    index,       \* req_index
    current,     \* the request in hand in the RUNNING loop
    budget,      \* token_budget
    attempt,     \* attempt_tokens of the request in hand
    num,         \* num_scheduled_tokens while it is filled; 0 when absent
    batch,       \* its keys in their order; later, outputs not yet handled
    preempted    \* preempted_reqs is not empty

reqs == <<status, arrived, tokens, computed, blocks>>
waiting == <<policy, queues, where, line>>
feedback == <<level, quanta, waited, served, atArrival>>
programs == <<service, programWait, finishedJobs>>
step == <<index, current, budget, attempt, num, batch, preempted>>
autellix == <<reqs, running, waiting, feedback, programs, unreported, pc, step>>

Smallest(a, b) == IF a <= b THEN a ELSE b
Largest(a, b) == IF a >= b THEN a ELSE b
BlocksFor(n) == (n + BlockSize - 1) \div BlockSize

Arrival(r) == Position(arrived, r)
Tally(f) == FoldFunction(+, 0, f)
FreeBlocks == NumBlocks - Tally(blocks)

AutellixInit ==
    /\ status = [r \in Requests |-> "new"]
    /\ arrived = <<>>
    /\ tokens = Prompt
    /\ computed = [r \in Requests |-> 0] /\ blocks = [r \in Requests |-> 0]
    /\ running = <<>>
    /\ policy = "AUTELLIX"
    /\ queues = [l \in Levels |-> <<>>] /\ where = <<>> /\ line = <<>>
    /\ level = [r \in Requests |-> 1] /\ quanta = [r \in Requests |-> 0]
    /\ waited = [r \in Requests |-> 0] /\ served = [r \in Requests |-> 0]
    /\ atArrival = [r \in Requests |-> 0]
    /\ service = [j \in Jobs |-> 0] /\ programWait = [j \in Jobs |-> 0]
    /\ finishedJobs = {}
    /\ unreported = FALSE
    /\ pc = "input"
    /\ index = 1 /\ current = Nobody /\ budget = 0 /\ attempt = 0 /\ preempted = FALSE
    /\ num = [r \in Requests |-> 0] /\ batch = <<>>

-----------------------------------------------------------------------------
(* AutellixRequestQueue, and the deque that replaces it *)

Map(l, r) == [s \in DOMAIN where \cup {r} |-> IF s = r THEN l ELSE where[s]]
Unmap(rs) == [s \in DOMAIN where \ rs |-> where[s]]

\* __iter__
Concat(qs) ==
    LET upTo[l \in 0..Len(Quanta)] == IF l = 0 THEN <<>> ELSE upTo[l - 1] \o qs[l]
    IN  upTo[Len(Quanta)]
WaitingList == IF policy = "FCFS" THEN line ELSE Concat(queues)

\* add_request and prepend_request
Enqueue(r, l) ==
    \/ policy = "FCFS" /\ line' = Append(line, r) /\ UNCHANGED <<queues, where>>
    \/ /\ policy = "AUTELLIX"
       /\ queues' = [queues EXCEPT ![l] = Append(@, r)]
       /\ where' = Map(l, r)
       /\ UNCHANGED line
Prepend(r) ==
    \/ policy = "FCFS" /\ line' = <<r>> \o line /\ UNCHANGED <<queues, where>>
    \/ /\ policy = "AUTELLIX"
       /\ queues' = [queues EXCEPT ![level[r]] = <<r>> \o @]
       /\ where' = Map(level[r], r)
       /\ UNCHANGED line

\* remove_request: the deque that the index names, else the first that has r.
TakeOut(r) ==
    \/ policy = "FCFS" /\ line' = Without(line, r) /\ UNCHANGED <<queues, where>>
    \/ /\ policy = "AUTELLIX"
       /\ \E holders \in {{l \in Levels : Contains(queues[l], r)}} :
             \/ holders = {} /\ UNCHANGED <<queues, where>>
             \/ /\ holders # {}
                /\ \E l \in {IF r \in DOMAIN where /\ where[r] \in holders THEN where[r]
                                                                         ELSE Min(holders)} :
                      queues' = [queues EXCEPT ![l] = Without(@, r)]
                /\ where' = Unmap({r})
       /\ UNCHANGED line

-----------------------------------------------------------------------------
(* Levels and quanta *)

\* _autellix_level_for_service
LevelForService(s) ==
    LET below == {l \in DOMAIN Thresholds : s < Thresholds[l]}
    IN  IF below = {} THEN Len(Quanta) ELSE Min(below)

\* _autellix_quantum_for_level
QuantumOf(l) == Smallest(Quanta[Smallest(l, Len(Quanta))], MaxBatch)

\* A quantum used up by tokens that ended a prefill, or by tokens that a
\* preemption took back, is granted anew.
Quantum(r) == IF quanta[r] <= 0 THEN QuantumOf(level[r]) ELSE quanta[r]

\* The tokens of the next chunk of r.
NewTokens(r) ==
    LET left == Smallest(tokens[r] - computed[r], budget)
    IN  IF policy = "FCFS" THEN left ELSE Smallest(left, Smallest(Quantum(r), MaxBatch))
FitsPool(r, n) == BlocksFor(computed[r] + n) - blocks[r] <= FreeBlocks

\* Mutant: there is a level below the last.
BelowLast(l) == l + 1
NextLevel(l) == Smallest(l + 1, Len(Quanta))

\* _autellix_on_scheduled: a request is demoted when the chunk is its whole
\* quantum and does not finish its tokens.
OnScheduled(r, n) ==
    IF policy = "FCFS" THEN UNCHANGED feedback
    ELSE LET demoted == n >= Smallest(Quantum(r), MaxBatch)
                          /\ tokens[r] - computed[r] - n > 0
             to == NextLevel(level[r])
         IN  /\ served' = [served EXCEPT ![r] = @ + n]
             /\ level' = IF demoted THEN [level EXCEPT ![r] = to] ELSE level
             /\ quanta' = [quanta EXCEPT ![r] =
                             IF demoted THEN QuantumOf(to) ELSE Quantum(r) - n]
             /\ UNCHANGED <<waited, atArrival>>

-----------------------------------------------------------------------------
(* Clients *)

\* add_request.  A client sends the last step of a program when the others are over.
NewRequest(r) ==
    /\ pc = "input"
    /\ status[r] = "new"
    /\ Previous[r] # Nobody => status[Previous[r]] = "finished"
    /\ r \in LastSteps => \A s \in Requests \ {r} : Job[s] = Job[r] => status[s] = "finished"
    /\ status' = [status EXCEPT ![r] = "waiting"]
    /\ arrived' = Append(arrived, r)
    /\ LET l == LevelForService(service[Job[r]])
       IN  /\ Enqueue(r, l)
           /\ IF policy = "FCFS" THEN UNCHANGED feedback
              ELSE /\ atArrival' = [atArrival EXCEPT ![r] = service[Job[r]]]
                   /\ waited' = [waited EXCEPT ![r] = 0]
                   /\ served' = [served EXCEPT ![r] = 0]
                   /\ level' = [level EXCEPT ![r] = l]
                   /\ quanta' = [quanta EXCEPT ![r] = QuantumOf(l)]
    /\ UNCHANGED <<tokens, computed, blocks, running, policy, programs, unreported, pc, step>>

\* Mutant: the program's service is what its last request was served.
ChargeLast(r) == served[r]
\* What the program has attained when r is over: requests of one program that
\* overlap count once.
Charge(r) == Largest(service[Job[r]], atArrival[r] + served[r])

\* _free_request: the program is charged, and its job is over when the request
\* was its last one or did not call a tool.
FreeRequest(r, calls) ==
    /\ status' = [status EXCEPT ![r] = "finished"]
    /\ blocks' = [blocks EXCEPT ![r] = 0]
    /\ unreported' = TRUE
    /\ IF policy = "FCFS" THEN UNCHANGED programs
       ELSE LET j == Job[r]
                last == r \in LastSteps
            IN  /\ service' = [service EXCEPT ![j] = IF last THEN 0 ELSE Charge(r)]
                /\ programWait' = [programWait EXCEPT ![j] = IF last THEN 0 ELSE @ + waited[r]]
                /\ finishedJobs' = IF FcfsAfter > 0 /\ (last \/ ~calls)
                                   THEN finishedJobs \cup {j} ELSE finishedJobs

\* finish_requests
Abort(r, calls) ==
    /\ pc = "input"
    /\ r \in Abortable
    /\ status[r] \notin {"new", "finished"}
    /\ running' = Without(running, r)
    /\ IF status[r] = "running" THEN UNCHANGED <<queues, where, line>> ELSE TakeOut(r)
    /\ FreeRequest(r, calls)
    /\ UNCHANGED <<arrived, tokens, computed, policy, feedback, pc, step>>

-----------------------------------------------------------------------------
(* The start of schedule() *)

HasRequests == running # <<>> \/ WaitingList # <<>> \/ unreported

\* should_promote: the wait of the program and of the request against the
\* service of both.
ShouldPromote(r) ==
    LET wait == programWait[Job[r]] + waited[r]
        attained == service[Job[r]] + served[r]
    IN  level[r] > 1 /\ attained > 0 /\ wait >= Beta * attained

\* Mutant: the promoted requests stay in the deques they wait in.
PromoteInPlace(up) == UNCHANGED <<queues, where>>
\* The promoted ones move behind the first deque, in the order they were met.
MoveUp(up) ==
    LET moved == Removed(WaitingList, Requests \ up)
    IN  /\ queues' = [l \in Levels |-> IF l = 1 THEN Removed(queues[l], up) \o moved
                                       ELSE Removed(queues[l], up)]
        /\ where' = [r \in DOMAIN where |-> IF r \in up THEN 1 ELSE where[r]]

\* The order of the running list after the promotions.
Older(a, b) == Arrival(a) < Arrival(b)
Sooner(a, b) == level'[a] < level'[b] \/ (level'[a] = level'[b] /\ Older(a, b))

\* _autellix_apply_antistarvation and _autellix_reorder_running
Promote ==
    LET active == ToSet(WaitingList) \cup ToSet(running)
        up == {r \in active : ShouldPromote(r)}
        reset(f, v) == [r \in Requests |-> IF r \in up THEN v ELSE f[r]]
    IN  /\ level' = reset(level, 1)
        /\ quanta' = reset(quanta, QuantumOf(1))
        /\ waited' = reset(waited, 0)
        /\ served' = reset(served, 0)
        /\ MoveUp(up \cap ToSet(WaitingList))
        /\ running' = Sorted(ToSet(running), Sooner)
        /\ UNCHANGED <<policy, line, atArrival>>

\* Mutant: only the requests of the first level change queues.
TopLevel == queues[1]
\* The requests that change queues.
EveryLevel == Concat(queues)

\* _autellix_maybe_switch_to_fcfs
SwitchToFcfs ==
    /\ line' = Sorted(ToSet(EveryLevel), Older)
    /\ running' = Sorted(ToSet(running), Older)
    /\ policy' = "FCFS"
    /\ queues' = [l \in Levels |-> <<>>] /\ where' = <<>>
    /\ UNCHANGED feedback

Switches == policy = "AUTELLIX" /\ FcfsAfter > 0 /\ Cardinality(finishedJobs) >= FcfsAfter

BeginSchedule ==
    /\ pc = "input"
    /\ HasRequests
    /\ CASE Switches -> SwitchToFcfs
         [] policy = "AUTELLIX" /\ ~Switches -> Promote
         [] OTHER -> UNCHANGED <<running, waiting, feedback>>
    /\ pc' = "running"
    /\ index' = 1 /\ budget' = MaxBatch /\ preempted' = FALSE
    /\ num' = [r \in Requests |-> 0] /\ batch' = <<>>
    /\ UNCHANGED <<reqs, programs, unreported, current, attempt>>

-----------------------------------------------------------------------------
(* The RUNNING loop *)

Granted(r) == IF policy = "FCFS" THEN quanta ELSE [quanta EXCEPT ![r] = Quantum(r)]

PickRunning ==
    /\ pc = "running"
    /\ index <= Len(running) /\ budget > 0
    /\ current' = running[index]
    /\ quanta' = Granted(running[index])
    /\ attempt' = NewTokens(running[index])
    /\ pc' = "alloc"
    /\ UNCHANGED <<reqs, running, waiting, level, waited, served, atArrival,
                   programs, unreported, index, budget, num, batch, preempted>>

\* The waiting queue is left alone in a step that has preempted a request.
LeaveRunning ==
    /\ pc = "running"
    /\ index > Len(running) \/ budget = 0
    /\ pc' = IF preempted THEN "commit" ELSE "waiting"
    /\ UNCHANGED <<reqs, running, waiting, feedback, programs, unreported, step>>

\* num_scheduled_tokens gets an entry for r, of n tokens.
Schedules(r, n) ==
    /\ num' = [num EXCEPT ![r] = n]
    /\ batch' = Append(batch, r)
    /\ budget' = budget - n
    /\ OnScheduled(r, n)

ScheduleRunning ==
    /\ pc = "alloc"
    /\ FitsPool(current, attempt)
    /\ blocks' = [blocks EXCEPT ![current] = BlocksFor(computed[current] + attempt)]
    /\ Schedules(current, attempt)
    /\ index' = index + 1
    /\ current' = Nobody /\ attempt' = 0
    /\ pc' = "running"
    /\ UNCHANGED <<status, arrived, tokens, computed, running, waiting, programs,
                   unreported, preempted>>

\* preempt_key; under FCFS the last running request goes.
Worse(a, b) ==
    LET est(r) == BlocksFor(computed[r])
    IN  \/ level[a] > level[b]
        \/ level[a] = level[b] /\ est(a) > est(b)
        \/ level[a] = level[b] /\ est(a) = est(b) /\ Older(b, a)
Victim ==
    IF policy = "FCFS" THEN Last(running)
    ELSE CHOOSE v \in ToSet(running) : \A r \in ToSet(running) \ {v} : Worse(v, r)

\* Mutant: the tokens of a victim that was scheduled in this step stay spent.
NoRefund(v) == 0
Refund(v) == num[v]

\* A victim scheduled earlier in this step is taken out of it; what
\* _autellix_on_scheduled has charged it stays, and the attempt in hand is not
\* enlarged by the tokens it gives back.
PreemptRunning ==
    /\ pc = "alloc"
    /\ ~FitsPool(current, attempt)
    /\ \E v \in {Victim} :
          /\ running' = Without(running, v)
          /\ num' = [num EXCEPT ![v] = 0] /\ batch' = Without(batch, v)
          /\ budget' = budget + Refund(v)
          /\ index' = IF Position(running, v) < index THEN index - 1 ELSE index
          /\ blocks' = [blocks EXCEPT ![v] = 0]
          /\ computed' = [computed EXCEPT ![v] = 0]
          /\ status' = [status EXCEPT ![v] = "preempted"]
          /\ Prepend(v)
          /\ pc' = IF v = current THEN "commit" ELSE "alloc"
          /\ current' = IF v = current THEN Nobody ELSE current
          /\ attempt' = IF v = current THEN 0 ELSE attempt
    /\ preempted' = TRUE
    /\ UNCHANGED <<arrived, tokens, policy, feedback, programs, unreported>>

-----------------------------------------------------------------------------
(* The WAITING loop *)

MayAdmit == WaitingList # <<>> /\ budget > 0 /\ Len(running) < MaxRunning

ScheduleWaiting ==
    /\ pc = "waiting"
    /\ MayAdmit
    /\ \E r \in {Head(WaitingList)} : \E n \in {NewTokens(r)} :
          /\ FitsPool(r, n)
          /\ TakeOut(r)
          /\ running' = Append(running, r)
          /\ status' = [status EXCEPT ![r] = "running"]
          /\ blocks' = [blocks EXCEPT ![r] = BlocksFor(n)]
          /\ Schedules(r, n)
    /\ UNCHANGED <<arrived, tokens, computed, policy, programs, unreported, pc,
                   index, current, attempt, preempted>>

LeaveWaiting ==
    /\ pc = "waiting"
    /\ MayAdmit => ~FitsPool(Head(WaitingList), NewTokens(Head(WaitingList)))
    /\ quanta' = IF MayAdmit THEN Granted(Head(WaitingList)) ELSE quanta
    /\ pc' = "commit"
    /\ UNCHANGED <<reqs, running, waiting, level, waited, served, atArrival,
                   programs, unreported, step>>

TotalScheduled == Tally(num)

\* Whoever was not scheduled has waited for the tokens of those who were; the
\* computed tokens advance (_update_after_schedule).
EndSchedule ==
    /\ pc = "commit"
    /\ waited' = IF policy = "FCFS" THEN waited
                 ELSE [r \in Requests |->
                          IF num[r] = 0 /\ r \in ToSet(running) \cup ToSet(WaitingList)
                          THEN waited[r] + TotalScheduled ELSE waited[r]]
    /\ computed' = [r \in Requests |-> computed[r] + num[r]]
    /\ num' = [r \in Requests |-> 0]
    /\ unreported' = FALSE
    /\ pc' = "output"
    /\ UNCHANGED <<status, arrived, tokens, blocks, running, waiting, level, quanta,
                   served, atArrival, programs, index, current, budget, attempt,
                   batch, preempted>>

-----------------------------------------------------------------------------
(* update_from_output() *)

\* A request whose computed tokens have caught up gets a new one.
Output ==
    /\ pc = "output"
    /\ batch # <<>>
    /\ LET r == Head(batch)
           sampled == computed[r] = tokens[r]
           stops == sampled /\ tokens[r] + 1 = Total[r]
       IN  /\ tokens' = IF sampled THEN [tokens EXCEPT ![r] = @ + 1] ELSE tokens
           /\ IF stops
              THEN /\ \E calls \in BOOLEAN : FreeRequest(r, calls)
                   /\ running' = Without(running, r)
              ELSE UNCHANGED <<status, blocks, unreported, programs, running>>
    /\ batch' = Tail(batch)
    /\ UNCHANGED <<arrived, computed, waiting, feedback, pc, index, current, budget,
                   attempt, num, preempted>>

EndOutput ==
    /\ pc = "output"
    /\ batch = <<>>
    /\ pc' = "input"
    /\ index' = 1 /\ budget' = 0 /\ preempted' = FALSE
    /\ UNCHANGED <<reqs, running, waiting, feedback, programs, unreported, current, attempt,
                   num, batch>>

-----------------------------------------------------------------------------
Schedule ==
    \/ BeginSchedule \/ PickRunning \/ LeaveRunning \/ ScheduleRunning \/ PreemptRunning
    \/ ScheduleWaiting \/ LeaveWaiting \/ EndSchedule
EngineStep == Schedule \/ Output \/ EndOutput

\* The engine core waits for the next message.
Idle ==
    /\ pc = "input"
    /\ ~HasRequests
    /\ UNCHANGED autellix

AutellixNext ==
    \/ EngineStep
    \/ \E r \in Requests : NewRequest(r) \/ \E calls \in BOOLEAN : Abort(r, calls)
    \/ Idle

\* The engine core never stops while it has requests; clients may do nothing.
AutellixSpec == AutellixInit /\ [][AutellixNext]_autellix /\ WF_autellix(EngineStep)

-----------------------------------------------------------------------------
AutellixTypeOK ==
    /\ status \in [Requests -> {"new", "waiting", "running", "preempted", "finished"}]
    /\ arrived \in Seq(Requests) /\ running \in Seq(Requests) /\ line \in Seq(Requests)
    /\ {tokens, computed, quanta, waited, served, atArrival} \subseteq [Requests -> Nat]
    /\ \A r \in Requests : tokens[r] \in Prompt[r]..Total[r] /\ computed[r] \in 0..tokens[r]
    /\ blocks \in [Requests -> 0..NumBlocks]
    /\ policy \in {"AUTELLIX", "FCFS"}
    /\ queues \in [Levels -> Seq(Requests)]
    /\ DOMAIN where \subseteq Requests /\ \A r \in DOMAIN where : where[r] \in Levels
    /\ level \in [Requests -> Levels]
    /\ \A r \in Requests : quanta[r] \in 0..QuantumOf(level[r])
    /\ {service, programWait} \subseteq [Jobs -> Nat]
    /\ finishedJobs \subseteq Jobs
    /\ {unreported, preempted} \subseteq BOOLEAN
    /\ pc \in {"input", "running", "alloc", "waiting", "commit", "output"}
    /\ index \in Nat \ {0} /\ current \in Requests \cup {Nobody}
    /\ budget \in 0..MaxBatch /\ attempt \in 0..MaxBatch
    /\ num \in [Requests -> 0..MaxBatch] /\ batch \in Seq(Requests)

\* Each waiting request is in the deque of its own level and nowhere else, and
\* the index names that deque: whatever is demoted, preempted, promoted, removed
\* and moved to the FCFS queue, a request never waits at a level it has left.
InOwnLevel ==
    /\ policy = "AUTELLIX" =>
          \A l \in Levels : \A i \in DOMAIN queues[l] :
              LET r == queues[l][i]
              IN  level[r] = l /\ r \in DOMAIN where /\ where[r] = l
    /\ DOMAIN where = UNION {ToSet(queues[l]) : l \in Levels}

\* No demotion, preemption, abort or change of policy loses a request or has it
\* in two places: those that wait are in the queue of the policy in force
\* once, those that run are in the running list once and hold the blocks of
\* what they have computed, and nobody else holds any.
NothingLost ==
    /\ \A r \in Requests :
          /\ status[r] \in {"waiting", "preempted"} <=> Contains(WaitingList, r)
          /\ status[r] = "running" <=> Contains(running, r)
          /\ status[r] = "running" => blocks[r] >= BlocksFor(computed[r])
          /\ status[r] # "running" => blocks[r] = 0
    /\ IsInjective(WaitingList) /\ IsInjective(running)
    /\ policy = "FCFS" => Concat(queues) = <<>>
    /\ FreeBlocks >= 0

\* Every request is in one queue, the one that its status and its level name.
QueuesSound == AutellixTypeOK /\ InOwnLevel /\ NothingLost

\* While a batch is built, it and the budget left make up the budget of the
\* step, every entry has tokens (the block allocator refuses none) and is of a
\* running request, each once: a request that is preempted after it was
\* scheduled, and has spent its quantum on that, leaves no trace in the batch.
BudgetExact ==
    pc \in {"running", "alloc", "waiting", "commit"} =>
        /\ budget + TotalScheduled = MaxBatch
        /\ ToSet(batch) = {r \in Requests : num[r] > 0}
        /\ ToSet(batch) \subseteq ToSet(running) /\ IsInjective(batch)

\* A step of a program enters with all the service that the step before it has
\* entered with and was charged since its last promotion, whichever of its
\* requests were preempted, aborted or recomputed in between.
ServiceCarriesOver ==
    \A r \in ToSet(arrived) :
        policy = "AUTELLIX" /\ Previous[r] \notin LastSteps \cup {Nobody} =>
            atArrival[r] >= atArrival[Previous[r]] + served[Previous[r]]

\* Every request that was submitted is answered or aborted, before and after the
\* change of policy, whichever of them are evicted and recomputed.  The switch is
\* part of it: without one, two prompts that fit one at a time evict each other
\* for ever, because what they compute again counts as service.
EventuallyFinished == []<>(\A r \in Requests : status[r] \in {"new", "finished"})
=============================================================================
