------------------------------- MODULE LightLLM -------------------------------
(***************************************************************************)
(* The LightLLM policy of the scheduler (lightllm_policy.py and the        *)
(* LIGHTLLM branches of scheduler.py) over the blocks of KVCache: every    *)
(* step first previews the waiting queue and admits requests by their      *)
(* estimated peak of KV tokens, then runs either the prefill or the decode *)
(* class.  An admitted request that is not of the class waits on           *)
(* ("deferred") and holds the blocks of its prefix hit.                    *)
(***************************************************************************)
EXTENDS KVCache, FiniteSetsExt

CONSTANTS
    Prompt,         \* num_prompt_tokens of every request
    MaxNew,         \* max_tokens of every request
    MaxRunning,     \* max_num_running_reqs
    MaxBatch,       \* max_num_scheduled_tokens
    ChunkSize,      \* lightllm_chunked_prefill_size
    RouterWait,     \* router_max_wait_tokens
    BusyBlocks,     \* used blocks from which on the router is busy
    AddedOutputLen, \* ADDED_OUTPUT_LEN
    MinOutput,      \* the shortest output the average observes (64)
    InitialEma,     \* INITIAL_EMA_OUTPUT_LEN
    IgnoreEos,      \* requests with ignore_eos
    Abortable,      \* requests whose clients may abort them
    None            \* no request

ASSUME PolicyAssumption ==
    /\ None \notin Requests
    /\ MaxRunning \in Nat \ {0}
    /\ MaxBatch \in Nat \ {0} /\ ChunkSize \in 1..MaxBatch
    /\ RouterWait \in Nat /\ BusyBlocks \in Nat /\ AddedOutputLen \in Nat
    /\ MinOutput \in Nat /\ InitialEma \in Nat /\ InitialEma >= MinOutput
    /\ Prompt \in [Requests -> Nat]
    /\ \A r \in Requests :
          /\ Prompt[r] \in 1..(Len(Content[r]) - 1)
          \* The pool holds any one request: check_enough_kv_cache_memory (which
          \* does not count the null block).
          /\ Cdiv(Len(Content[r]) - 1, BlockSize) <= NumBlocks
          /\ Len(Content[r]) - Prompt[r] <= MaxNew[r]
    /\ Abortable \subseteq Requests /\ IgnoreEos \subseteq Requests

VARIABLES
    status,     \* "new" before arrival, then RequestStatus
    tokens,     \* num_tokens: prompt and output
    running,    \* Scheduler.running
    waiting,    \* Scheduler.waiting
    held,       \* _lightllm_deferred: the hit blocks each of them holds
    ema,        \* ema_output_len
    unreported, \* finished_req_ids is not empty
    pc,         \* where the engine core is
    fresh,      \* admitted by this step's preview
    busy,       \* is_busy for all of this step's preview
    prefill,    \* lightllm_prefill_step
    selected,   \* lightllm_selected_prefill_ids
    index,      \* req_index
    current,    \* the request in hand in the RUNNING loop
    budget,     \* token_budget
    batch,      \* num_scheduled_tokens in its order; later, outputs not yet handled
    preempted,  \* preempted_reqs is not empty
    skipped     \* skipped_waiting_requests

queues == <<status, tokens, running, waiting, held, ema, unreported>>
preview == <<fresh, busy, prefill, selected>>
step == <<index, current, budget, batch, preempted, skipped>>
vars == <<kv, queues, pc, preview, step>>

Smallest(a, b) == IF a <= b THEN a ELSE b
Largest(a, b) == IF a >= b THEN a ELSE b

Deferred == DOMAIN held
Dropped(r) == [d \in Deferred \ {r} |-> held[d]]
HitTokens(r) == Len(held[r]) * BlockSize

Init ==
    /\ CacheInit
    /\ status = [r \in Requests |-> "new"]
    /\ tokens = Prompt
    /\ running = <<>> /\ waiting = <<>> /\ held = <<>>
    /\ ema = InitialEma
    /\ unreported = FALSE
    /\ pc = "input"
    /\ fresh = {} /\ busy = FALSE /\ prefill = FALSE /\ selected = {}
    /\ index = 1 /\ current = None /\ budget = 0 /\ batch = <<>>
    /\ preempted = FALSE /\ skipped = <<>>

-----------------------------------------------------------------------------
(* LightLLMRequestState and LightLLMAdmissionController *)

OutputLen(r) == tokens[r] - Prompt[r]

\* token_tuple: what request r with kvLen tokens of KV holds from now on at
\* least (a), and for how many more steps it grows (b).
EstimatedOutput(r) ==
    IF busy \/ r \in IgnoreEos THEN MaxNew[r]
    ELSE Smallest(MaxNew[r], Largest((11 * OutputLen(r)) \div 10, ema))
ALen(r, kvLen) == Largest(tokens[r] + 1, kvLen + 1)
BLen(r, kvLen) ==
    LET chunks == Cdiv(tokens[r] - kvLen, ChunkSize)
    IN  Largest(0, chunks * (RouterWait + 1) + EstimatedOutput(r) - OutputLen(r) - 1)
            + AddedOutputLen

\* Mutant: requests are admitted whatever they will need.
NoPeak(kvLen) == 0
\* estimate_peak_tokens: with the requests that grow longest first, the most
\* that the first i of them hold when the i-th is done.  kvLen gives the KV
\* length of every request of the estimate.
PeakTokens(kvLen) ==
    LET b(r) == BLen(r, kvLen[r])
        outlive(r) == {s \in DOMAIN kvLen : b(s) >= b(r)}
        peak(r) == b(r) * Cardinality(outlive(r))
                     + MapThenSumSet(LAMBDA s : ALen(s, kvLen[s]), outlive(r))
    IN  Max({peak(r) : r \in DOMAIN kvLen} \cup {0})

NeedTokens(r, kvLen) == Smallest(Largest(0, tokens[r] - kvLen), ChunkSize)
FirstNeedTokens(r) == Smallest(tokens[r], ChunkSize)
IsDecode(r, kvLen) == kvLen + 1 = tokens[r]

\* Mutant: the requests that were admitted before and deferred are not counted.
RunningOnly == ToSet(running) \cup fresh
\* The requests that count against the next candidate.
Active == ToSet(running) \cup Deferred
\* A request admitted in this preview counts as before its prefix lookup.
KvLen(r) == IF r \in Deferred \ fresh THEN HitTokens(r) ELSE computed[r]
NeedOfActive == MapThenSumSet(LAMBDA s : NeedTokens(s, KvLen(s)), Active)

\* evaluate
Admits(r) ==
    /\ PeakTokens([s \in Active \cup {r} |-> KvLen(s)]) < NumBlocks * BlockSize
    /\ Cardinality(Active) + 1 <= MaxRunning
    /\ NeedOfActive + FirstNeedTokens(r) <= 2 * MaxBatch

\* update_output_ema: the average moves towards the output that was observed.
UpdateEma(r) ==
    LET observed == Largest(tokens'[r] - Prompt[r], MinOutput)
    IN  ema' \in Smallest(ema, observed)..Largest(ema, observed)

-----------------------------------------------------------------------------
(* Holds *)

\* Mutant: the preview looks the blocks up and does not hold them.
LookOnly(bs) == UNCHANGED kv
\* _lightllm_reserve_prefix_blocks
Reserve(bs) ==
    /\ refCnt' = AddRefs(refCnt, ToSet(bs))
    /\ freeQueue' = Touched(freeQueue, bs)
    /\ UNCHANGED <<table, numCached, computed, blockHash, cached,
                   assigned, due, blank>>

\* _lightllm_release_prefix_blocks: the counts and the free queue without the
\* hold of request r, whose last block is freed first.
ReleasedRefs(r) == DropRefs(ToSet(held[r]))
ReleasedQueue(r) == AppendN(freeQueue, Unreferenced(Reverse(held[r])))

\* Mutant: the deferred request is forgotten and its blocks stay held.
ForgetHold(r) == held' = Dropped(r) /\ UNCHANGED kv
\* _lightllm_drop_deferred
DropDeferred(r) ==
    /\ held' = Dropped(r)
    /\ refCnt' = ReleasedRefs(r)
    /\ freeQueue' = ReleasedQueue(r)
    /\ UNCHANGED <<table, numCached, computed, blockHash, cached,
                   assigned, due, blank>>

\* _free_request gives back a hold or, of a request that has run, the blocks.
FreeRequest(r) ==
    /\ status' = [status EXCEPT ![r] = "finished"]
    /\ unreported' = TRUE
    /\ IF r \in Deferred THEN DropDeferred(r)
       ELSE /\ IF table[r] = <<>> THEN UNCHANGED kv ELSE Free(r)
            /\ UNCHANGED held

-----------------------------------------------------------------------------
(* Clients *)

AddRequest(r) ==
    /\ pc = "input"
    /\ status[r] = "new"
    /\ status' = [status EXCEPT ![r] = "waiting"]
    /\ waiting' = Append(waiting, r)
    /\ UNCHANGED <<kv, tokens, running, held, ema, unreported, pc, preview, step>>

\* finish_requests; an aborted request does not count for the average.
Abort(r) ==
    /\ pc = "input"
    /\ r \in Abortable
    /\ status[r] \notin {"new", "finished"}
    /\ running' = Without(running, r)
    /\ waiting' = Without(waiting, r)
    /\ FreeRequest(r)
    /\ UNCHANGED <<tokens, ema, pc, preview, step>>

-----------------------------------------------------------------------------
(* _lightllm_prepare_step *)

HasRequests == running # <<>> \/ waiting # <<>> \/ unreported

BeginSchedule ==
    /\ pc = "input"
    /\ HasRequests
    /\ fresh' = {}
    /\ busy' = (NumBlocks - Len(freeQueue) >= BusyBlocks)
    /\ pc' = "preview"
    /\ UNCHANGED <<kv, queues, prefill, selected, step>>

Candidates == Removed(waiting, Deferred)

\* The next candidate is admitted and holds the blocks of its prefix hit.
AdmitCandidate ==
    /\ pc = "preview"
    /\ Candidates # <<>>
    /\ \E r \in {Head(Candidates)} : \E hits \in {HitBlocks(r, tokens[r])} :
          /\ Admits(r)
          /\ held' = [d \in Deferred \cup {r} |-> IF d = r THEN hits ELSE held[d]]
          /\ Reserve(hits)
          /\ fresh' = fresh \cup {r}
    /\ UNCHANGED <<status, tokens, running, waiting, ema, unreported, pc,
                   busy, prefill, selected, step>>

\* classify_for_model: pack the prefills of this step in the router's order; one
\* whose chunk does not fit is passed over, never shrunk.
Effective(r) == IF r \in Deferred THEN HitTokens(r) ELSE computed[r]
\* Mutant: a request that was deferred earlier is not classified again.
FreshOnly == running \o Kept(waiting, fresh)
RouterOrder == running \o Kept(waiting, Deferred \ fresh) \o Kept(waiting, fresh)
Pack(packed, r) ==
    LET sum == packed.sum + NeedTokens(r, Effective(r))
    IN  IF IsDecode(r, Effective(r)) \/ sum > MaxBatch THEN packed
        ELSE [sum |-> sum, ids |-> packed.ids \cup {r}]
Packed ==
    LET first[i \in 0..Len(RouterOrder)] ==
            IF i = 0 THEN [sum |-> 0, ids |-> {}] ELSE Pack(first[i - 1], RouterOrder[i])
    IN  first[Len(RouterOrder)].ids

EndPreview ==
    /\ pc = "preview"
    /\ Candidates # <<>> => ~Admits(Head(Candidates))
    /\ selected' = Packed
    /\ prefill' = (Packed # {})
    /\ pc' = "running"
    /\ index' = 1 /\ budget' = MaxBatch /\ batch' = <<>>
    /\ preempted' = FALSE /\ skipped' = <<>>
    /\ UNCHANGED <<kv, queues, fresh, busy, current>>

-----------------------------------------------------------------------------
(* The RUNNING loop *)

PassOver(r) == prefill /\ r \notin selected

SkipRunning ==
    /\ pc = "running"
    /\ index <= Len(running) /\ budget > 0
    /\ PassOver(running[index])
    /\ index' = index + 1
    /\ UNCHANGED <<kv, queues, pc, preview, current, budget, batch, preempted, skipped>>

PickRunning ==
    /\ pc = "running"
    /\ index <= Len(running) /\ budget > 0
    /\ ~PassOver(running[index])
    /\ current' = running[index]
    /\ pc' = "alloc"
    /\ UNCHANGED <<kv, queues, preview, index, budget, batch, preempted, skipped>>

\* The waiting queue is left alone in a step that has preempted a request.
LeaveRunning ==
    /\ pc = "running"
    /\ index > Len(running) \/ budget = 0
    /\ pc' = IF preempted THEN "commit" ELSE "waiting"
    /\ UNCHANGED <<kv, queues, preview, step>>

\* Mutant: a prompt is scheduled whole.
NewTokensWhole(r, done) == tokens[r] - done
\* Only what is left of the prompt is cut into chunks.
NewTokens(r, done) ==
    LET left == Smallest(tokens[r] - done, budget)
    IN  IF done < Prompt[r] THEN Smallest(left, ChunkSize) ELSE left
Slots(r) == computed[r] + NewTokens(r, computed[r])
OutOfBlocks == pc = "alloc" /\ ~CanAllocate(current, <<>>, Slots(current))

ScheduleRunning ==
    /\ pc = "alloc"
    /\ ~OutOfBlocks
    /\ AllocateSlots(current, <<>>, Slots(current))
    /\ batch' = Append(batch, [req |-> current, num |-> NewTokens(current, computed[current])])
    /\ budget' = budget - NewTokens(current, computed[current])
    /\ index' = index + 1
    /\ current' = None
    /\ pc' = "running"
    /\ UNCHANGED <<queues, preview, preempted, skipped>>

\* The last running request is preempted and waits at the head of the queue,
\* before the deferred ones.
PreemptRunning ==
    /\ OutOfBlocks
    /\ \E v \in {Last(running)} :
          /\ running' = Front(running)
          /\ Free(v)
          /\ status' = [status EXCEPT ![v] = "preempted"]
          /\ waiting' = <<v>> \o waiting
          /\ pc' = IF v = current THEN "commit" ELSE "alloc"
          /\ current' = IF v = current THEN None ELSE current
    /\ preempted' = TRUE
    /\ UNCHANGED <<tokens, held, ema, unreported, preview, index, budget, batch, skipped>>

-----------------------------------------------------------------------------
(* The WAITING loop *)

MayAdmit == waiting # <<>> /\ budget > 0 /\ Len(running) < MaxRunning
Selected(r) == IF prefill THEN r \in selected ELSE IsDecode(r, HitTokens(r))

\* A deferred request that is not of this step's class is scanned past.
SkipWaiting ==
    /\ pc = "waiting"
    /\ MayAdmit
    /\ \E r \in {Head(waiting)} :
          /\ r \in Deferred
          /\ ~Selected(r)
          /\ skipped' = Append(skipped, r)
    /\ waiting' = Tail(waiting)
    /\ UNCHANGED <<kv, status, tokens, running, held, ema, unreported, pc,
                   preview, index, current, budget, batch, preempted>>

FirstSlots(r) == HitTokens(r) + NewTokens(r, HitTokens(r))
FitsAfterRelease(r) ==
    BlocksToAllocate(ReleasedRefs(r), r, held[r], FirstSlots(r)) <= Len(ReleasedQueue(r))

\* The hold is released immediately before the allocation takes the blocks.
ScheduleWaiting ==
    /\ pc = "waiting"
    /\ MayAdmit
    /\ \E r \in {Head(waiting)} :
          /\ r \in Deferred
          /\ Selected(r)
          /\ FitsAfterRelease(r)
          /\ AllocateFrom(ReleasedRefs(r), ReleasedQueue(r), r, held[r], FirstSlots(r))
          /\ held' = Dropped(r)
          /\ running' = Append(running, r)
          /\ status' = [status EXCEPT ![r] = "running"]
          /\ batch' = Append(batch, [req |-> r, num |-> NewTokens(r, HitTokens(r))])
          /\ budget' = budget - NewTokens(r, HitTokens(r))
    /\ waiting' = Tail(waiting)
    /\ UNCHANGED <<tokens, ema, unreported, pc, preview, index, current, preempted, skipped>>

\* The loop ends at a head that the preview has rejected, and at one without
\* blocks, which takes its hold again: the blocks are back where they were.
LeaveWaiting ==
    /\ pc = "waiting"
    /\ MayAdmit /\ Head(waiting) \in Deferred =>
          Selected(Head(waiting)) /\ ~FitsAfterRelease(Head(waiting))
    /\ pc' = "commit"
    /\ UNCHANGED <<kv, queues, preview, step>>

\* Mutant: the skipped requests go back to the end of the queue.
RestoredLast == waiting \o skipped
\* The skipped requests go back to the head of the queue.
Restored == skipped \o waiting

EndSchedule ==
    /\ pc = "commit"
    /\ waiting' = Restored
    /\ skipped' = <<>>
    /\ unreported' = FALSE
    /\ pc' = "output"
    /\ WriteBatch  \* the workers execute the step
    /\ UNCHANGED <<status, tokens, running, held, ema, preview,
                   index, current, budget, batch, preempted>>

-----------------------------------------------------------------------------
(* update_from_output() *)

\* A request whose computed tokens have caught up gets a new one.
Output ==
    /\ pc = "output"
    /\ batch # <<>>
    /\ LET r == Head(batch).req
           sampled == computed[r] = tokens[r]
           stops == sampled /\ tokens[r] + 1 = Len(Content[r])
       IN  /\ tokens' = IF sampled THEN [tokens EXCEPT ![r] = @ + 1] ELSE tokens
           /\ IF stops THEN FreeRequest(r) /\ UpdateEma(r) /\ running' = Without(running, r)
                       ELSE UNCHANGED <<kv, status, unreported, held, ema, running>>
    /\ batch' = Tail(batch)
    /\ UNCHANGED <<waiting, pc, preview, index, current, budget, preempted, skipped>>

EndOutput ==
    /\ pc = "output"
    /\ batch = <<>>
    /\ pc' = "input"
    /\ index' = 1 /\ budget' = 0 /\ preempted' = FALSE
    /\ fresh' = {} /\ busy' = FALSE /\ prefill' = FALSE /\ selected' = {}
    /\ UNCHANGED <<kv, queues, current, batch, skipped>>

-----------------------------------------------------------------------------
Schedule ==
    \/ BeginSchedule \/ AdmitCandidate \/ EndPreview
    \/ SkipRunning \/ PickRunning \/ LeaveRunning \/ ScheduleRunning \/ PreemptRunning
    \/ SkipWaiting \/ ScheduleWaiting \/ LeaveWaiting \/ EndSchedule
UpdateFromOutput == Output \/ EndOutput
EngineStep == Schedule \/ UpdateFromOutput

\* Every request is over and nothing is left to report.
Idle ==
    /\ pc = "input"
    /\ ~HasRequests
    /\ \A r \in Requests : status[r] = "finished"
    /\ UNCHANGED vars

Next ==
    \/ EngineStep
    \/ \E r \in Requests : AddRequest(r) \/ Abort(r)
    \/ Idle

\* The engine core never stops while it has requests; clients may do nothing.
Spec == Init /\ [][Next]_vars /\ WF_vars(EngineStep)

-----------------------------------------------------------------------------
TypeOK ==
    /\ CacheTypeOK
    /\ status \in [Requests -> {"new", "waiting", "running", "preempted", "finished"}]
    /\ \A r \in Requests : tokens[r] \in Prompt[r]..Len(Content[r])
    /\ running \in Seq(Requests) /\ waiting \in Seq(Requests) /\ skipped \in Seq(Requests)
    /\ Deferred \subseteq Requests /\ \A r \in Deferred : held[r] \in Seq(Blocks)
    /\ ema \in Nat /\ ema >= MinOutput
    /\ pc \in {"input", "preview", "running", "alloc", "waiting", "commit", "output"}
    /\ fresh \subseteq Requests /\ selected \subseteq Requests
    /\ {busy, prefill, unreported, preempted} \subseteq BOOLEAN
    /\ index \in Nat \ {0} /\ current \in Requests \cup {None}
    /\ budget \in 0..MaxBatch
    /\ batch \in Seq([req : Requests, num : 1..MaxBatch])

\* Whatever is deferred, preempted, aborted and finished in between, a block's
\* reference count is the number of tables and of holds that have it, a block
\* is free exactly when that is zero, and only requests that wait hold.
HoldsExact ==
    /\ \A b \in Blocks :
          refCnt[b] = Cardinality({r \in Requests : Contains(table[r], b)})
                        + Cardinality({r \in Deferred : Contains(held[r], b)})
    /\ ToSet(freeQueue) = {b \in Blocks : refCnt[b] = 0}
    /\ \A i, j \in DOMAIN freeQueue : i # j => freeQueue[i] # freeQueue[j]
    /\ Deferred \subseteq ToSet(waiting) \cup ToSet(skipped)
    /\ \A r \in Requests : table[r] # <<>> <=> Contains(running, r)

\* A held prefix hit stays what the preview found, for as long as it is held:
\* the blocks' identity does not change (the branch of schedule() that looks for
\* a stale preview is never taken), they hold the request's own tokens, and what
\* they hold was written, for no request is preempted in the step that schedules it.
HeldPrefixIntact ==
    \A r \in Deferred : \A i \in DOMAIN held[r] :
        /\ blockHash[held[r][i]] = HashOf(r, i)
        /\ assigned[held[r][i]] = HashOf(r, i)
        /\ held[r][i] \notin blank

\* schedule() asserts that the admitted requests, running or deferred, never
\* exceed the limit on running requests.
AdmittedBound == Len(running) + Cardinality(Deferred) <= MaxRunning

\* Holds are counted, released with the request that waits and never stale, and
\* those who hold count against the limit on running requests.
HoldsSound == TypeOK /\ HoldsExact /\ HeldPrefixIntact /\ AdmittedBound

\* The estimate leaves room for what it has admitted: as long as a request is
\* deferred no running request runs out of blocks, so its hold costs nobody
\* theirs.  (A preempted request would wait before it, and block it.)
NoPreemptionWhileDeferred == OutOfBlocks => Deferred = {}

\* Scanning past a request never lets it lose its place: requests that wait
\* before and after a step wait in the same order.
KeepsFCFS ==
    [][LET old == skipped \o waiting
           new == skipped' \o waiting'
       IN  \A q, r \in ToSet(old) \cap ToSet(new) :
              Precedes(old, q, r) => Precedes(new, q, r)]_vars

\* Every request that was submitted is answered or aborted: a request that the
\* router has admitted is executed in the end.
EventuallyFinished == []<>(\A r \in Requests : status[r] \in {"new", "finished"})
=============================================================================
