------------------------- MODULE MarsSchedulerProofs -------------------------
(***************************************************************************)
(* Proofs about the MARS scheduler: for any set of requests, any cache and *)
(* window sizes, any levels, and any depth of the batch queue.             *)
(***************************************************************************)
EXTENDS MarsScheduler, CollectionLemmas

\* The local variables of schedule() between its steps: what a loop knows of
\* the request it is about to schedule, and what it left behind when it ended.
Locals ==
    /\ sched \in [Requests -> Nat] /\ budget \in Nat /\ idx \in Nat /\ attempt \in Nat
    /\ \A r \in Requests : computed[r] + sched[r] <= tokens[r] /\ tokens[r] < MaxModelLen
    /\ pc \in {"input", "output", "admit"} => \A r \in Requests : sched[r] = 0
    /\ pc \in {"input", "output", "admit", "running", "alloc"} => skipped = <<>>
    /\ pc = "alloc" => /\ idx < Len(running)
                       /\ attempt <= budget
                       /\ computed[Current] + attempt <= tokens[Current]
    /\ pc = "walloc" => /\ waiting # <<>>
                        /\ Len(running) # MaxRunning
                        /\ attempt <= budget
                        /\ attempt <= tokens[NextWaiting]
    /\ pc = "output" => batches # <<>>

\* The requests that are on the running list, and those in the other lists.
OnRunning == {r \in Requests : status[r] = "running"}
OffRunning == {r \in Requests : status[r] \in Live \ {"running"}}

\* QueuePartition, list by list.
Separate ==
    /\ IsInjective(running) /\ IsInjective(waiting)
    /\ IsInjective(skipped) /\ IsInjective(overflow)
    /\ ToSet(waiting) \cap ToSet(skipped) = {}
    /\ ToSet(waiting) \cap ToSet(overflow) = {}
    /\ ToSet(skipped) \cap ToSet(overflow) = {}
    /\ ToSet(running) = OnRunning
    /\ ToSet(waiting) \cup ToSet(skipped) \cup ToSet(overflow) = OffRunning

\* Only requests that ran are in a batch, so the late output of a request that
\* is not running any more finds it in the waiting queue or finished.
Batched ==
    /\ \A i \in DOMAIN batches, r \in Requests :
          batches[i][r] > 0 => status[r] \in {"running", "preempted", "finished"}
    /\ \A r \in Requests : sched[r] > 0 => status[r] = "running"
    /\ \A r \in ToSet(overflow) : status[r] \in {"waiting", "fsm"}

IndInv == TypeOK /\ Locals /\ Separate /\ Batched /\ SlotsCovered /\ WindowBound

-----------------------------------------------------------------------------
\* There is at least one level, and one more than there are thresholds.
LEMMA LevelsType == NumLevels \in Nat \ {0} /\ NumLevels = Len(Thresholds) + 1
  BY ConfigAssumption DEF NumLevels

\* Division of naturals.
LEMMA DivisionType ==
    ASSUME NEW n \in Nat, NEW d \in Nat \ {0}
    PROVE  n \div d \in Nat
  OBVIOUS

\* The blocks for n tokens hold at least n tokens.
LEMMA BlocksCover ==
    ASSUME NEW n \in Nat
    PROVE  Blocks(n) \in Nat /\ Blocks(n) * BlockSize >= n
<1> DEFINE m == n + BlockSize - 1
<1>1. BlockSize \in Nat \ {0}
  BY ConfigAssumption
<1>2. m \in Nat
  BY <1>1
<1>3. m \div BlockSize \in Nat /\ (m \div BlockSize) * BlockSize > m - BlockSize
  BY <1>1, <1>2
<1> QED
  BY <1>1, <1>3 DEF Blocks

\* Every prompt length falls into one of the levels.
LEMMA BucketType == \A n : BucketLevel(n) \in 0..(NumLevels - 1)
<1> SUFFICES ASSUME NEW n PROVE BucketLevel(n) \in 0..(NumLevels - 1)
  OBVIOUS
<1> DEFINE A == {i \in DOMAIN Thresholds : n > Thresholds[i]}
<1>1. Len(Thresholds) \in Nat
  BY ConfigAssumption
<1>2. A \subseteq 1..Len(Thresholds)
  BY ConfigAssumption
<1>3. IsFiniteSet(1..Len(Thresholds)) /\ Cardinality(1..Len(Thresholds)) = Len(Thresholds)
  BY <1>1, SegmentCardinality
<1>4. Cardinality(A) \in Nat /\ Cardinality(A) <= Len(Thresholds)
  BY <1>2, <1>3, FS_Subset, FS_CardinalityType
<1> QED
  BY <1>1, <1>4, LevelsType DEF BucketLevel

\* Levels stay in range under demotion, aging and the remaining-work bound, so
\* that a level always has a quantum.
LEMMA EffectiveLevelType ==
    ASSUME TypeOK, NEW r \in Requests, NEW c \in Nat
    PROVE  /\ RemainingLevel(r, c) \in 0..(NumLevels - 1)
           /\ EffectiveLevel(r, c) \in 0..(NumLevels - 1)
           /\ Quantum(EffectiveLevel(r, c)) \in Nat \ {0}
<1>1. RemainingLevel(r, c) \in 0..(NumLevels - 1)
  BY BucketType, LevelsType DEF RemainingLevel
<1>2. level[r] \in 0..(NumLevels - 1)
  BY DEF TypeOK
<1>3. AgeOf(r) \in Nat
  <2>1. MaxAge \in Nat
    BY LevelsType, ConfigAssumption DEF MaxAge
  <2> QED
    BY <2>1 DEF TypeOK, AgeOf
<1>4. (IF AgingInterval = 0 THEN 0 ELSE AgeOf(r) \div AgingInterval) \in Nat
  BY <1>3, ConfigAssumption, DivisionType
<1>5. EffectiveLevel(r, c) \in 0..(NumLevels - 1)
  BY <1>1, <1>2, <1>4, LevelsType DEF EffectiveLevel, Most
<1>6. Quanta[EffectiveLevel(r, c) + 1] \in Nat \ {0}
  BY <1>5, LevelsType, ConfigAssumption DEF NumLevels
<1>7. Quantum(EffectiveLevel(r, c)) \in Nat \ {0}
  BY <1>6, ConfigAssumption DEF Quantum, Least
<1> QED
  BY <1>1, <1>5, <1>7

\* What _mars_on_scheduled writes is in range.
LEMMA OnScheduledType ==
    ASSUME TypeOK, NEW r \in Requests, NEW c, NEW n, OnScheduled(r, c, n)
    PROVE  /\ level' \in [Requests -> 0..(NumLevels - 1)]
           /\ age' \in [Requests -> Nat \cup {NoAge}]
<1>1. Demote(level[r]) \in 0..(NumLevels - 1)
  BY LevelsType DEF TypeOK, Demote, Least
<1> QED
  BY <1>1, LevelsType DEF TypeOK, OnScheduled

\* Allocation covers the tokens asked for and does not overdraw the pool.
LEMMA AllocateCovers ==
    ASSUME TypeOK, free >= 0, NEW r \in Requests, NEW c \in Nat, NEW n \in Nat,
           c + n < MaxModelLen, CanAllocate(r, c, n), Allocate(r, c, n)
    PROVE  /\ held' \in [Requests -> Nat]
           /\ free' \in Int /\ free' >= 0
           /\ held'[r] * BlockSize >= c + n
           /\ \A q \in Requests : q # r => held'[q] = held[q]
<1> DEFINE req == Required(r, c, n)
           h == Most(held[r], req)
<1>1. req \in Nat /\ req * BlockSize >= c + n
  <2>1. Least(c + n, MaxModelLen) = c + n
    BY ConfigAssumption DEF Least
  <2> QED
    BY <2>1, BlocksCover DEF Required
<1>2. held[r] \in Nat /\ free \in Int /\ BlockSize \in Nat
  BY ConfigAssumption DEF TypeOK
<1>3. req - held[r] <= free
  BY DEF CanAllocate
<1>4. held' = [held EXCEPT ![r] = h] /\ free' = free - (h - held[r])
  BY DEF Allocate
<1> HIDE DEF req
<1>5. h \in Nat /\ h >= req /\ h - held[r] <= free
  BY <1>1, <1>2, <1>3 DEF Most
<1> HIDE DEF h
<1>6. h * BlockSize >= req * BlockSize
  BY <1>1, <1>2, <1>5
<1>7. h * BlockSize \in Nat /\ req * BlockSize \in Nat
  BY <1>1, <1>2, <1>5
<1>8. h * BlockSize >= c + n
  BY <1>1, <1>6, <1>7
<1>9. free' \in Int /\ free' >= 0
  BY <1>2, <1>4, <1>5
<1> QED
  BY <1>4, <1>5, <1>8, <1>9 DEF TypeOK

\* Releasing gives back exactly what a request holds.
LEMMA ReleaseEmpties ==
    ASSUME TypeOK, free >= 0, NEW r \in Requests, Release(r)
    PROVE  /\ held' \in [Requests -> Nat]
           /\ free' \in Int /\ free' >= 0
           /\ held'[r] = 0
           /\ \A q \in Requests : q # r => held'[q] = held[q]
  BY DEF TypeOK, Release

\* The two statements of the partition agree.
LEMMA PartitionSplit ==
    ASSUME TypeOK
    PROVE  Separate => QueuePartition
<1> SUFFICES ASSUME Separate PROVE QueuePartition
  OBVIOUS
<1> DEFINE a == running \o waiting
           b == a \o skipped
<1>1. /\ running \in Seq(Requests) /\ waiting \in Seq(Requests)
      /\ skipped \in Seq(Requests) /\ overflow \in Seq(Requests)
  BY DEF TypeOK
<1>2. ToSet(running) \cap ToSet(waiting) = {} /\ ToSet(running) \cap ToSet(skipped) = {}
  BY DEF Separate, OnRunning, OffRunning
<1>3. a \in Seq(Requests) /\ b \in Seq(Requests)
  BY <1>1, ConcatProperties
<1>4. ToSet(a) = ToSet(running) \cup ToSet(waiting) /\ IsInjective(a)
  BY <1>2, <1>1, ConcatElements DEF Separate
<1> HIDE DEF a
<1>5. ToSet(b) = ToSet(a) \cup ToSet(skipped) /\ IsInjective(b)
  BY <1>2, <1>1, <1>3, <1>4, ConcatElements DEF Separate
<1> HIDE DEF b
<1>6. ToSet(b \o overflow) = ToSet(b) \cup ToSet(overflow) /\ IsInjective(b \o overflow)
  <2>1. ToSet(b) \cap ToSet(overflow) = {}
    BY <1>4, <1>5 DEF Separate, OnRunning, OffRunning
  <2> QED
    BY <1>1, <1>3, <1>5, <2>1, ConcatElements DEF Separate
<1>7. ToSet(b \o overflow) = {r \in Requests : status[r] \in Live}
  BY <1>4, <1>5, <1>6 DEF Separate, OnRunning, OffRunning, Live
<1> QED
  BY <1>6, <1>7 DEF QueuePartition, Separate, OnRunning, a, b

\* The invariant holds in a scheduler that has just been constructed.
LEMMA InitInv == Init => IndInv
<1> SUFFICES ASSUME Init PROVE IndInv
  OBVIOUS
<1>1. TypeOK
  BY LevelsType, RequestsAssumption, ConfigAssumption DEF Init, TypeOK, PCs, NumBlocks
<1>2. Locals
  BY RequestsAssumption, ConfigAssumption, PromptAssumption DEF Init, Locals
<1>3. Separate /\ Batched
  BY DEF Init, Separate, OnRunning, OffRunning, Batched, ToSet, IsInjective, Live
<1>4. SlotsCovered
  BY ConfigAssumption DEF Init, SlotsCovered, NumBlocks
<1>5. WindowBound
  BY ConfigAssumption DEF Init, WindowBound
<1> QED
  BY <1>1, <1>2, <1>3, <1>4, <1>5 DEF IndInv

-----------------------------------------------------------------------------
\* Steps of schedule() that move no request and no block: they preserve the
\* invariant as soon as they leave the local variables in order.
LEMMA QuietInv ==
    ASSUME IndInv, TypeOK', Locals',
           UNCHANGED <<queues, status, computed, kv, sched, batches>>
    PROVE  IndInv'
<1>1. Separate'
  BY DEF IndInv, Separate, OnRunning, OffRunning, queues
<1>2. Batched'
  BY DEF IndInv, Batched, queues
<1>3. SlotsCovered'
  BY DEF IndInv, SlotsCovered, kv
<1>4. WindowBound'
  BY DEF IndInv, WindowBound, queues
<1> QED
  BY <1>1, <1>2, <1>3, <1>4 DEF IndInv

\* The client's side: a new request enters the window or the overflow list.
LEMMA AddRequestInv ==
    ASSUME IndInv, NEW r \in Requests, AddRequest(r)
    PROVE  IndInv'
<1> USE DEF IndInv
<1>1. /\ status[r] = "new" /\ pc = "input" /\ skipped = <<>>
      /\ pc' = pc /\ running' = running /\ skipped' = skipped /\ batches' = batches
      /\ computed' = computed /\ tokens' = tokens /\ held' = held /\ free' = free
      /\ sched' = sched /\ budget' = budget /\ idx' = idx /\ attempt' = attempt
      /\ grammar' = grammar /\ preempted' = preempted /\ newReqs' = newReqs
      /\ worker' = worker /\ finished' = finished
  BY DEF AddRequest, Locals, kv, step, engine
<1>2. /\ status'[r] \in {"waiting", "fsm"}
      /\ \A q \in Requests : q # r => status'[q] = status[q]
      /\ status' \in [Requests -> Live \cup {"new", "finished"}]
  BY DEF AddRequest, TypeOK, Live
<1>3. r \notin ToSet(running) \cup ToSet(waiting) \cup ToSet(skipped) \cup ToSet(overflow)
  BY <1>1 DEF Separate, OnRunning, OffRunning, Live
<1>4. OnRunning' = OnRunning /\ OffRunning' = OffRunning \cup {r}
  BY <1>1, <1>2 DEF OnRunning, OffRunning, Live
<1>5. ToSet(overflow) \subseteq Requests
  BY DEF Separate, OffRunning
<1>6. /\ level' \in [Requests -> 0..(NumLevels - 1)]
      /\ age' \in [Requests -> Nat \cup {NoAge}]
  BY LevelsType DEF AddRequest, TypeOK
<1>7. CASE ActiveCount < Window /\ waiting' = InsertByLevel(waiting, qlvl', r)
           /\ qlvl' = [qlvl EXCEPT ![r] = BucketLevel(PromptLen[r])] /\ UNCHANGED overflow
  <2>1. waiting' \in Seq(Requests) /\ Len(waiting') = Len(waiting) + 1
    BY <1>7, InsertByLevelProperties DEF TypeOK
  <2>2. ToSet(waiting') = ToSet(waiting) \cup {r} /\ IsInjective(waiting')
    BY <1>3, <1>7, InsertByLevelElements DEF TypeOK, Separate
  <2>3. TypeOK'
    <3>1. qlvl' \in [Requests -> 0..(NumLevels - 1)]
      BY <1>7, BucketType DEF TypeOK
    <3> QED
      BY <1>1, <1>2, <1>6, <1>7, <2>1, <3>1 DEF TypeOK
  <2>4. Locals'
    BY <1>1 DEF Locals
  <2>5. Separate'
    BY <1>1, <1>3, <1>7, <1>4, <2>2 DEF Separate
  <2>6. Batched'
    BY <1>1, <1>2, <1>3, <1>7, <1>5 DEF Batched
  <2>7. SlotsCovered'
    BY <1>1, <1>2 DEF SlotsCovered
  <2>8. WindowBound'
    BY <1>1, <1>7, <2>1, ConfigAssumption DEF WindowBound, ActiveCount, TypeOK
  <2> QED
    BY <2>3, <2>4, <2>5, <2>6, <2>7, <2>8
<1>8. CASE overflow' = Append(overflow, r) /\ UNCHANGED <<waiting, qlvl>>
  <2>1. overflow' \in Seq(Requests)
    BY <1>8 DEF TypeOK
  <2>2. ToSet(overflow') = ToSet(overflow) \cup {r} /\ IsInjective(overflow')
    BY <1>3, <1>8, AppendElements DEF TypeOK, Separate
  <2>3. TypeOK'
    BY <1>1, <1>2, <1>6, <1>8, <2>1 DEF TypeOK
  <2>4. Locals'
    BY <1>1 DEF Locals
  <2>5. Separate'
    BY <1>1, <1>3, <1>8, <1>4, <2>2 DEF Separate
  <2>6. Batched'
    BY <1>1, <1>2, <1>5, <2>2 DEF Batched
  <2>7. SlotsCovered'
    BY <1>1, <1>2 DEF SlotsCovered
  <2>8. WindowBound'
    BY <1>1, <1>8 DEF WindowBound
  <2> QED
    BY <2>3, <2>4, <2>5, <2>6, <2>7, <2>8
<1> QED
  BY <1>7, <1>8 DEF AddRequest

\* _free_request: what it does to the request's own state.
LEMMA FreeRequestState ==
    ASSUME IndInv, NEW r \in Requests, FreeRequest(r)
    PROVE  /\ status'[r] = "finished"
           /\ \A q \in Requests : q # r => status'[q] = status[q]
           /\ status' \in [Requests -> Live \cup {"new", "finished"}]
           /\ finished' \subseteq Requests
           /\ computed' \in [Requests -> Nat] /\ tokens' \in [Requests -> Nat]
           /\ computed'[r] = 0 /\ tokens'[r] = PromptLen[r]
           /\ \A q \in Requests : q # r => computed'[q] = computed[q] /\ tokens'[q] = tokens[q]
           /\ level' \in [Requests -> 0..(NumLevels - 1)]
           /\ age' \in [Requests -> Nat \cup {NoAge}]
           /\ held' \in [Requests -> Nat] /\ free' \in Int /\ free' >= 0 /\ held'[r] = 0
           /\ \A q \in Requests : q # r => held'[q] = held[q]
<1>1. /\ status' \in [Requests -> Live \cup {"new", "finished"}]
      /\ status'[r] = "finished"
      /\ \A q \in Requests : q # r => status'[q] = status[q]
      /\ finished' \subseteq Requests
  BY DEF FreeRequest, IndInv, TypeOK
<1>2. /\ computed' \in [Requests -> Nat] /\ tokens' \in [Requests -> Nat]
      /\ computed'[r] = 0 /\ tokens'[r] = PromptLen[r]
      /\ \A q \in Requests : q # r => computed'[q] = computed[q] /\ tokens'[q] = tokens[q]
  BY RequestsAssumption DEF FreeRequest, IndInv, TypeOK
<1>3. /\ level' \in [Requests -> 0..(NumLevels - 1)]
      /\ age' \in [Requests -> Nat \cup {NoAge}]
  BY LevelsType DEF FreeRequest, IndInv, TypeOK
<1>4. /\ held' \in [Requests -> Nat] /\ free' \in Int /\ free' >= 0 /\ held'[r] = 0
      /\ \A q \in Requests : q # r => held'[q] = held[q]
  BY ReleaseEmpties DEF FreeRequest, IndInv, SlotsCovered
<1> QED
  BY <1>1, <1>2, <1>3, <1>4

\* The invariant after a live request r was taken from its list and freed,
\* outside schedule().
LEMMA FreedInv ==
    ASSUME IndInv, NEW r \in Requests, FreeRequest(r), TypeOK',
           pc \in {"input", "output"},
           UNCHANGED <<pc, skipped, step>>,
           IsInjective(running'), IsInjective(waiting'), IsInjective(overflow'),
           ToSet(running') = ToSet(running) \ {r},
           ToSet(waiting') = ToSet(waiting) \ {r},
           ToSet(overflow') = ToSet(overflow) \ {r},
           Len(running') <= Len(running), Len(waiting') <= Len(waiting),
           pc = "output" => batches' # <<>>,
           \A i \in DOMAIN batches', q \in Requests : batches'[i][q] > 0 =>
               status[q] \in {"running", "preempted", "finished"}
    PROVE  IndInv'
<1> USE DEF IndInv
<1>1. skipped = <<>> /\ ToSet(skipped) = {} /\ \A q \in Requests : sched[q] = 0
  BY DEF Locals, ToSet
<1>2. sched' = sched /\ budget' = budget /\ idx' = idx /\ attempt' = attempt
  BY DEF step
<1>3. /\ status'[r] = "finished"
      /\ \A q \in Requests : q # r => status'[q] = status[q]
  BY FreeRequestState
<1>4. /\ computed'[r] = 0 /\ tokens'[r] = PromptLen[r]
      /\ \A q \in Requests : q # r => computed'[q] = computed[q] /\ tokens'[q] = tokens[q]
  BY FreeRequestState
<1>5. /\ free' >= 0 /\ held'[r] = 0
      /\ \A q \in Requests : q # r => held'[q] = held[q]
  BY FreeRequestState
<1>6. Locals'
  <2>1. PromptLen[r] \in Nat /\ PromptLen[r] < MaxModelLen
    BY RequestsAssumption, PromptAssumption
  <2>2. \A q \in Requests : computed'[q] + sched'[q] <= tokens'[q] /\ tokens'[q] < MaxModelLen
    BY <1>1, <1>2, <1>4, <2>1 DEF Locals
  <2> QED
    BY <1>1, <1>2, <2>2 DEF Locals
<1>7. OnRunning' = OnRunning \ {r} /\ OffRunning' = OffRunning \ {r}
  BY <1>3 DEF OnRunning, OffRunning, Live
<1>8. Separate'
  BY <1>1, <1>7 DEF Separate
<1>9. Batched'
  <2>1. ToSet(overflow) \subseteq Requests
    BY DEF Separate, OffRunning
  <2>2. \A i \in DOMAIN batches', q \in Requests : batches'[i][q] > 0 =>
            status'[q] \in {"running", "preempted", "finished"}
    BY <1>3
  <2>3. \A q \in ToSet(overflow') : status'[q] \in {"waiting", "fsm"}
    BY <1>3, <2>1 DEF Batched
  <2>4. \A q \in Requests : ~(sched'[q] > 0)
    BY <1>1, <1>2
  <2> QED
    BY <2>2, <2>3, <2>4 DEF Batched
<1>10. SlotsCovered'
  <2>1. 0 * BlockSize >= 0
    BY ConfigAssumption
  <2>2. \A q \in Requests : held'[q] * BlockSize >= computed'[q] + sched'[q]
    BY <1>1, <1>2, <1>4, <1>5, <2>1 DEF SlotsCovered
  <2>3. \A q \in Requests : status'[q] # "running" => held'[q] = 0
    BY <1>3, <1>5 DEF SlotsCovered
  <2> QED
    BY <1>5, <2>2, <2>3 DEF SlotsCovered
<1>11. WindowBound'
  <2>1. Len(running) \in Nat /\ Len(waiting) \in Nat /\ Len(skipped) \in Nat
    <3>1. running \in Seq(Requests) /\ waiting \in Seq(Requests) /\ skipped \in Seq(Requests)
      BY DEF TypeOK
    <3> QED
      BY <3>1, LenProperties
  <2>2. Len(running') \in Nat /\ Len(waiting') \in Nat
    <3>1. running' \in Seq(Requests) /\ waiting' \in Seq(Requests)
      BY DEF TypeOK
    <3> QED
      BY <3>1, LenProperties
  <2>3. skipped' = skipped
    OBVIOUS
  <2>4. Len(running') <= Len(running) /\ Len(waiting') <= Len(waiting)
    OBVIOUS
  <2>5. WindowBound /\ Window \in Int /\ MaxRunning \in Int
    BY ConfigAssumption
  <2> HIDE DEF IndInv
  <2> QED
    BY <2>1, <2>2, <2>3, <2>4, <2>5 DEF WindowBound
<1> QED
  BY <1>6, <1>8, <1>9, <1>10, <1>11

\* finish_requests: an abort finds the request in whichever list it is.
LEMMA FinishRequestInv ==
    ASSUME IndInv, NEW r \in Requests, FinishRequest(r)
    PROVE  IndInv'
<1> USE DEF IndInv
<1>1. /\ FreeRequest(r) /\ Dequeue(r) /\ pc = "input"
      /\ UNCHANGED <<pc, skipped, step>> /\ qlvl' = qlvl /\ grammar' = grammar
      /\ batches' = batches /\ worker' = worker
  BY DEF FinishRequest
<1>2. CASE status[r] = "running" /\ running' = Without(running, r)
           /\ UNCHANGED <<waiting, overflow>>
  <2>1. r \notin ToSet(waiting) /\ r \notin ToSet(overflow)
    BY <1>2 DEF Separate, OffRunning
  <2>2. /\ running' \in Seq(Requests) /\ Len(running') <= Len(running)
        /\ ToSet(running') = ToSet(running) \ {r} /\ IsInjective(running')
    BY <1>2, WithoutProperties, WithoutElements DEF TypeOK, Separate
  <2>3. TypeOK'
    BY <1>1, <1>2, <2>2, FreeRequestState DEF TypeOK, step
  <2>4. Len(waiting') <= Len(waiting)
    BY <1>2 DEF TypeOK
  <2> QED
    BY <1>1, <1>2, <2>1, <2>2, <2>3, <2>4, FreedInv DEF Separate, Batched
<1>3. CASE status[r] # "running" /\ waiting' = Without(waiting, r)
           /\ overflow' = Without(overflow, r) /\ UNCHANGED running
  <2>1. r \notin ToSet(running)
    BY <1>3 DEF Separate, OnRunning
  <2>2. /\ waiting' \in Seq(Requests) /\ Len(waiting') <= Len(waiting)
        /\ ToSet(waiting') = ToSet(waiting) \ {r} /\ IsInjective(waiting')
    BY <1>3, WithoutProperties, WithoutElements DEF TypeOK, Separate
  <2>3. /\ overflow' \in Seq(Requests)
        /\ ToSet(overflow') = ToSet(overflow) \ {r} /\ IsInjective(overflow')
    BY <1>3, WithoutProperties, WithoutElements DEF TypeOK, Separate
  <2>4. TypeOK'
    BY <1>1, <1>3, <2>2, <2>3, FreeRequestState DEF TypeOK, step
  <2>5. Len(running') <= Len(running)
    BY <1>3 DEF TypeOK
  <2> QED
    BY <1>1, <1>3, <2>1, <2>2, <2>3, <2>4, <2>5, FreedInv DEF Separate, Batched
<1> QED
  BY <1>1, <1>2, <1>3 DEF Dequeue

\* The end of a grammar compilation, beside the engine.
LEMMA GrammarReadyInv ==
    ASSUME IndInv, NEW r \in Requests, GrammarReady(r)
    PROVE  IndInv'
<1>1. TypeOK'
  BY DEF IndInv, TypeOK, GrammarReady, queues, reqs, kv, step, engine
<1>2. Locals'
  BY DEF IndInv, Locals, Current, NextWaiting, GrammarReady, queues, reqs, kv, step, engine
<1> QED
  BY <1>1, <1>2, QuietInv DEF GrammarReady, reqs, step, engine

\* Reading the clock only ages the requests.
LEMMA BeginScheduleInv ==
    ASSUME IndInv, NEW d \in Elapsed, BeginSchedule(d)
    PROVE  IndInv'
<1>1. TypeOK'
  <2>1. MaxAge \in Nat
    BY LevelsType, ConfigAssumption DEF MaxAge
  <2>2. age' \in [Requests -> Nat \cup {NoAge}]
    <3>1. \A r \in Requests : (IF age[r] = NoAge THEN NoAge ELSE Least(age[r] + d, MaxAge))
                                 \in Nat \cup {NoAge}
      <4>1. d \in Nat
        BY ConfigAssumption
      <4>2. \A r \in Requests : age[r] = NoAge \/ age[r] \in Nat
        BY DEF IndInv, TypeOK
      <4>3. \A x \in Nat : Least(x + d, MaxAge) \in Nat
        BY <2>1, <4>1 DEF Least
      <4> QED
        BY <4>2, <4>3
    <3> QED
      BY <3>1 DEF BeginSchedule
  <2> QED
    BY <2>2 DEF IndInv, TypeOK, BeginSchedule, PCs, queues, kv, step, engine
<1>2. Locals'
  BY DEF IndInv, Locals, BeginSchedule, queues, kv, step, engine
<1> QED
  BY <1>1, <1>2, QuietInv DEF BeginSchedule, step, engine

\* _mars_admit_overflow: from the overflow list into the window.
LEMMA AdmitOverflowInv ==
    ASSUME IndInv, AdmitOverflow
    PROVE  IndInv'
<1> USE DEF IndInv
<1> DEFINE r == Head(overflow)
<1>1. /\ pc = "admit" /\ overflow # <<>> /\ ActiveCount < Window
      /\ overflow' = Tail(overflow)
      /\ qlvl' = [qlvl EXCEPT ![r] = BucketLevel(PromptLen[r])]
      /\ waiting' = InsertByLevel(waiting, qlvl', r)
      /\ level' = [level EXCEPT ![r] = 0] /\ age' = [age EXCEPT ![r] = NoAge]
      /\ UNCHANGED <<pc, running, skipped, status, computed, tokens, grammar, kv, step, engine>>
  BY DEF AdmitOverflow
<1>2. r \in ToSet(overflow) /\ r \in Requests
  <2>1. overflow \in Seq(Requests) /\ IsInjective(overflow)
    BY DEF TypeOK, Separate
  <2>2. Head(overflow) \in Requests
    BY <1>1, <2>1
  <2> QED
    BY <1>1, <2>1, <2>2, TailElements, Zenon
<1>3. r \notin ToSet(waiting) /\ r \notin ToSet(skipped)
  BY <1>2 DEF Separate
<1>4. /\ overflow' \in Seq(Requests) /\ ToSet(overflow') = ToSet(overflow) \ {r}
      /\ IsInjective(overflow')
  BY <1>1, TailElements DEF TypeOK, Separate
<1> HIDE DEF r
<1>5. waiting' \in Seq(Requests) /\ Len(waiting') = Len(waiting) + 1
  BY <1>1, <1>2, InsertByLevelProperties DEF TypeOK
<1>6. ToSet(waiting') = ToSet(waiting) \cup {r} /\ IsInjective(waiting')
  <2>1. waiting \in Seq(Requests) /\ IsInjective(waiting)
    BY DEF TypeOK, Separate
  <2>2. /\ ToSet(InsertByLevel(waiting, qlvl', r)) = ToSet(waiting) \cup {r}
        /\ IsInjective(InsertByLevel(waiting, qlvl', r))
    BY <1>2, <1>3, <2>1, InsertByLevelElements
  <2> QED
    BY <1>1, <2>2
<1>7. TypeOK'
  <2>1. /\ qlvl' \in [Requests -> 0..(NumLevels - 1)]
        /\ level' \in [Requests -> 0..(NumLevels - 1)]
        /\ age' \in [Requests -> Nat \cup {NoAge}]
    <3>1. BucketLevel(PromptLen[r]) \in 0..(NumLevels - 1) /\ 0 \in 0..(NumLevels - 1)
      BY BucketType, LevelsType
    <3> QED
      BY <1>1, <3>1 DEF TypeOK
  <2> QED
    BY <1>1, <1>4, <1>5, <2>1 DEF TypeOK, kv, step, engine
<1>8. Locals'
  BY <1>1 DEF Locals, step, engine
<1>9. Separate'
  <2>1. OnRunning' = OnRunning /\ OffRunning' = OffRunning
    BY <1>1 DEF OnRunning, OffRunning
  <2> QED
    BY <1>1, <1>2, <1>3, <1>4, <1>6, <2>1 DEF Separate
<1>10. Batched' /\ SlotsCovered'
  BY <1>1, <1>4 DEF Batched, SlotsCovered, kv, step, engine
<1>11. WindowBound'
  <2>1. skipped = <<>>
    BY <1>1 DEF Locals
  <2> QED
    BY <1>1, <1>5, <2>1, ConfigAssumption DEF WindowBound, ActiveCount, TypeOK
<1> QED
  BY <1>7, <1>8, <1>9, <1>10, <1>11

\* _mars_reorder_running sorts the running list and loses nobody.
LEMMA ReorderRunningInv ==
    ASSUME IndInv, ReorderRunning
    PROVE  IndInv'
<1> USE DEF IndInv
<1>1. PICK p \in Reorderings : running' = p
  BY DEF ReorderRunning
<1>2. /\ pc = "admit" /\ pc' = "running"
      /\ UNCHANGED <<waiting, qlvl, overflow, skipped, reqs, grammar, kv, step, engine>>
  BY DEF ReorderRunning
<1>3. /\ p \in [1..Len(running) -> ToSet(running)] /\ IsInjective(p)
      /\ \A e \in ToSet(running) : \E k \in 1..Len(running) : p[k] = e
  BY DEF Reorderings, Bijection, Injection, Surjection, TypeOK
<1>4. ToSet(running) \subseteq Requests /\ Len(running) \in Nat
  BY DEF Separate, OnRunning, TypeOK
<1>5. p \in Seq(Requests) /\ Len(p) = Len(running)
  BY <1>3, <1>4
<1>6. ToSet(p) = ToSet(running)
  BY <1>3 DEF ToSet
<1>7. TypeOK'
  BY <1>1, <1>2, <1>5 DEF TypeOK, PCs, reqs, kv, step, engine
<1>8. Locals'
  BY <1>2 DEF Locals, reqs, step, engine
<1>9. Separate'
  BY <1>1, <1>2, <1>3, <1>6 DEF Separate, OnRunning, OffRunning, reqs
<1>10. Batched' /\ SlotsCovered'
  BY <1>2 DEF Batched, SlotsCovered, reqs, kv, step, engine
<1>11. WindowBound'
  BY <1>1, <1>2, <1>5 DEF WindowBound
<1> QED
  BY <1>7, <1>8, <1>9, <1>10, <1>11

-----------------------------------------------------------------------------
\* The RUNNING loop.
LEMMA LeaveRunningLoopInv ==
    ASSUME IndInv, LeaveRunningLoop
    PROVE  IndInv'
<1>1. TypeOK'
  BY DEF IndInv, TypeOK, LeaveRunningLoop, PCs, queues, reqs, kv, step, engine
<1>2. Locals'
  BY DEF IndInv, Locals, LeaveRunningLoop, queues, reqs, step, engine
<1> QED
  BY <1>1, <1>2, QuietInv DEF LeaveRunningLoop, reqs, step, engine

\* The chunk computed for a running request fits the budget and the request.
LEMMA NewTokensRunningBounds ==
    ASSUME TypeOK, Locals, NEW r \in Requests
    PROVE  /\ NewTokensRunning(r) \in Nat
           /\ NewTokensRunning(r) <= budget
           /\ computed[r] + NewTokensRunning(r) <= tokens[r]
<1> DEFINE a == Least(tokens[r] - computed[r], budget)
           n == Least(a, MaxModelLen - 1 - computed[r])
           q == Quantum(EffectiveLevel(r, computed[r]))
<1>1. /\ computed[r] \in Nat /\ tokens[r] \in Nat /\ sched[r] \in Nat /\ budget \in Nat
      /\ computed[r] <= tokens[r] /\ tokens[r] < MaxModelLen /\ MaxModelLen \in Nat
  BY ConfigAssumption DEF TypeOK, Locals
<1>2. q \in Nat
  BY <1>1, EffectiveLevelType
<1>3. n \in Nat /\ n <= budget /\ computed[r] + n <= tokens[r]
  BY <1>1 DEF Least
<1>4. NewTokensRunning(r) = IF computed[r] < PromptLen[r] THEN Least(n, q) ELSE n
  BY DEF NewTokensRunning
<1> HIDE DEF n, q
<1>5. Least(n, q) \in Nat /\ Least(n, q) <= n
  BY <1>2, <1>3 DEF Least
<1> QED
  BY <1>1, <1>3, <1>4, <1>5

\* The cursor of the loop points at a running request.
LEMMA CurrentRunning ==
    ASSUME IndInv, idx < Len(running)
    PROVE  Current \in Requests /\ status[Current] = "running"
<1>1. idx + 1 \in 1..Len(running)
  BY DEF IndInv, TypeOK, Locals
<1>2. DOMAIN running = 1..Len(running)
  BY DEF IndInv, TypeOK
<1>3. Current \in ToSet(running)
  BY <1>1, <1>2 DEF Current, ToSet
<1> QED
  BY <1>3 DEF IndInv, Separate, OnRunning

\* Computing num_new_tokens for the request at the cursor.
LEMMA PickRunningInv ==
    ASSUME IndInv, PickRunning
    PROVE  IndInv'
<1>1. /\ idx < Len(running)
      /\ UNCHANGED <<queues, reqs, grammar, kv, budget, sched, preempted, newReqs, engine>>
  BY DEF PickRunning
<1>2. Current \in Requests
  BY <1>1, CurrentRunning
<1>3. /\ NewTokensRunning(Current) \in Nat
      /\ NewTokensRunning(Current) <= budget
      /\ computed[Current] + NewTokensRunning(Current) <= tokens[Current]
  BY <1>2, NewTokensRunningBounds DEF IndInv
<1>4. CASE idx' = idx + 1 /\ UNCHANGED <<pc, attempt>>
  <2>1. TypeOK'
    BY <1>1, <1>4 DEF IndInv, TypeOK, queues, reqs, kv, engine
  <2>2. pc' = "running"
    BY <1>4 DEF PickRunning
  <2>3. Locals'
    BY <1>1, <1>4, <2>2 DEF IndInv, Locals, PickRunning, queues, reqs, engine
  <2> QED
    BY <1>1, <2>1, <2>3, QuietInv DEF reqs, engine
<1>5. CASE pc' = "alloc" /\ attempt' = NewTokensRunning(Current) /\ UNCHANGED idx
  <2>1. TypeOK'
    <3>1. attempt' \in Int /\ idx' \in Int /\ pc' \in PCs
      BY <1>3, <1>5 DEF IndInv, TypeOK, PCs
    <3> QED
      BY <1>1, <3>1 DEF IndInv, TypeOK, queues, reqs, kv, engine
  <2>2. Locals'
    <3>1. Current' = Current
      BY <1>1, <1>5 DEF Current, queues
    <3>2. pc = "running"
      BY DEF PickRunning
    <3> QED
      BY <1>1, <1>3, <1>5, <3>1, <3>2 DEF IndInv, Locals, queues, reqs, engine
  <2> QED
    BY <1>1, <2>1, <2>2, QuietInv DEF reqs, engine
<1> QED
  BY <1>4, <1>5 DEF PickRunning

\* Halving keeps the attempt positive and does not enlarge it.
LEMMA HalveBounds ==
    ASSUME attempt \in Nat, attempt > BlockSize, HalveAttempt
    PROVE  attempt' \in Nat /\ attempt' <= attempt
  BY ConfigAssumption DEF HalveAttempt, Most

\* Elastic shrinking of a running prefill.
LEMMA ShrinkRunningInv ==
    ASSUME IndInv, ShrinkRunning
    PROVE  IndInv'
<1>1. /\ pc = "alloc" /\ HalveAttempt /\ attempt > BlockSize
      /\ UNCHANGED <<pc, queues, reqs, grammar, kv, idx, budget, sched, preempted, newReqs, engine>>
  BY DEF ShrinkRunning, CanShrink
<1>2. attempt' \in Nat /\ attempt' <= attempt
  BY <1>1, HalveBounds DEF IndInv, Locals
<1>3. TypeOK'
  <2>1. attempt' \in Int
    BY <1>2
  <2> QED
    BY <1>1, <2>1 DEF IndInv, TypeOK, queues, reqs, kv, engine
<1>4. Locals'
  <2>1. Current' = Current
    BY <1>1 DEF Current, queues
  <2>2. /\ idx < Len(running) /\ attempt <= budget /\ attempt \in Nat /\ budget \in Nat
        /\ computed[Current] + attempt <= tokens[Current]
    BY <1>1 DEF IndInv, Locals
  <2>3. computed[Current] \in Nat /\ tokens[Current] \in Nat
    BY <2>2, CurrentRunning DEF IndInv, TypeOK
  <2>4. attempt' <= budget /\ computed[Current] + attempt' <= tokens[Current]
    BY <1>2, <2>2, <2>3
  <2> QED
    BY <1>1, <1>2, <2>1, <2>2, <2>4 DEF IndInv, Locals, queues, reqs, engine
<1> QED
  BY <1>1, <1>3, <1>4, QuietInv DEF reqs, engine

\* The request at the cursor gets its slots and its tokens.
LEMMA ScheduleRunningInv ==
    ASSUME IndInv, ScheduleRunning
    PROVE  IndInv'
<1> DEFINE r == Current
<1>1. /\ pc = "alloc" /\ pc' = "running"
      /\ CanAllocate(r, computed[r], attempt) /\ Allocate(r, computed[r], attempt)
      /\ sched' = [sched EXCEPT ![r] = attempt]
      /\ budget' = budget - attempt /\ idx' = idx + 1
      /\ OnScheduled(r, computed[r], attempt)
      /\ UNCHANGED <<queues, status, computed, tokens, grammar, attempt, preempted, newReqs, engine>>
  BY DEF ScheduleRunning
<1>2. /\ idx < Len(running) /\ attempt <= budget /\ attempt \in Nat /\ budget \in Nat
      /\ computed[r] + attempt <= tokens[r]
  BY <1>1 DEF IndInv, Locals
<1>3. r \in Requests /\ status[r] = "running"
  BY <1>2, CurrentRunning
<1> HIDE DEF r
<1>4. computed[r] \in Nat /\ computed[r] + attempt < MaxModelLen
  <2>1. computed[r] \in Nat /\ tokens[r] \in Nat
    BY <1>3 DEF IndInv, TypeOK
  <2>2. tokens[r] < MaxModelLen /\ MaxModelLen \in Nat
    BY <1>3, ConfigAssumption DEF IndInv, Locals
  <2> QED
    BY <1>2, <2>1, <2>2
<1>5. /\ held' \in [Requests -> Nat] /\ free' \in Int /\ free' >= 0
      /\ held'[r] * BlockSize >= computed[r] + attempt
      /\ \A q \in Requests : q # r => held'[q] = held[q]
  BY <1>1, <1>2, <1>3, <1>4, AllocateCovers DEF IndInv, SlotsCovered
<1>6. /\ level' \in [Requests -> 0..(NumLevels - 1)]
      /\ age' \in [Requests -> Nat \cup {NoAge}]
  BY <1>1, <1>3, OnScheduledType DEF IndInv
<1>7. /\ sched' \in [Requests -> Nat] /\ sched'[r] = attempt
      /\ \A q \in Requests : q # r => sched'[q] = sched[q]
  BY <1>1, <1>2, <1>3 DEF IndInv, Locals
<1>8. budget' \in Nat /\ idx' \in Nat
  BY <1>1, <1>2 DEF IndInv, Locals
<1>9. TypeOK'
  <2>1. sched' \in [Requests -> Int] /\ budget' \in Int /\ idx' \in Int /\ pc' \in PCs
    BY <1>1, <1>7, <1>8 DEF PCs
  <2> QED
    BY <1>1, <1>5, <1>6, <2>1 DEF IndInv, TypeOK, queues, engine
<1>10. Locals'
  <2>1. \A q \in Requests : computed'[q] + sched'[q] <= tokens'[q] /\ tokens'[q] < MaxModelLen
    BY <1>1, <1>2, <1>7 DEF IndInv, Locals
  <2> QED
    BY <1>1, <1>7, <1>8, <2>1 DEF IndInv, Locals, queues, engine
<1>11. Separate' /\ WindowBound'
  BY <1>1 DEF IndInv, Separate, OnRunning, OffRunning, WindowBound, queues
<1>12. Batched'
  BY <1>1, <1>3, <1>7 DEF IndInv, Batched, queues, engine
<1>13. SlotsCovered'
  <2>1. \A q \in Requests : held'[q] * BlockSize >= computed'[q] + sched'[q]
    BY <1>1, <1>5, <1>7 DEF IndInv, SlotsCovered
  <2>2. \A q \in Requests : status'[q] # "running" => held'[q] = 0
    BY <1>1, <1>3, <1>5 DEF IndInv, SlotsCovered
  <2> QED
    BY <1>5, <2>1, <2>2 DEF SlotsCovered
<1> QED
  BY <1>9, <1>10, <1>11, <1>12, <1>13 DEF IndInv

\* A preemption moves its victim from the running list to the head of the
\* waiting queue; req_index keeps pointing at the request in hand.
LEMMA PreemptRunningInv ==
    ASSUME IndInv, PreemptRunning
    PROVE  IndInv'
<1>1. PICK i \in DOMAIN running :
         Preempt(i) /\ pc' = IF running[i] = Current THEN "commit" ELSE "alloc"
  BY DEF PreemptRunning
<1> DEFINE v == running[i]
<1>2. /\ pc = "alloc" /\ running' = RemoveAt(running, i) /\ Release(v)
      /\ status' = [status EXCEPT ![v] = "preempted"]
      /\ computed' = [computed EXCEPT ![v] = 0]
      /\ level' = [level EXCEPT ![v] = 0] /\ age' = [age EXCEPT ![v] = NoAge]
      /\ qlvl' = FrontLevels({v}) /\ waiting' = <<v>> \o waiting
      /\ UNCHANGED <<overflow, skipped, tokens, grammar, attempt, newReqs, engine>>
  BY <1>1 DEF PreemptRunning, Preempt
<1>3. /\ sched' = [sched EXCEPT ![v] = 0] /\ budget' = budget + sched[v]
      /\ idx' = IF i - 1 < idx THEN idx - 1 ELSE idx
      /\ preempted' = preempted \cup {v}
  BY <1>1 DEF Preempt, Unschedule
<1>4. /\ i \in 1..Len(running) /\ v \in ToSet(running)
      /\ running \in Seq(Requests) /\ waiting \in Seq(Requests)
      /\ Len(running) \in Nat /\ Len(waiting) \in Nat /\ Len(skipped) \in Nat
  <2>1. /\ running \in Seq(Requests) /\ waiting \in Seq(Requests) /\ skipped \in Seq(Requests)
    BY DEF IndInv, TypeOK
  <2>2. DOMAIN running = 1..Len(running)
    BY <2>1
  <2> QED
    BY <2>1, <2>2, LenProperties DEF ToSet
<1>5. v \in Requests /\ status[v] = "running"
  BY <1>4 DEF IndInv, Separate, OnRunning
<1>6. /\ running' \in Seq(Requests) /\ Len(running') = Len(running) - 1
      /\ ToSet(running') = ToSet(running) \ {v} /\ IsInjective(running')
  <2>1. IsInjective(running)
    BY DEF IndInv, Separate
  <2> QED
    BY <1>2, <1>4, <2>1, RemoveAtProperties, RemoveAtElements
<1>7. v \notin ToSet(waiting) /\ v \notin ToSet(overflow) /\ v \notin ToSet(skipped)
  BY <1>5 DEF IndInv, Separate, OffRunning
<1> HIDE DEF v
<1>8. /\ waiting' \in Seq(Requests) /\ Len(waiting') = Len(waiting) + 1
      /\ ToSet(waiting') = {v} \cup ToSet(waiting) /\ IsInjective(waiting')
  <2>1. IsInjective(waiting)
    BY DEF IndInv, Separate
  <2>2. <<v>> \in Seq(Requests) /\ Len(<<v>>) = 1 /\ ToSet(<<v>>) = {v} /\ IsInjective(<<v>>)
    BY <1>5, SingletonElements
  <2>3. <<v>> \o waiting \in Seq(Requests) /\ Len(<<v>> \o waiting) = 1 + Len(waiting)
    BY <1>4, <2>2, ConcatProperties
  <2>4. ToSet(<<v>> \o waiting) = {v} \cup ToSet(waiting) /\ IsInjective(<<v>> \o waiting)
    <3>1. ToSet(<<v>>) \cap ToSet(waiting) = {}
      BY <1>7, <2>2
    <3>2. /\ ToSet(<<v>> \o waiting) = ToSet(<<v>>) \cup ToSet(waiting)
          /\ IsInjective(<<v>> \o waiting)
      BY <1>4, <2>1, <2>2, <3>1, ConcatElements
    <3> QED
      BY <2>2, <3>2
  <2> QED
    BY <1>2, <1>4, <2>3, <2>4
<1>9. /\ held' \in [Requests -> Nat] /\ free' \in Int /\ free' >= 0 /\ held'[v] = 0
      /\ \A q \in Requests : q # v => held'[q] = held[q]
  BY <1>2, <1>5, ReleaseEmpties DEF IndInv, SlotsCovered
<1>10. /\ sched' \in [Requests -> Nat] /\ budget' \in Nat /\ idx' \in Nat /\ budget' >= budget
       /\ sched'[v] = 0 /\ \A q \in Requests : q # v => sched'[q] = sched[q]
  <2>1. sched \in [Requests -> Nat] /\ budget \in Nat /\ idx \in Nat
    BY DEF IndInv, Locals
  <2>2. idx' \in Nat
    BY <1>3, <1>4, <2>1
  <2>3. budget' \in Nat /\ budget' >= budget
    BY <1>3, <1>5, <2>1
  <2> QED
    BY <1>3, <1>5, <2>1, <2>2, <2>3
<1>11. /\ computed' \in [Requests -> Nat] /\ computed'[v] = 0
       /\ \A q \in Requests : q # v => computed'[q] = computed[q]
       /\ status'[v] = "preempted" /\ \A q \in Requests : q # v => status'[q] = status[q]
  BY <1>2, <1>5 DEF IndInv, TypeOK
<1>12. TypeOK'
  <2>1. /\ qlvl' \in [Requests -> 0..(NumLevels - 1)]
        /\ level' \in [Requests -> 0..(NumLevels - 1)]
        /\ age' \in [Requests -> Nat \cup {NoAge}]
    <3>1. 0 \in 0..(NumLevels - 1)
      BY LevelsType
    <3>2. qlvl \in [Requests -> 0..(NumLevels - 1)] /\ level \in [Requests -> 0..(NumLevels - 1)]
          /\ age \in [Requests -> Nat \cup {NoAge}]
      BY DEF IndInv, TypeOK
    <3> QED
      BY <1>2, <3>1, <3>2 DEF FrontLevels
  <2>2. /\ sched' \in [Requests -> Int] /\ budget' \in Int /\ idx' \in Int /\ pc' \in PCs
        /\ preempted' \subseteq Requests
    <3>1. pc' \in PCs
      BY <1>1 DEF PCs
    <3>2. preempted' \subseteq Requests
      BY <1>3, <1>5 DEF IndInv, TypeOK
    <3> QED
      BY <1>10, <3>1, <3>2
  <2>3. status' \in [Requests -> Live \cup {"new", "finished"}]
    BY <1>2, <1>5 DEF IndInv, TypeOK, Live
  <2> QED
    BY <1>2, <1>6, <1>8, <1>9, <1>11, <2>1, <2>2, <2>3 DEF IndInv, TypeOK, engine
<1>13. Locals'
  <2>1. \A q \in Requests : computed'[q] + sched'[q] <= tokens'[q] /\ tokens'[q] < MaxModelLen
    <3>1. tokens' = tokens /\ \A q \in Requests : tokens[q] \in Nat
      BY <1>2 DEF IndInv, TypeOK
    <3>2. \A q \in Requests : computed[q] + sched[q] <= tokens[q] /\ tokens[q] < MaxModelLen
      BY DEF IndInv, Locals
    <3> QED
      BY <1>10, <1>11, <3>1, <3>2
  <2>2. CASE v = Current
    BY <1>1, <1>2, <1>10, <2>1, <2>2 DEF IndInv, Locals, v
  <2>3. CASE v # Current
    <3>1. /\ idx < Len(running) /\ attempt <= budget /\ attempt \in Nat /\ budget \in Nat
          /\ idx \in Nat /\ computed[Current] + attempt <= tokens[Current]
      BY <1>2 DEF IndInv, Locals
    <3>2. i # idx + 1
      BY <2>3 DEF Current, v
    <3>3. idx' + 1 \in 1..(Len(running) - 1)
      BY <1>3, <1>4, <3>1, <3>2
    <3>4. running'[idx' + 1] = IF idx' + 1 < i THEN running[idx' + 1] ELSE running[(idx' + 1) + 1]
      BY <1>2, <1>4, <3>3, RemoveAtProperties
    <3>5. running'[idx' + 1] = running[idx + 1]
      <4>1. CASE i - 1 < idx
        <5>1. idx' + 1 = idx /\ ~(idx' + 1 < i)
          BY <1>3, <1>4, <3>1, <4>1
        <5> QED
          BY <3>4, <5>1
      <4>2. CASE ~(i - 1 < idx)
        <5>1. idx' = idx /\ idx' + 1 < i
          BY <1>3, <1>4, <3>1, <3>2, <4>2
        <5> QED
          BY <3>4, <5>1
      <4> QED
        BY <4>1, <4>2
    <3>6. Current' = Current
      BY <3>5 DEF Current
    <3>7. Current \in Requests
      BY <3>1, CurrentRunning
    <3>8. computed'[Current] = computed[Current] /\ tokens'[Current] = tokens[Current]
      BY <1>2, <1>11, <2>3, <3>7
    <3>9. pc' = "alloc" /\ idx' < Len(running') /\ attempt' <= budget'
      <4>1. pc' = "alloc"
        BY <1>1, <2>3 DEF v
      <4>2. idx' < Len(running')
        BY <1>4, <1>6, <1>10, <3>3
      <4>3. attempt' <= budget'
        BY <1>2, <1>10, <3>1
      <4> QED
        BY <4>1, <4>2, <4>3
    <3> QED
      BY <1>2, <1>10, <2>1, <3>1, <3>6, <3>8, <3>9 DEF IndInv, Locals
  <2> QED
    BY <2>2, <2>3
<1>14. Separate'
  <2>1. OnRunning' = OnRunning \ {v} /\ OffRunning' = OffRunning \cup {v}
    BY <1>5, <1>11 DEF OnRunning, OffRunning, Live
  <2> QED
    BY <1>2, <1>6, <1>7, <1>8, <2>1 DEF IndInv, Separate
<1>15. Batched'
  <2>1. \A q \in ToSet(overflow) : q \in Requests
    BY DEF IndInv, Separate, OffRunning
  <2> QED
    <3>1. \A k \in DOMAIN batches', q \in Requests : batches'[k][q] > 0 =>
              status'[q] \in {"running", "preempted", "finished"}
      BY <1>2, <1>11 DEF IndInv, Batched, engine
    <3>2. \A q \in Requests : sched'[q] > 0 => status'[q] = "running"
      BY <1>10, <1>11 DEF IndInv, Batched
    <3>3. \A q \in ToSet(overflow') : status'[q] \in {"waiting", "fsm"}
      BY <1>2, <1>7, <1>11, <2>1 DEF IndInv, Batched
    <3> QED
      BY <3>1, <3>2, <3>3 DEF Batched
<1>16. SlotsCovered'
  <2>1. 0 * BlockSize >= 0 + 0
    BY ConfigAssumption
  <2>2. \A q \in Requests : held'[q] * BlockSize >= computed'[q] + sched'[q]
    BY <1>9, <1>10, <1>11, <2>1 DEF IndInv, SlotsCovered
  <2>3. \A q \in Requests : status'[q] # "running" => held'[q] = 0
    BY <1>9, <1>11 DEF IndInv, SlotsCovered
  <2> QED
    BY <1>9, <2>2, <2>3 DEF SlotsCovered
<1>17. WindowBound'
  BY <1>2, <1>4, <1>6, <1>8, ConfigAssumption DEF IndInv, WindowBound
<1> QED
  BY <1>12, <1>13, <1>14, <1>15, <1>16, <1>17 DEF IndInv

-----------------------------------------------------------------------------
\* The WAITING loop.
LEMMA WaitingHead ==
    ASSUME IndInv, waiting # <<>>
    PROVE  /\ NextWaiting \in ToSet(waiting) /\ NextWaiting \in Requests
           /\ status[NextWaiting] \in Live \ {"running"}
           /\ Tail(waiting) \in Seq(Requests) /\ Len(Tail(waiting)) = Len(waiting) - 1
           /\ ToSet(Tail(waiting)) = ToSet(waiting) \ {NextWaiting}
           /\ IsInjective(Tail(waiting))
<1>1. waiting \in Seq(Requests) /\ IsInjective(waiting)
  BY DEF IndInv, TypeOK, Separate
<1>2. /\ NextWaiting \in ToSet(waiting) /\ IsInjective(Tail(waiting))
      /\ ToSet(Tail(waiting)) = ToSet(waiting) \ {NextWaiting}
  BY <1>1, TailElements DEF NextWaiting
<1>3. NextWaiting \in Requests /\ status[NextWaiting] \in Live \ {"running"}
  BY <1>2 DEF IndInv, Separate, OffRunning
<1>4. Tail(waiting) \in Seq(Requests) /\ Len(Tail(waiting)) = Len(waiting) - 1
  BY <1>1, HeadTailProperties
<1> QED
  BY <1>2, <1>3, <1>4

\* Leaving the loop, at its end or because the head got no slots.
LEMMA LeaveWaitingInv ==
    ASSUME IndInv, LeaveWaitingLoop \/ BlockedWaiting
    PROVE  IndInv'
<1>1. /\ pc' = "commit"
      /\ UNCHANGED <<queues, reqs, grammar, kv, step, engine>>
  BY DEF LeaveWaitingLoop, BlockedWaiting
<1>2. TypeOK'
  BY <1>1 DEF IndInv, TypeOK, PCs, queues, reqs, kv, step, engine
<1>3. Locals'
  BY <1>1 DEF IndInv, Locals, queues, reqs, step, engine
<1> QED
  BY <1>1, <1>2, <1>3, QuietInv DEF reqs, step, engine

\* A request whose grammar is not compiled moves to the skipped list.
LEMMA SkipWaitingInv ==
    ASSUME IndInv, SkipWaiting
    PROVE  IndInv'
<1> DEFINE r == NextWaiting
<1>1. /\ pc = "waiting" /\ waiting # <<>>
      /\ waiting' = Tail(waiting) /\ skipped' = <<r>> \o skipped
      /\ UNCHANGED <<pc, running, qlvl, overflow, reqs, grammar, kv, step, engine>>
  BY DEF SkipWaiting, AtWaitingHead
<1>2. /\ r \in ToSet(waiting) /\ r \in Requests
      /\ waiting' \in Seq(Requests) /\ Len(waiting') = Len(waiting) - 1
      /\ ToSet(waiting') = ToSet(waiting) \ {r} /\ IsInjective(waiting')
  BY <1>1, WaitingHead
<1> HIDE DEF r
<1>3. /\ skipped' \in Seq(Requests) /\ Len(skipped') = Len(skipped) + 1
      /\ ToSet(skipped') = {r} \cup ToSet(skipped) /\ IsInjective(skipped')
  <2>1. skipped \in Seq(Requests) /\ IsInjective(skipped) /\ r \notin ToSet(skipped)
    BY <1>2 DEF IndInv, TypeOK, Separate
  <2>2. <<r>> \in Seq(Requests) /\ Len(<<r>>) = 1 /\ ToSet(<<r>>) = {r} /\ IsInjective(<<r>>)
    BY <1>2, SingletonElements
  <2>3. /\ <<r>> \o skipped \in Seq(Requests)
        /\ Len(<<r>> \o skipped) = Len(<<r>>) + Len(skipped)
    BY <2>1, <2>2, ConcatProperties
  <2>4. ToSet(<<r>>) \cap ToSet(skipped) = {}
    BY <2>1, <2>2
  <2>5. /\ ToSet(<<r>> \o skipped) = ToSet(<<r>>) \cup ToSet(skipped)
        /\ IsInjective(<<r>> \o skipped)
    BY <2>1, <2>2, <2>4, ConcatElements
  <2>6. Len(skipped) \in Nat
    BY <2>1, LenProperties
  <2> QED
    BY <1>1, <2>2, <2>3, <2>5, <2>6
<1>4. TypeOK'
  BY <1>1, <1>2, <1>3 DEF IndInv, TypeOK, reqs, kv, step, engine
<1>5. Locals'
  BY <1>1 DEF IndInv, Locals, reqs, step, engine
<1>6. Separate'
  <2>1. OnRunning' = OnRunning /\ OffRunning' = OffRunning
    BY <1>1 DEF OnRunning, OffRunning, reqs
  <2> QED
    BY <1>1, <1>2, <1>3, <2>1 DEF IndInv, Separate
<1>7. Batched' /\ SlotsCovered'
  BY <1>1 DEF IndInv, Batched, SlotsCovered, reqs, kv, step, engine
<1>8. WindowBound'
  <2>1. Len(running) \in Nat /\ Len(waiting) \in Nat /\ Len(skipped) \in Nat
    BY LenProperties DEF IndInv, TypeOK
  <2> QED
    BY <1>1, <1>2, <1>3, <2>1, ConfigAssumption DEF IndInv, WindowBound
<1> QED
  BY <1>4, <1>5, <1>6, <1>7, <1>8 DEF IndInv

\* Computing num_new_tokens for the head of the waiting queue.
LEMMA PickWaitingInv ==
    ASSUME IndInv, PickWaiting
    PROVE  IndInv'
<1> DEFINE r == NextWaiting
<1>1. /\ pc = "waiting" /\ waiting # <<>> /\ budget > 0 /\ Len(running) # MaxRunning
      /\ status' = [status EXCEPT ![r] = IF @ = "fsm" THEN "waiting" ELSE @]
      /\ attempt' = NewTokensWaiting(r) /\ pc' = "walloc"
      /\ UNCHANGED <<queues, computed, tokens, level, age, grammar, kv, idx, budget, sched,
                     preempted, newReqs, engine>>
  BY DEF PickWaiting, AtWaitingHead
<1>2. r \in Requests /\ status[r] \in Live \ {"running"}
  BY <1>1, WaitingHead
<1>3. r' = r
  BY <1>1 DEF NextWaiting, queues
<1>4. attempt' \in Nat /\ attempt' <= budget /\ attempt' <= tokens[r]
  <2>1. tokens[r] \in Nat /\ budget \in Nat
    BY <1>2 DEF IndInv, TypeOK, Locals
  <2>2. Quantum(EffectiveLevel(r, 0)) \in Nat
    BY <1>2, EffectiveLevelType DEF IndInv
  <2> QED
    BY <1>1, <2>1, <2>2 DEF NewTokensWaiting, Least
<1> HIDE DEF r
<1>5. /\ status' \in [Requests -> Live \cup {"new", "finished"}]
      /\ \A q \in Requests : q # r => status'[q] = status[q]
      /\ status'[r] \in Live \ {"running"}
      /\ status[r] \in {"waiting", "fsm"} => status'[r] = "waiting"
      /\ status[r] = "preempted" => status'[r] = "preempted"
  BY <1>1, <1>2 DEF IndInv, TypeOK, Live
<1>6. TypeOK'
  <2>1. attempt' \in Int /\ pc' \in PCs
    BY <1>1, <1>4 DEF PCs
  <2> QED
    BY <1>1, <1>5, <2>1 DEF IndInv, TypeOK, queues, kv, engine
<1>7. Locals'
  BY <1>1, <1>3, <1>4 DEF IndInv, Locals, queues, engine, r
<1>8. OnRunning' = OnRunning /\ OffRunning' = OffRunning
  BY <1>2, <1>5 DEF OnRunning, OffRunning
<1>9. Separate' /\ WindowBound'
  BY <1>1, <1>8 DEF IndInv, Separate, WindowBound, queues
<1>10. Batched'
  <2>1. status[r] \in {"waiting", "fsm", "preempted"}
    BY <1>2 DEF Live
  <2>2. \A k \in DOMAIN batches', q \in Requests : batches'[k][q] > 0 =>
            status'[q] \in {"running", "preempted", "finished"}
    BY <1>1, <1>5, <2>1 DEF IndInv, Batched, engine
  <2>3. \A q \in Requests : sched'[q] > 0 => status'[q] = "running"
    BY <1>1, <1>5, <2>1 DEF IndInv, Batched
  <2>4. \A q \in ToSet(overflow) : q \in Requests
    BY DEF IndInv, Separate, OffRunning
  <2>5. \A q \in ToSet(overflow') : status'[q] \in {"waiting", "fsm"}
    BY <1>1, <1>5, <2>4 DEF IndInv, Batched, queues
  <2> QED
    BY <2>2, <2>3, <2>5 DEF Batched
<1>11. SlotsCovered'
  BY <1>1, <1>2, <1>5 DEF IndInv, SlotsCovered, kv
<1> QED
  BY <1>6, <1>7, <1>9, <1>10, <1>11 DEF IndInv

\* Elastic shrinking of a prefill that has not started.
LEMMA ShrinkWaitingInv ==
    ASSUME IndInv, ShrinkWaiting
    PROVE  IndInv'
<1>1. /\ pc = "walloc" /\ HalveAttempt /\ attempt > BlockSize
      /\ UNCHANGED <<pc, queues, reqs, grammar, kv, idx, budget, sched, preempted, newReqs, engine>>
  BY DEF ShrinkWaiting, CanShrink
<1>2. attempt' \in Nat /\ attempt' <= attempt
  BY <1>1, HalveBounds DEF IndInv, Locals
<1>3. TypeOK'
  <2>1. attempt' \in Int
    BY <1>2
  <2> QED
    BY <1>1, <2>1 DEF IndInv, TypeOK, queues, reqs, kv, engine
<1>4. Locals'
  <2>1. NextWaiting' = NextWaiting
    BY <1>1 DEF NextWaiting, queues
  <2>2. /\ waiting # <<>> /\ Len(running) # MaxRunning /\ attempt <= budget
        /\ attempt \in Nat /\ budget \in Nat /\ attempt <= tokens[NextWaiting]
    BY <1>1 DEF IndInv, Locals
  <2>3. tokens[NextWaiting] \in Nat
    BY <2>2, WaitingHead DEF IndInv, TypeOK
  <2>4. attempt' <= budget /\ attempt' <= tokens[NextWaiting]
    BY <1>2, <2>2, <2>3
  <2> QED
    BY <1>1, <1>2, <2>1, <2>2, <2>4 DEF IndInv, Locals, queues, reqs, engine
<1> QED
  BY <1>1, <1>3, <1>4, QuietInv DEF reqs, engine

\* The head of the waiting queue starts to run.
LEMMA ScheduleWaitingInv ==
    ASSUME IndInv, ScheduleWaiting
    PROVE  IndInv'
<1> DEFINE r == NextWaiting
<1>1. /\ pc = "walloc" /\ pc' = "waiting"
      /\ CanAllocate(r, 0, attempt) /\ Allocate(r, 0, attempt)
      /\ waiting' = Tail(waiting) /\ running' = Append(running, r)
      /\ idx' = idx + 1 /\ budget' = budget - attempt
      /\ newReqs' = IF status[r] = "waiting" THEN newReqs \cup {r} ELSE newReqs
      /\ sched' = [sched EXCEPT ![r] = attempt]
      /\ status' = [status EXCEPT ![r] = "running"]
      /\ computed' = [computed EXCEPT ![r] = 0]
      /\ OnScheduled(r, 0, attempt)
      /\ UNCHANGED <<qlvl, overflow, skipped, tokens, grammar, attempt, preempted, engine>>
  BY DEF ScheduleWaiting
<1>2. /\ waiting # <<>> /\ Len(running) # MaxRunning /\ attempt <= budget
      /\ attempt \in Nat /\ budget \in Nat /\ idx \in Nat /\ attempt <= tokens[r]
  BY <1>1 DEF IndInv, Locals
<1>3. /\ r \in ToSet(waiting) /\ r \in Requests /\ status[r] \in Live \ {"running"}
      /\ waiting' \in Seq(Requests) /\ Len(waiting') = Len(waiting) - 1
      /\ ToSet(waiting') = ToSet(waiting) \ {r} /\ IsInjective(waiting')
  BY <1>1, <1>2, WaitingHead
<1> HIDE DEF r
<1>4. /\ running' \in Seq(Requests) /\ Len(running') = Len(running) + 1
      /\ ToSet(running') = ToSet(running) \cup {r} /\ IsInjective(running')
  <2>1. running \in Seq(Requests) /\ IsInjective(running) /\ r \notin ToSet(running)
    BY <1>3 DEF IndInv, TypeOK, Separate, OnRunning
  <2>2. ToSet(Append(running, r)) = ToSet(running) \cup {r} /\ IsInjective(Append(running, r))
    BY <1>3, <2>1, AppendElements
  <2>3. Append(running, r) \in Seq(Requests) /\ Len(Append(running, r)) = Len(running) + 1
    BY <1>3, <2>1
  <2> QED
    BY <1>1, <2>2, <2>3
<1>5. tokens[r] \in Nat /\ tokens[r] < MaxModelLen /\ MaxModelLen \in Nat
  BY <1>3, ConfigAssumption DEF IndInv, TypeOK, Locals
<1>6. /\ held' \in [Requests -> Nat] /\ free' \in Int /\ free' >= 0
      /\ held'[r] * BlockSize >= 0 + attempt
      /\ \A q \in Requests : q # r => held'[q] = held[q]
  <2>1. 0 + attempt < MaxModelLen /\ 0 \in Nat
    BY <1>2, <1>5
  <2> QED
    BY <1>1, <1>2, <1>3, <2>1, AllocateCovers DEF IndInv, SlotsCovered
<1>7. /\ level' \in [Requests -> 0..(NumLevels - 1)]
      /\ age' \in [Requests -> Nat \cup {NoAge}]
  BY <1>1, <1>3, OnScheduledType DEF IndInv
<1>8. /\ sched' \in [Requests -> Nat] /\ sched'[r] = attempt
      /\ \A q \in Requests : q # r => sched'[q] = sched[q]
  BY <1>1, <1>2, <1>3 DEF IndInv, Locals
<1>9. /\ computed' \in [Requests -> Nat] /\ computed'[r] = 0
      /\ \A q \in Requests : q # r => computed'[q] = computed[q]
      /\ status'[r] = "running" /\ \A q \in Requests : q # r => status'[q] = status[q]
      /\ status' \in [Requests -> Live \cup {"new", "finished"}]
  BY <1>1, <1>3 DEF IndInv, TypeOK, Live
<1>10. budget' \in Nat /\ idx' \in Nat
  BY <1>1, <1>2
<1>11. TypeOK'
  <2>1. sched' \in [Requests -> Int] /\ budget' \in Int /\ idx' \in Int /\ pc' \in PCs
    BY <1>1, <1>8, <1>10 DEF PCs
  <2>2. newReqs' \subseteq Requests
    BY <1>1, <1>3 DEF IndInv, TypeOK
  <2> QED
    BY <1>1, <1>3, <1>4, <1>6, <1>7, <1>9, <2>1, <2>2 DEF IndInv, TypeOK, engine
<1>12. Locals'
  <2>1. \A q \in Requests : computed'[q] + sched'[q] <= tokens'[q] /\ tokens'[q] < MaxModelLen
    <3>1. \A q \in Requests : computed[q] + sched[q] <= tokens[q] /\ tokens[q] < MaxModelLen
      BY DEF IndInv, Locals
    <3> QED
      BY <1>1, <1>2, <1>5, <1>8, <1>9, <3>1
  <2> QED
    BY <1>1, <1>2, <1>8, <1>10, <2>1 DEF IndInv, Locals
<1>13. Separate'
  <2>1. OnRunning' = OnRunning \cup {r} /\ OffRunning' = OffRunning \ {r}
    BY <1>3, <1>9 DEF OnRunning, OffRunning
  <2> QED
    BY <1>1, <1>3, <1>4, <2>1 DEF IndInv, Separate
<1>14. Batched'
  <2>1. r \notin ToSet(overflow) /\ \A q \in ToSet(overflow) : q \in Requests
    BY <1>3 DEF IndInv, Separate, OffRunning
  <2>2. \A k \in DOMAIN batches', q \in Requests : batches'[k][q] > 0 =>
            status'[q] \in {"running", "preempted", "finished"}
    BY <1>1, <1>9 DEF IndInv, Batched, engine
  <2>3. \A q \in Requests : sched'[q] > 0 => status'[q] = "running"
    BY <1>8, <1>9 DEF IndInv, Batched
  <2>4. \A q \in ToSet(overflow') : status'[q] \in {"waiting", "fsm"}
    BY <1>1, <1>9, <2>1 DEF IndInv, Batched
  <2> QED
    BY <2>2, <2>3, <2>4 DEF Batched
<1>15. SlotsCovered'
  <2>1. \A q \in Requests : held'[q] * BlockSize >= computed'[q] + sched'[q]
    BY <1>6, <1>8, <1>9 DEF IndInv, SlotsCovered
  <2>2. \A q \in Requests : status'[q] # "running" => held'[q] = 0
    BY <1>6, <1>9 DEF IndInv, SlotsCovered
  <2> QED
    BY <1>6, <2>1, <2>2 DEF SlotsCovered
<1>16. WindowBound'
  <2>1. Len(running) \in Nat /\ Len(waiting) \in Nat /\ Len(skipped) \in Nat
    BY LenProperties DEF IndInv, TypeOK
  <2> QED
    BY <1>1, <1>2, <1>3, <1>4, <2>1, ConfigAssumption DEF IndInv, WindowBound
<1> QED
  BY <1>11, <1>12, <1>13, <1>14, <1>15, <1>16 DEF IndInv

-----------------------------------------------------------------------------
\* The end of schedule(): skipped requests return, counters advance, the batch
\* joins the queue.
LEMMA EndScheduleInv ==
    ASSUME IndInv, EndSchedule
    PROVE  IndInv'
<1> DEFINE batch == [r \in Requests |-> IF sched[r] > 0 THEN computed[r] + sched[r] ELSE 0]
<1>1. /\ waiting' = Reverse(skipped) \o waiting
      /\ qlvl' = FrontLevels(ToSet(skipped)) /\ skipped' = <<>>
      /\ computed' = [r \in Requests |-> computed[r] + sched[r]]
      /\ batches' = Append(batches, batch)
      /\ worker' = WorkerUpdate /\ finished' = {}
      /\ pc' \in {"output", "input"}
      /\ UNCHANGED <<running, overflow, status, tokens, level, age, grammar, kv>>
  BY DEF EndSchedule
<1>2. /\ idx' = 0 /\ budget' = MaxBatchTokens /\ attempt' = 0
      /\ sched' = [r \in Requests |-> 0] /\ preempted' = {} /\ newReqs' = {}
  BY DEF EndSchedule, ResetStep
<1>3. /\ running \in Seq(Requests) /\ waiting \in Seq(Requests)
      /\ skipped \in Seq(Requests) /\ overflow \in Seq(Requests)
      /\ IsInjective(waiting) /\ IsInjective(skipped)
      /\ ToSet(waiting) \cap ToSet(skipped) = {}
  BY DEF IndInv, TypeOK, Separate
<1>4. /\ Reverse(skipped) \in Seq(Requests) /\ Len(Reverse(skipped)) = Len(skipped)
      /\ ToSet(Reverse(skipped)) = ToSet(skipped) /\ IsInjective(Reverse(skipped))
  BY <1>3, ReverseProperties
<1>5. waiting' \in Seq(Requests) /\ Len(waiting') = Len(skipped) + Len(waiting)
  BY <1>1, <1>3, <1>4, ConcatProperties
<1>6. ToSet(waiting') = ToSet(skipped) \cup ToSet(waiting) /\ IsInjective(waiting')
  <2>1. ToSet(Reverse(skipped)) \cap ToSet(waiting) = {}
    BY <1>3, <1>4
  <2>2. /\ ToSet(Reverse(skipped) \o waiting) = ToSet(Reverse(skipped)) \cup ToSet(waiting)
        /\ IsInjective(Reverse(skipped) \o waiting)
    BY <1>3, <1>4, <2>1, ConcatElements
  <2> QED
    BY <1>1, <1>4, <2>2
<1>7. computed \in [Requests -> Nat] /\ sched \in [Requests -> Nat]
  BY DEF IndInv, TypeOK, Locals
<1>8. /\ batch \in [Requests -> Int]
      /\ \A q \in Requests : batch[q] > 0 => sched[q] > 0
  BY <1>7
<1> HIDE DEF batch
<1>9. batches' \in Seq([Requests -> Int]) /\ batches' # <<>>
  <2>1. batches \in Seq([Requests -> Int])
    BY DEF IndInv, TypeOK
  <2> QED
    BY <1>1, <1>8, <2>1, AppendType
<1>10. TypeOK'
  <2>1. qlvl' \in [Requests -> 0..(NumLevels - 1)]
    <3>1. 0 \in 0..(NumLevels - 1) /\ qlvl \in [Requests -> 0..(NumLevels - 1)]
      BY LevelsType DEF IndInv, TypeOK
    <3> QED
      BY <1>1, <3>1 DEF FrontLevels
  <2>2. computed' \in [Requests -> Nat]
    BY <1>1, <1>7
  <2>3. /\ sched' \in [Requests -> Int] /\ budget' \in Int /\ idx' \in Int /\ attempt' \in Int
        /\ preempted' \subseteq Requests /\ newReqs' \subseteq Requests
    BY <1>2, ConfigAssumption
  <2>4. worker' \subseteq Requests /\ finished' \subseteq Requests /\ pc' \in PCs
    BY <1>1 DEF IndInv, TypeOK, WorkerUpdate, PCs
  <2>5. skipped' \in Seq(Requests)
    BY <1>1
  <2> QED
    BY <1>1, <1>5, <1>9, <2>1, <2>2, <2>3, <2>4, <2>5 DEF IndInv, TypeOK, kv
<1>11. Locals'
  <2>1. /\ sched' \in [Requests -> Nat] /\ budget' \in Nat /\ idx' \in Nat /\ attempt' \in Nat
        /\ \A q \in Requests : sched'[q] = 0
    BY <1>2, ConfigAssumption
  <2>2. \A q \in Requests : computed'[q] + sched'[q] <= tokens'[q] /\ tokens'[q] < MaxModelLen
    BY <1>1, <1>7, <2>1 DEF IndInv, Locals
  <2> QED
    BY <1>1, <1>9, <2>1, <2>2 DEF Locals
<1>12. Separate'
  <2>1. OnRunning' = OnRunning /\ OffRunning' = OffRunning
    BY <1>1 DEF OnRunning, OffRunning
  <2>2. ToSet(skipped') = {} /\ IsInjective(skipped')
    BY <1>1 DEF ToSet, IsInjective
  <2> QED
    BY <1>1, <1>6, <2>1, <2>2 DEF IndInv, Separate
<1>13. Batched'
  <2>1. \A q \in Requests : batch[q] > 0 => status[q] = "running"
    BY <1>8 DEF IndInv, Batched
  <2>2. \A k \in DOMAIN batches' : \/ k \in DOMAIN batches /\ batches'[k] = batches[k]
                                  \/ batches'[k] = batch
    <3>1. batches \in Seq([Requests -> Int])
      BY DEF IndInv, TypeOK
    <3> QED
      BY <1>1, <1>8, <3>1
  <2>3. \A k \in DOMAIN batches', q \in Requests : batches'[k][q] > 0 =>
            status'[q] \in {"running", "preempted", "finished"}
    BY <1>1, <2>1, <2>2 DEF IndInv, Batched
  <2>4. \A q \in Requests : ~(sched'[q] > 0)
    BY <1>2
  <2>5. \A q \in ToSet(overflow') : status'[q] \in {"waiting", "fsm"}
    BY <1>1 DEF IndInv, Batched
  <2> QED
    BY <2>3, <2>4, <2>5 DEF Batched
<1>14. SlotsCovered'
  <2>1. \A q \in Requests : computed'[q] + sched'[q] = computed[q] + sched[q]
    BY <1>1, <1>2, <1>7
  <2> QED
    BY <1>1, <2>1 DEF IndInv, SlotsCovered, kv
<1>15. WindowBound'
  <2>1. /\ Len(running) \in Nat /\ Len(waiting) \in Nat /\ Len(skipped) \in Nat
        /\ Len(skipped') = 0
    BY <1>1, <1>3, LenProperties
  <2> QED
    BY <1>1, <1>5, <2>1, ConfigAssumption DEF IndInv, WindowBound
<1> QED
  BY <1>10, <1>11, <1>12, <1>13, <1>14, <1>15 DEF IndInv

-----------------------------------------------------------------------------
\* update_from_output when the scheduler has nothing left to do.
LEMMA DrainBatchesInv ==
    ASSUME IndInv, DrainBatches
    PROVE  IndInv'
<1>1. /\ pc = "input" /\ pc' = "output" /\ batches # <<>>
      /\ UNCHANGED <<queues, reqs, grammar, kv, step, engine>>
  BY DEF DrainBatches
<1>2. TypeOK'
  BY <1>1 DEF IndInv, TypeOK, PCs, queues, reqs, kv, step, engine
<1>3. Locals'
  BY <1>1 DEF IndInv, Locals, queues, reqs, step, engine
<1> QED
  BY <1>1, <1>2, <1>3, QuietInv DEF reqs, step, engine

\* The request whose output is next, and what is left of the batches after it.
LEMMA NextOutputFacts ==
    ASSUME IndInv, pc = "output", InBatch # {}
    PROVE  /\ NextOutput \in Requests
           /\ status[NextOutput] \in {"running", "preempted", "finished"}
<1>1. NextOutput \in Requests /\ Head(batches)[NextOutput] > 0
  BY DEF NextOutput, InBatch
<1>2. batches # <<>> /\ batches \in Seq([Requests -> Int])
  BY DEF IndInv, TypeOK, Locals
<1>3. 1 \in DOMAIN batches /\ Head(batches) = batches[1]
  BY <1>2
<1> QED
  BY <1>1, <1>3 DEF IndInv, Batched

\* Taking an output out of the oldest batch adds nothing to a batch.
LEMMA TakeOutputFacts ==
    ASSUME IndInv, pc = "output", NEW r \in Requests, TakeOutput(r)
    PROVE  /\ batches' \in Seq([Requests -> Int]) /\ batches' # <<>>
           /\ \A k \in DOMAIN batches', q \in Requests :
                 batches'[k][q] > 0 => status[q] \in {"running", "preempted", "finished"}
<1> DEFINE B == [Requests -> Int]
           b == [batches[1] EXCEPT ![r] = 0]
<1>1. batches # <<>> /\ batches \in Seq(B)
  BY DEF IndInv, TypeOK, Locals
<1>2. 1 \in 1..Len(batches) /\ Len(batches) \in Nat /\ batches[1] \in B
  BY <1>1, EmptySeq, LenProperties, ElementOfSeq
<1>3. batches' = [batches EXCEPT ![1] = b]
  BY DEF TakeOutput
<1>4. b \in B /\ \A q \in Requests : b[q] > 0 => batches[1][q] > 0
  BY <1>2
<1> HIDE DEF b, B
<1>5. /\ batches' \in Seq(B) /\ Len(batches') = Len(batches)
      /\ \A k \in 1..Len(batches) : batches'[k] = IF k = 1 THEN b ELSE batches[k]
  BY <1>1, <1>2, <1>3, <1>4, ExceptSeq
<1>6. DOMAIN batches' = 1..Len(batches) /\ DOMAIN batches = 1..Len(batches)
  BY <1>1, <1>5, LenProperties
<1>7. batches' # <<>>
  BY <1>2, <1>5, EmptySeq
<1>8. \A k \in DOMAIN batches', q \in Requests : batches'[k][q] > 0 => batches[k][q] > 0
  BY <1>4, <1>5, <1>6
<1> QED
  BY <1>5, <1>6, <1>7, <1>8 DEF IndInv, Batched, B

\* An output nobody waits for.
LEMMA IgnoreOutputInv ==
    ASSUME IndInv, IgnoreOutput
    PROVE  IndInv'
<1>1. /\ pc = "output" /\ InBatch # {} /\ TakeOutput(NextOutput)
      /\ UNCHANGED <<pc, queues, reqs, grammar, kv, step, worker, finished>>
  BY DEF IgnoreOutput
<1>2. /\ batches' \in Seq([Requests -> Int]) /\ batches' # <<>>
      /\ \A k \in DOMAIN batches', q \in Requests :
            batches'[k][q] > 0 => status[q] \in {"running", "preempted", "finished"}
  BY <1>1, NextOutputFacts, TakeOutputFacts
<1>3. TypeOK'
  BY <1>1, <1>2 DEF IndInv, TypeOK, queues, reqs, kv, step
<1>4. Locals'
  BY <1>1, <1>2 DEF IndInv, Locals, queues, reqs, step
<1>5. Separate' /\ SlotsCovered' /\ WindowBound'
  BY <1>1 DEF IndInv, Separate, OnRunning, OffRunning, SlotsCovered, WindowBound,
              queues, reqs, kv, step
<1>6. Batched'
  BY <1>1, <1>2 DEF IndInv, Batched, queues, reqs, step
<1> QED
  BY <1>3, <1>4, <1>5, <1>6 DEF IndInv

\* A sampled token is appended.
LEMMA AppendOutputInv ==
    ASSUME IndInv, AppendOutput
    PROVE  IndInv'
<1> DEFINE r == NextOutput
<1>1. /\ pc = "output" /\ InBatch # {} /\ TakeOutput(r) /\ ~MustStop(r)
      /\ tokens' = [tokens EXCEPT ![r] = @ + 1]
      /\ UNCHANGED <<pc, queues, status, computed, level, age, grammar, kv, step, worker, finished>>
  BY DEF AppendOutput
<1>2. r \in Requests
  BY <1>1, NextOutputFacts
<1>3. /\ batches' \in Seq([Requests -> Int]) /\ batches' # <<>>
      /\ \A k \in DOMAIN batches', q \in Requests :
            batches'[k][q] > 0 => status[q] \in {"running", "preempted", "finished"}
  BY <1>1, <1>2, TakeOutputFacts
<1> HIDE DEF r
<1>4. /\ tokens' \in [Requests -> Nat] /\ tokens'[r] = tokens[r] + 1
      /\ \A q \in Requests : q # r => tokens'[q] = tokens[q]
      /\ \A q \in Requests : tokens[q] \in Nat /\ computed[q] \in Nat
  BY <1>1, <1>2 DEF IndInv, TypeOK
<1>5. tokens[r] + 1 < MaxModelLen
  BY <1>1, <1>2, <1>4, ConfigAssumption DEF MustStop
<1>6. TypeOK'
  BY <1>1, <1>3, <1>4 DEF IndInv, TypeOK, queues, kv, step
<1>7. Locals'
  <2>1. \A q \in Requests : computed'[q] + sched'[q] <= tokens'[q] /\ tokens'[q] < MaxModelLen
    <3>1. \A q \in Requests : /\ computed[q] + sched[q] <= tokens[q] /\ tokens[q] < MaxModelLen
                              /\ sched[q] \in Nat
      BY DEF IndInv, Locals
    <3>2. computed' = computed /\ sched' = sched
      BY <1>1 DEF step
    <3> QED
      BY <1>4, <1>5, <3>1, <3>2
  <2> QED
    BY <1>1, <1>3, <2>1 DEF IndInv, Locals, queues, step
<1>8. Separate' /\ SlotsCovered' /\ WindowBound'
  BY <1>1 DEF IndInv, Separate, OnRunning, OffRunning, SlotsCovered, WindowBound,
              queues, kv, step
<1>9. Batched'
  BY <1>1, <1>3 DEF IndInv, Batched, queues, step
<1> QED
  BY <1>6, <1>7, <1>8, <1>9 DEF IndInv

\* A request that stops is removed from the list its status names; it cannot be
\* in the overflow list, because it has been in a batch.
LEMMA StopOutputInv ==
    ASSUME IndInv, StopOutput
    PROVE  IndInv'
<1> DEFINE r == NextOutput
<1>1. /\ pc = "output" /\ InBatch # {} /\ TakeOutput(r) /\ FreeRequest(r)
      /\ qlvl' = qlvl /\ overflow' = overflow /\ grammar' = grammar /\ worker' = worker
      /\ UNCHANGED <<pc, skipped, step>>
  BY DEF StopOutput
<1>2. r \in Requests /\ status[r] \in {"running", "preempted", "finished"}
  BY <1>1, NextOutputFacts
<1>3. IF status[r] = "running"
         THEN running' = Without(running, r) /\ UNCHANGED waiting
         ELSE waiting' = Without(waiting, r) /\ UNCHANGED running
  BY DEF StopOutput
<1>4. /\ batches' \in Seq([Requests -> Int]) /\ batches' # <<>>
      /\ \A k \in DOMAIN batches', q \in Requests :
            batches'[k][q] > 0 => status[q] \in {"running", "preempted", "finished"}
  BY <1>1, <1>2, TakeOutputFacts
<1> HIDE DEF r
<1>5. ToSet(overflow') = ToSet(overflow) \ {r} /\ IsInjective(overflow')
  <2>1. r \notin ToSet(overflow)
    BY <1>2 DEF IndInv, Batched
  <2> QED
    BY <1>1, <2>1 DEF IndInv, Separate
<1>6. /\ running \in Seq(Requests) /\ waiting \in Seq(Requests)
      /\ IsInjective(running) /\ IsInjective(waiting)
      /\ Len(running) \in Nat /\ Len(waiting) \in Nat
  BY LenProperties DEF IndInv, TypeOK, Separate
<1>7. /\ running' \in Seq(Requests) /\ Len(running') <= Len(running)
      /\ ToSet(running') = ToSet(running) \ {r} /\ IsInjective(running')
  <2>1. CASE status[r] = "running"
    BY <1>3, <1>6, <2>1, WithoutProperties, WithoutElements
  <2>2. CASE status[r] # "running"
    <3>1. r \notin ToSet(running)
      BY <2>2 DEF IndInv, Separate, OnRunning
    <3> QED
      BY <1>3, <1>6, <2>2, <3>1
  <2> QED
    BY <2>1, <2>2
<1>8. /\ waiting' \in Seq(Requests) /\ Len(waiting') <= Len(waiting)
      /\ ToSet(waiting') = ToSet(waiting) \ {r} /\ IsInjective(waiting')
  <2>1. CASE status[r] = "running"
    <3>1. r \notin ToSet(waiting)
      BY <2>1 DEF IndInv, Separate, OffRunning
    <3> QED
      BY <1>3, <1>6, <2>1, <3>1
  <2>2. CASE status[r] # "running"
    BY <1>3, <1>6, <2>2, WithoutProperties, WithoutElements
  <2> QED
    BY <2>1, <2>2
<1>9. TypeOK'
  BY <1>1, <1>2, <1>4, <1>7, <1>8, FreeRequestState DEF IndInv, TypeOK, step
<1> QED
  BY <1>1, <1>2, <1>4, <1>5, <1>7, <1>8, <1>9, FreedInv

\* The oldest batch leaves the batch queue.
LEMMA EndOutputInv ==
    ASSUME IndInv, EndOutput
    PROVE  IndInv'
<1>1. /\ pc = "output" /\ pc' = "input" /\ batches' = Tail(batches)
      /\ UNCHANGED <<queues, reqs, grammar, kv, step, worker, finished>>
  BY DEF EndOutput
<1>2. batches # <<>> /\ batches \in Seq([Requests -> Int])
  BY <1>1 DEF IndInv, TypeOK, Locals
<1>3. /\ batches' \in Seq([Requests -> Int]) /\ Len(batches') = Len(batches) - 1
      /\ \A k \in 1..Len(batches') : batches'[k] = batches[k + 1]
  BY <1>1, <1>2, HeadTailProperties
<1>4. TypeOK'
  BY <1>1, <1>3 DEF IndInv, TypeOK, PCs, queues, reqs, kv, step
<1>5. Locals'
  BY <1>1 DEF IndInv, Locals, queues, reqs, step
<1>6. Separate' /\ SlotsCovered' /\ WindowBound'
  BY <1>1 DEF IndInv, Separate, OnRunning, OffRunning, SlotsCovered, WindowBound,
              queues, reqs, kv, step
<1>7. Batched'
  <2>1. \A k \in DOMAIN batches' : k + 1 \in DOMAIN batches /\ batches'[k] = batches[k + 1]
    <3>1. DOMAIN batches' = 1..Len(batches') /\ DOMAIN batches = 1..Len(batches)
          /\ Len(batches) \in Nat
      BY <1>2, <1>3, LenProperties
    <3> QED
      BY <1>3, <3>1
  <2> QED
    BY <1>1, <2>1 DEF IndInv, Batched, queues, reqs, step
<1> QED
  BY <1>4, <1>5, <1>6, <1>7 DEF IndInv

\* Every step of the engine, its clients and the grammar executor preserves it.
LEMMA StepInv == IndInv /\ [Next]_vars => IndInv'
<1> SUFFICES ASSUME IndInv, [Next]_vars PROVE IndInv'
  OBVIOUS
<1>1. CASE UNCHANGED vars
  <2>1. TypeOK'
    BY <1>1 DEF IndInv, TypeOK, vars, queues, reqs, kv, step, engine
  <2>2. Locals'
    BY <1>1 DEF IndInv, Locals, Current, NextWaiting, vars, queues, reqs, step, engine
  <2> QED
    BY <1>1, <2>1, <2>2, QuietInv DEF vars, reqs, step, engine
<1>2. CASE Schedule
  BY <1>2, BeginScheduleInv, AdmitOverflowInv, ReorderRunningInv, LeaveRunningLoopInv,
     PickRunningInv, ScheduleRunningInv, ShrinkRunningInv, PreemptRunningInv, LeaveWaitingInv,
     SkipWaitingInv, PickWaitingInv, ShrinkWaitingInv, ScheduleWaitingInv, EndScheduleInv
     DEF Schedule
<1>3. CASE UpdateFromOutput
  BY <1>3, DrainBatchesInv, IgnoreOutputInv, AppendOutputInv, StopOutputInv, EndOutputInv
     DEF UpdateFromOutput
<1>4. CASE Clients
  BY <1>4, AddRequestInv, FinishRequestInv DEF Clients
<1>5. ASSUME NEW r \in Requests, GrammarReady(r) PROVE IndInv'
  BY <1>5, GrammarReadyInv
<1> QED
  BY <1>1, <1>2, <1>3, <1>4, <1>5 DEF Next, EngineStep, Idle

-----------------------------------------------------------------------------
\* Hence it holds in every reachable state.
LEMMA Invariance == Spec => []IndInv
  BY InitInv, StepInv, PTL DEF Spec

\* Types, and in particular levels: demotion in _mars_on_scheduled, the length
\* buckets and the front of the queue never leave the configured levels.
THEOREM TypeCorrect == Spec => []TypeOK
<1>1. IndInv => TypeOK
  BY DEF IndInv
<1> QED
  BY <1>1, Invariance, PTL

\* No request is lost or duplicated by admission, preemption, skipping, abort
\* or a late output, whatever the depth of the batch queue.
THEOREM PartitionCorrect == Spec => []QueuePartition
<1>1. IndInv => QueuePartition
  BY PartitionSplit DEF IndInv
<1> QED
  BY <1>1, Invariance, PTL

\* Every computed or scheduled token has a slot and the pool is not overdrawn.
THEOREM SlotsCorrect == Spec => []SlotsCovered
<1>1. IndInv => SlotsCovered
  BY DEF IndInv
<1> QED
  BY <1>1, Invariance, PTL

\* The active window and max_num_running_reqs are never exceeded.
THEOREM WindowCorrect == Spec => []WindowBound
<1>1. IndInv => WindowBound
  BY DEF IndInv
<1> QED
  BY <1>1, Invariance, PTL

-----------------------------------------------------------------------------
(* The two accounts of the scheduler, on top of what holds already. *)

\* The cursor of the running loop: nobody at or behind it has been scheduled, and
\* while there is budget left the waiting loop begins when all have been visited.
CursorSound ==
    /\ idx <= Len(running)
    /\ \A i \in DOMAIN running : i > idx => sched[running[i]] = 0
    /\ pc \in {"input", "output", "admit"} => idx = 0
    /\ pc = "waiting" => budget = 0 \/ idx = Len(running)
    /\ pc = "walloc" => idx = Len(running)

\* What is scheduled and what is left of the budget add up to the batch limit.
TokensExact == budget + Total(sched) = MaxBatchTokens

\* Blocks change hands one request at a time.
LEMMA HandOver ==
    ASSUME IndInv, held' \in [Requests -> Nat], NEW r \in Requests, KVConservation,
           \A q \in Requests : q # r => held'[q] = held[q],
           free' = free - (held'[r] - held[r])
    PROVE  KVConservation'
<1>1. IsFiniteSet(Requests) /\ held \in [Requests -> Int] /\ held' \in [Requests -> Int]
  <2>1. held \in [Requests -> Nat]
    BY DEF IndInv, TypeOK
  <2>2. held \in [Requests -> Int] /\ held' \in [Requests -> Int]
    BY <2>1
  <2> QED
    BY <2>2, RequestsAssumption
<1>2. Total(held) \in Int /\ Total(held') = Total(held) + (held'[r] - held[r])
  BY <1>1, TotalUpdate, ZenonT(60) DEF Total
<1>3. free \in Int /\ held[r] \in Int /\ held'[r] \in Int /\ NumBlocks \in Int
  BY ConfigAssumption DEF IndInv, TypeOK, NumBlocks
<1>4. free + Total(held) = NumBlocks
  BY DEF KVConservation
<1>5. free' + Total(held') = NumBlocks
  BY <1>2, <1>3, <1>4
<1> QED
  BY <1>5 DEF KVConservation

\* _free_blocks returns what the request held.
LEMMA ReleaseConserves ==
    ASSUME IndInv, KVConservation, NEW r \in Requests, Release(r)
    PROVE  KVConservation'
<1>1. /\ held' \in [Requests -> Nat] /\ held'[r] = 0
      /\ \A q \in Requests : q # r => held'[q] = held[q]
  BY ReleaseEmpties DEF IndInv, SlotsCovered
<1>2. free' = free - (held'[r] - held[r])
  BY <1>1 DEF Release, IndInv, TypeOK
<1> QED
  BY <1>1, <1>2, HandOver

\* allocate_slots takes what it gives to the request from the pool.
LEMMA AllocateConserves ==
    ASSUME IndInv, KVConservation, NEW r \in Requests, NEW c, NEW n, Allocate(r, c, n),
           held' \in [Requests -> Nat]
    PROVE  KVConservation'
<1> DEFINE h == Most(held[r], Required(r, c, n))
<1>1. held' = [held EXCEPT ![r] = h] /\ free' = free - (h - held[r])
  BY DEF Allocate
<1> HIDE DEF h
<1>2. held'[r] = h /\ \A q \in Requests : q # r => held'[q] = held[q]
  BY <1>1 DEF IndInv, TypeOK
<1>3. free' = free - (held'[r] - held[r])
  BY <1>1, <1>2
<1> QED
  BY <1>2, <1>3, HandOver

\* The block account over all steps.
LEMMA BlocksStep ==
    ASSUME IndInv, IndInv', KVConservation, [Next]_vars
    PROVE  KVConservation'
<1>0. held' \in [Requests -> Nat]
  BY DEF IndInv, TypeOK
<1>1. CASE UNCHANGED kv
  BY <1>1 DEF KVConservation, kv
<1>2. ASSUME NEW r \in Requests, FinishRequest(r) PROVE KVConservation'
  BY <1>2, ReleaseConserves DEF FinishRequest, FreeRequest
<1>3. CASE ScheduleRunning
  <2>1. Current \in Requests
    BY <1>3, CurrentRunning DEF ScheduleRunning, IndInv, Locals
  <2> QED
    BY <1>0, <1>3, <2>1, AllocateConserves DEF ScheduleRunning
<1>4. CASE PreemptRunning
  <2>1. PICK i \in DOMAIN running : Release(running[i])
    BY <1>4 DEF PreemptRunning, Preempt
  <2>2. running[i] \in Requests
    BY <2>1 DEF IndInv, TypeOK
  <2> QED
    BY <2>1, <2>2, ReleaseConserves
<1>5. CASE ScheduleWaiting
  <2>1. NextWaiting \in Requests
    BY <1>5 DEF ScheduleWaiting, IndInv, Locals, TypeOK, NextWaiting
  <2> QED
    BY <1>0, <1>5, <2>1, AllocateConserves DEF ScheduleWaiting
<1>6. CASE StopOutput
  <2>1. NextOutput \in Requests
    BY <1>6, NextOutputFacts DEF StopOutput
  <2> QED
    BY <1>6, <2>1, ReleaseConserves DEF StopOutput, FreeRequest
<1>7. CASE UpdateFromOutput
  BY <1>1, <1>6, <1>7 DEF UpdateFromOutput, DrainBatches, IgnoreOutput, AppendOutput, EndOutput
<1>8. CASE Schedule
  BY <1>1, <1>3, <1>4, <1>5, <1>8
     DEF Schedule, BeginSchedule, AdmitOverflow, ReorderRunning, LeaveRunningLoop, PickRunning,
         ShrinkRunning, LeaveWaitingLoop, SkipWaiting, PickWaiting, ShrinkWaiting,
         BlockedWaiting, EndSchedule
<1>9. ASSUME NEW r \in Requests, AddRequest(r) \/ GrammarReady(r) PROVE KVConservation'
  BY <1>1, <1>9 DEF AddRequest, GrammarReady
<1> QED
  BY <1>1, <1>2, <1>7, <1>8, <1>9 DEF Next, EngineStep, Clients, Idle, vars

\* Tokens are charged to and refunded by one request at a time.
LEMMA Charge ==
    ASSUME IndInv, IndInv', NEW r \in Requests, TokensExact,
           \A q \in Requests : q # r => sched'[q] = sched[q],
           budget' = budget - (sched'[r] - sched[r])
    PROVE  TokensExact'
<1>1. IsFiniteSet(Requests) /\ sched \in [Requests -> Int] /\ sched' \in [Requests -> Int]
  BY RequestsAssumption DEF IndInv, TypeOK
<1>2. Total(sched) \in Int /\ Total(sched') = Total(sched) + (sched'[r] - sched[r])
  BY <1>1, TotalUpdate, ZenonT(60) DEF Total
<1>3. budget \in Int /\ sched[r] \in Int /\ sched'[r] \in Int /\ MaxBatchTokens \in Int
  BY ConfigAssumption DEF IndInv, TypeOK
<1>4. budget + Total(sched) = MaxBatchTokens
  BY DEF TokensExact
<1>5. budget' + Total(sched') = MaxBatchTokens
  BY <1>2, <1>3, <1>4
<1> QED
  BY <1>5 DEF TokensExact

\* The token account over all steps.
LEMMA TokensStep ==
    ASSUME IndInv, IndInv', CursorSound, TokensExact, [Next]_vars
    PROVE  TokensExact'
<1>0. sched \in [Requests -> Nat] /\ budget \in Nat /\ attempt \in Nat
  BY DEF IndInv, Locals
<1>1. CASE UNCHANGED <<budget, sched>>
  BY <1>1 DEF TokensExact
<1>2. CASE ScheduleRunning
  <2>1. Current \in Requests
    BY <1>2, CurrentRunning DEF ScheduleRunning, IndInv, Locals
  <2>2. sched[Current] = 0
    <3>1. idx + 1 \in DOMAIN running /\ idx + 1 > idx
      <4>1. idx \in Nat /\ idx < Len(running) /\ running \in Seq(Requests)
        BY <1>2 DEF ScheduleRunning, IndInv, Locals, TypeOK
      <4> QED
        BY <4>1
    <3> QED
      BY <3>1 DEF CursorSound, Current
  <2>3. sched' = [sched EXCEPT ![Current] = attempt] /\ budget' = budget - attempt
    BY <1>2 DEF ScheduleRunning
  <2> HIDE DEF Current
  <2>4. budget' = budget - (sched'[Current] - sched[Current])
    BY <1>0, <2>1, <2>2, <2>3
  <2>5. \A q \in Requests : q # Current => sched'[q] = sched[q]
    BY <1>0, <2>3
  <2> QED
    BY <2>1, <2>4, <2>5, Charge
<1>3. CASE PreemptRunning
  <2>1. PICK i \in DOMAIN running : Unschedule(i)
    BY <1>3 DEF PreemptRunning, Preempt
  <2> DEFINE v == running[i]
  <2>2. v \in Requests
    BY <2>1 DEF IndInv, TypeOK
  <2>3. sched' = [sched EXCEPT ![v] = 0] /\ budget' = budget + sched[v]
    BY <2>1 DEF Unschedule
  <2> HIDE DEF v
  <2>4. budget' = budget - (sched'[v] - sched[v])
    BY <1>0, <2>2, <2>3
  <2>5. \A q \in Requests : q # v => sched'[q] = sched[q]
    BY <1>0, <2>3
  <2> QED
    BY <2>2, <2>4, <2>5, Charge
<1>4. CASE ScheduleWaiting
  <2>1. NextWaiting \in Requests /\ status[NextWaiting] # "running"
    BY <1>4, WaitingHead DEF ScheduleWaiting, IndInv, Locals
  <2>2. sched[NextWaiting] = 0
    BY <1>0, <2>1 DEF IndInv, Batched
  <2>3. sched' = [sched EXCEPT ![NextWaiting] = attempt] /\ budget' = budget - attempt
    BY <1>4 DEF ScheduleWaiting
  <2> HIDE DEF NextWaiting
  <2>4. budget' = budget - (sched'[NextWaiting] - sched[NextWaiting])
    BY <1>0, <2>1, <2>2, <2>3
  <2>5. \A q \in Requests : q # NextWaiting => sched'[q] = sched[q]
    BY <1>0, <2>3
  <2> QED
    BY <2>1, <2>4, <2>5, Charge
<1>5. CASE EndSchedule
  <2>1. budget' = MaxBatchTokens /\ sched' = [q \in Requests |-> 0]
    BY <1>5 DEF EndSchedule, ResetStep
  <2>2. Total(sched') = 0
    <3>1. sched' \in [Requests -> Int] /\ \A q \in Requests : sched'[q] = 0
      BY <2>1
    <3>2. IsFiniteSet(Requests)
      BY RequestsAssumption
    <3> QED
      BY <3>1, <3>2, TotalZero DEF Total
  <2> QED
    BY <2>1, <2>2, ConfigAssumption DEF TokensExact
<1>6. CASE UpdateFromOutput
  BY <1>1, <1>6 DEF UpdateFromOutput, DrainBatches, IgnoreOutput, AppendOutput, StopOutput,
                    EndOutput, step
<1>7. CASE Schedule
  BY <1>1, <1>2, <1>3, <1>4, <1>5, <1>7
     DEF Schedule, BeginSchedule, AdmitOverflow, ReorderRunning, LeaveRunningLoop, PickRunning,
         ShrinkRunning, LeaveWaitingLoop, SkipWaiting, PickWaiting, ShrinkWaiting,
         BlockedWaiting, step
<1>8. ASSUME NEW r \in Requests, AddRequest(r) \/ FinishRequest(r) \/ GrammarReady(r)
      PROVE TokensExact'
  BY <1>1, <1>8 DEF AddRequest, FinishRequest, GrammarReady, step
<1> QED
  BY <1>1, <1>6, <1>7, <1>8 DEF Next, EngineStep, Clients, Idle, vars, step

\* Outside the loops nothing is scheduled and the cursor is at the start.
LEMMA CursorAtRest ==
    ASSUME IndInv', idx' = 0, pc' \in {"input", "output", "admit", "running"},
           \A q \in Requests : sched'[q] = 0
    PROVE  CursorSound'
<1>1. running' \in Seq(Requests)
  BY DEF IndInv, TypeOK
<1>2. Len(running') \in Nat /\ \A i \in DOMAIN running' : running'[i] \in Requests
  BY <1>1
<1> QED
  BY <1>2 DEF CursorSound

\* The victim leaves the running list; the cursor stays on the same request.
LEMMA CursorPreempt ==
    ASSUME IndInv, IndInv', CursorSound, PreemptRunning
    PROVE  CursorSound'
<1>1. PICK i \in DOMAIN running : /\ running' = RemoveAt(running, i)
                                  /\ Unschedule(i)
                                  /\ pc' \in {"commit", "alloc"}
  BY DEF PreemptRunning, Preempt
<1>2. /\ running \in Seq(Requests) /\ idx \in Nat /\ idx < Len(running)
      /\ sched \in [Requests -> Nat]
  BY DEF PreemptRunning, IndInv, TypeOK, Locals
<1>3. i \in 1..Len(running) /\ Len(running) \in Nat
  BY <1>1, <1>2
<1>4. /\ running' \in Seq(Requests) /\ Len(running') = Len(running) - 1
      /\ \A k \in 1..(Len(running) - 1) :
            running'[k] = IF k < i THEN running[k] ELSE running[k + 1]
  BY <1>1, <1>2, <1>3, RemoveAtProperties
<1>5. /\ idx' = IF i - 1 < idx THEN idx - 1 ELSE idx
      /\ sched' = [sched EXCEPT ![running[i]] = 0]
  BY <1>1 DEF Unschedule
<1>6. idx' <= Len(running')
  BY <1>2, <1>3, <1>4, <1>5
<1>7. ASSUME NEW k \in 1..(Len(running) - 1), k > idx'
      PROVE  sched'[running'[k]] = 0
  <2>1. PICK m \in 1..Len(running) : running'[k] = running[m] /\ m > idx
    <3>1. CASE k < i
      <4>1. k \in 1..Len(running) /\ running'[k] = running[k]
        BY <1>3, <1>4, <3>1
      <4>2. k > idx
        BY <1>2, <1>3, <1>5, <1>7, <3>1
      <4> QED
        BY <4>1, <4>2
    <3>2. CASE ~(k < i)
      <4>1. k + 1 \in 1..Len(running) /\ running'[k] = running[k + 1]
        BY <1>3, <1>4, <3>2
      <4>2. k + 1 > idx
        BY <1>2, <1>3, <1>5, <1>7, <3>2
      <4> QED
        BY <4>1, <4>2
    <3> QED
      BY <3>1, <3>2
  <2>2. sched[running[m]] = 0 /\ running[m] \in Requests
    BY <1>2, <2>1 DEF CursorSound
  <2> QED
    BY <1>2, <1>5, <2>1, <2>2
<1>8. DOMAIN running' = 1..(Len(running) - 1)
  BY <1>4
<1> QED
  BY <1>1, <1>6, <1>7, <1>8 DEF CursorSound

\* The cursor over all steps.
LEMMA CursorStep ==
    ASSUME IndInv, IndInv', CursorSound, [Next]_vars
    PROVE  CursorSound'
<1>0. /\ running \in Seq(Requests) /\ IsInjective(running) /\ Len(running) \in Nat
      /\ idx \in Nat /\ budget \in Nat /\ sched \in [Requests -> Nat]
      /\ pc \in {"input", "output", "admit"} => \A q \in Requests : sched[q] = 0
  BY LenProperties DEF IndInv, TypeOK, Locals, Separate
<1>1. CASE UNCHANGED <<running, idx, sched, budget, pc>>
  BY <1>1 DEF CursorSound
<1>2. ASSUME NEW r \in Requests, FinishRequest(r) PROVE CursorSound'
  BY <1>0, <1>2, CursorAtRest DEF FinishRequest, step, CursorSound
<1>3. CASE StopOutput
  BY <1>0, <1>3, CursorAtRest DEF StopOutput, step, CursorSound
<1>4. ASSUME NEW d, BeginSchedule(d) PROVE CursorSound'
  BY <1>0, <1>4, CursorAtRest DEF BeginSchedule, step, CursorSound
<1>5. CASE DrainBatches \/ EndOutput
  BY <1>0, <1>5, CursorAtRest DEF DrainBatches, EndOutput, step, CursorSound
<1>6. CASE ReorderRunning
  BY <1>0, <1>6, CursorAtRest DEF ReorderRunning, step, CursorSound
<1>7. CASE EndSchedule
  <2>1. idx' = 0 /\ sched' = [q \in Requests |-> 0] /\ pc' \in {"input", "output"}
    BY <1>7 DEF EndSchedule, ResetStep
  <2> QED
    BY <2>1, CursorAtRest
<1>8. CASE LeaveRunningLoop
  <2>1. UNCHANGED <<running, idx, sched, budget>> /\ pc' \in {"waiting", "commit"}
    BY <1>8 DEF LeaveRunningLoop, queues, step
  <2>2. budget = 0 \/ idx = Len(running)
    BY <1>0, <1>8 DEF LeaveRunningLoop, CursorSound
  <2> QED
    BY <2>1, <2>2 DEF CursorSound
<1>9. CASE PickRunning
  <2>1. /\ UNCHANGED <<running, sched, budget>> /\ pc' \in {"running", "alloc"}
        /\ idx < Len(running) /\ idx' \in {idx, idx + 1}
    BY <1>9 DEF PickRunning, queues
  <2> QED
    BY <1>0, <2>1 DEF CursorSound
<1>10. CASE ScheduleRunning
  <2>1. /\ UNCHANGED running /\ pc' = "running" /\ idx' = idx + 1 /\ idx < Len(running)
        /\ sched' = [sched EXCEPT ![running[idx + 1]] = attempt]
    BY <1>10 DEF ScheduleRunning, queues, Current, IndInv, Locals
  <2>2. ASSUME NEW i \in DOMAIN running, i > idx + 1 PROVE sched'[running[i]] = 0
    <3>1. i \in 1..Len(running) /\ i > idx /\ idx + 1 \in DOMAIN running /\ i # idx + 1
      BY <1>0, <2>1, <2>2
    <3>2. running[i] # running[idx + 1] /\ running[i] \in Requests
      BY <1>0, <2>2, <3>1 DEF IsInjective
    <3>3. sched[running[i]] = 0
      BY <3>1 DEF CursorSound
    <3> QED
      BY <1>0, <2>1, <3>2, <3>3
  <2> QED
    BY <1>0, <2>1, <2>2 DEF CursorSound
<1>11. CASE PreemptRunning
  BY <1>11, CursorPreempt
<1>12. CASE LeaveWaitingLoop \/ BlockedWaiting
  <2>1. UNCHANGED <<running, idx, sched, budget>> /\ pc' = "commit"
    BY <1>12 DEF LeaveWaitingLoop, BlockedWaiting, queues, step
  <2> QED
    BY <2>1 DEF CursorSound
<1>13. CASE PickWaiting
  <2>1. UNCHANGED <<running, idx, sched, budget>> /\ pc' = "walloc" /\ pc = "waiting" /\ budget > 0
    BY <1>13 DEF PickWaiting, AtWaitingHead, queues
  <2> QED
    BY <1>0, <2>1 DEF CursorSound
<1>14. CASE ScheduleWaiting
  <2>1. /\ running' = Append(running, NextWaiting) /\ idx' = idx + 1 /\ pc' = "waiting"
        /\ idx = Len(running)
    BY <1>14 DEF ScheduleWaiting, CursorSound
  <2>2. NextWaiting \in Requests
    BY <1>14, WaitingHead DEF ScheduleWaiting, IndInv, Locals
  <2>3. Len(running') = Len(running) + 1 /\ DOMAIN running' = 1..(Len(running) + 1)
    BY <1>0, <2>1, <2>2
  <2> QED
    BY <1>0, <2>1, <2>3 DEF CursorSound
<1>15. CASE AdmitOverflow \/ ShrinkRunning \/ SkipWaiting \/ ShrinkWaiting
            \/ IgnoreOutput \/ AppendOutput
  BY <1>1, <1>15 DEF AdmitOverflow, ShrinkRunning, SkipWaiting, ShrinkWaiting, IgnoreOutput,
                     AppendOutput, queues, step
<1>16. ASSUME NEW r \in Requests, AddRequest(r) \/ GrammarReady(r) PROVE CursorSound'
  BY <1>1, <1>16 DEF AddRequest, GrammarReady, queues, step
<1>17. CASE UNCHANGED vars
  BY <1>1, <1>17 DEF vars, queues, step
<1> QED
  BY <1>2, <1>3, <1>4, <1>5, <1>6, <1>7, <1>8, <1>9, <1>10, <1>11, <1>12, <1>13, <1>14,
     <1>15, <1>16, <1>17 DEF Next, EngineStep, Schedule, UpdateFromOutput, Clients, Idle

\* Both accounts start out balanced.
LEMMA InitAccounts == Init => KVConservation /\ TokensExact /\ CursorSound
<1> SUFFICES ASSUME Init PROVE KVConservation /\ TokensExact /\ CursorSound
  OBVIOUS
<1>1. IsFiniteSet(Requests)
  BY RequestsAssumption
<1>2. /\ held \in [Requests -> Int] /\ \A q \in Requests : held[q] = 0
      /\ sched \in [Requests -> Int] /\ \A q \in Requests : sched[q] = 0
  BY DEF Init
<1>3. Total(held) = 0 /\ Total(sched) = 0
  BY <1>1, <1>2, TotalZero DEF Total
<1>4. KVConservation /\ TokensExact
  BY <1>3, ConfigAssumption DEF Init, KVConservation, TokensExact, NumBlocks
<1>5. CursorSound
  BY DEF Init, CursorSound
<1> QED
  BY <1>4, <1>5

\* Blocks are neither leaked nor handed out twice, and the token budget of a step
\* is neither overdrawn nor lost, for every load and every cache and batch size.
THEOREM AccountsCorrect == Spec => []AccountsExact
<1> DEFINE Inv == IndInv /\ KVConservation /\ TokensExact /\ CursorSound
<1>1. Init => Inv
  BY InitInv, InitAccounts
<1>2. Inv /\ [Next]_vars => Inv'
  BY StepInv, BlocksStep, TokensStep, CursorStep
<1>3. Inv => AccountsExact
  <2> SUFFICES ASSUME Inv PROVE BudgetExact
    BY DEF AccountsExact
  <2>1. Scheduled \subseteq ToSet(running)
    BY DEF IndInv, Batched, Separate, OnRunning, Scheduled
  <2> QED
    BY <2>1 DEF IndInv, Locals, CursorSound, TokensExact, BudgetExact
<1> QED
  BY <1>1, <1>2, <1>3, PTL DEF Spec

-----------------------------------------------------------------------------
(* What the workers keep. *)

\* The workers keep the requests that run or have been preempted, and those whose
\* end they have not been told; a request that starts in this step is about to be
\* sent to them.
WorkersSound ==
    /\ \A r \in finished : status[r] = "finished"
    /\ \A r \in worker : status[r] \in {"running", "preempted"} \/ r \in finished
    /\ \A r \in Requests : status[r] = "preempted" => r \in worker
    /\ \A r \in Requests : status[r] = "running" => r \in worker \cup newReqs
    /\ \A r \in newReqs : status[r] = "running"
    /\ pc \notin {"waiting", "walloc", "commit"} => newReqs = {}
    /\ pc = "walloc" => status[NextWaiting] \in {"waiting", "preempted"}

\* A request that ends is reported to the workers with the next batch.
LEMMA WorkersFreed ==
    ASSUME IndInv, WorkersSound, NEW r \in Requests, FreeRequest(r),
           pc \in {"input", "output"}, UNCHANGED <<pc, step, worker>>
    PROVE  WorkersSound'
<1>1. /\ status' = [status EXCEPT ![r] = "finished"] /\ finished' = finished \cup {r}
      /\ status \in [Requests -> Live \cup {"new", "finished"}]
      /\ finished \subseteq Requests /\ worker \subseteq Requests
  BY DEF FreeRequest, IndInv, TypeOK
<1>2. newReqs = {} /\ newReqs' = {}
  BY DEF WorkersSound, step
<1> QED
  BY <1>1, <1>2 DEF WorkersSound

\* What the workers keep, over all steps.
LEMMA WorkersStep ==
    ASSUME IndInv, IndInv', WorkersSound, [Next]_vars
    PROVE  WorkersSound'
<1>0. /\ status \in [Requests -> Live \cup {"new", "finished"}]
      /\ finished \subseteq Requests /\ worker \subseteq Requests /\ newReqs \subseteq Requests
  BY DEF IndInv, TypeOK
<1>1. ASSUME UNCHANGED <<status, finished, worker, newReqs>>, pc' # "walloc",
             pc' \in {"waiting", "commit"} \/ newReqs = {}
      PROVE  WorkersSound'
  BY <1>1 DEF WorkersSound
<1>2. ASSUME NEW r \in Requests, AddRequest(r) PROVE WorkersSound'
  <2>1. /\ UNCHANGED <<pc, finished, worker, newReqs>> /\ status[r] = "new" /\ pc = "input"
        /\ \A q \in Requests : q # r => status'[q] = status[q]
        /\ status'[r] \in {"waiting", "fsm"}
    BY <1>0, <1>2 DEF AddRequest, step, engine
  <2> QED
    BY <1>0, <2>1 DEF WorkersSound
<1>3. ASSUME NEW r \in Requests, FinishRequest(r) PROVE WorkersSound'
  BY <1>3, WorkersFreed DEF FinishRequest
<1>4. CASE StopOutput
  <2>1. NextOutput \in Requests
    BY <1>4, NextOutputFacts DEF StopOutput
  <2> QED
    BY <1>4, <2>1, WorkersFreed DEF StopOutput
<1>5. ASSUME NEW r \in Requests, GrammarReady(r) PROVE WorkersSound'
  BY <1>5 DEF GrammarReady, WorkersSound, NextWaiting, queues, reqs, step, engine
<1>6. ASSUME NEW d, BeginSchedule(d) PROVE WorkersSound'
  BY <1>1, <1>6 DEF BeginSchedule, WorkersSound, step, engine
<1>7. CASE AdmitOverflow \/ ReorderRunning
  BY <1>1, <1>7 DEF AdmitOverflow, ReorderRunning, WorkersSound, reqs, step, engine
<1>8. CASE LeaveRunningLoop \/ PickRunning \/ ShrinkRunning
  BY <1>1, <1>8 DEF LeaveRunningLoop, PickRunning, ShrinkRunning, WorkersSound, reqs, step,
                    engine
<1>9. CASE ScheduleRunning
  BY <1>1, <1>9 DEF ScheduleRunning, WorkersSound, engine
<1>10. CASE PreemptRunning
  <2>1. PICK i \in DOMAIN running : status' = [status EXCEPT ![running[i]] = "preempted"]
    BY <1>10 DEF PreemptRunning, Preempt
  <2>2. /\ UNCHANGED <<finished, worker, newReqs>> /\ pc = "alloc"
        /\ pc' \in {"commit", "alloc"}
    BY <1>10 DEF PreemptRunning, engine
  <2>3. running[i] \in Requests /\ status[running[i]] = "running"
    <3>1. running[i] \in ToSet(running)
      BY <2>1 DEF ToSet
    <3> QED
      BY <3>1 DEF IndInv, Separate, OnRunning
  <2>4. newReqs = {}
    BY <2>2 DEF WorkersSound
  <2> QED
    BY <1>0, <2>1, <2>2, <2>3, <2>4 DEF WorkersSound
<1>11. CASE LeaveWaitingLoop \/ SkipWaiting \/ BlockedWaiting
  <2>1. UNCHANGED <<status, finished, worker, newReqs>> /\ pc' \in {"waiting", "commit"}
    BY <1>11 DEF LeaveWaitingLoop, SkipWaiting, BlockedWaiting, AtWaitingHead, reqs, step, engine
  <2> QED
    BY <1>1, <2>1
<1>12. CASE PickWaiting
  <2>1. NextWaiting \in Requests /\ status[NextWaiting] \in {"waiting", "fsm", "preempted"}
    BY <1>12, WaitingHead DEF PickWaiting, AtWaitingHead, Live
  <2>2. /\ UNCHANGED <<finished, worker, newReqs, waiting>> /\ pc' = "walloc" /\ pc = "waiting"
        /\ status' = [status EXCEPT ![NextWaiting] =
                         IF status[NextWaiting] = "fsm" THEN "waiting" ELSE status[NextWaiting]]
    BY <1>12 DEF PickWaiting, AtWaitingHead, queues, engine
  <2>3. NextWaiting' = NextWaiting
    BY <2>2 DEF NextWaiting
  <2> HIDE DEF NextWaiting
  <2>4. /\ \A q \in Requests : q # NextWaiting => status'[q] = status[q]
        /\ status'[NextWaiting] \in {"waiting", "preempted"}
        /\ status'[NextWaiting] = "preempted" => status[NextWaiting] = "preempted"
        /\ status[NextWaiting] = "preempted" => status'[NextWaiting] = "preempted"
    BY <1>0, <2>1, <2>2
  <2> QED
    BY <1>0, <2>1, <2>2, <2>3, <2>4 DEF WorkersSound
<1>13. CASE ShrinkWaiting
  BY <1>13 DEF ShrinkWaiting, WorkersSound, NextWaiting, queues, reqs, engine
<1>14. CASE ScheduleWaiting
  <2>1. NextWaiting \in Requests /\ status[NextWaiting] \in {"waiting", "preempted"}
    BY <1>14, WaitingHead DEF ScheduleWaiting, WorkersSound, IndInv, Locals
  <2>2. /\ UNCHANGED <<finished, worker>> /\ pc' = "waiting"
        /\ newReqs' = IF status[NextWaiting] = "waiting" THEN newReqs \cup {NextWaiting}
                      ELSE newReqs
        /\ status' = [status EXCEPT ![NextWaiting] = "running"]
    BY <1>14 DEF ScheduleWaiting, engine
  <2> HIDE DEF NextWaiting
  <2> QED
    BY <1>0, <2>1, <2>2 DEF WorkersSound
<1>15. CASE EndSchedule
  <2>1. /\ worker' = (worker \ finished) \cup newReqs /\ finished' = {} /\ newReqs' = {}
        /\ UNCHANGED status /\ pc' \in {"output", "input"}
    BY <1>15 DEF EndSchedule, ResetStep, WorkerUpdate
  <2> QED
    BY <1>0, <2>1 DEF WorkersSound
<1>16. CASE DrainBatches \/ IgnoreOutput \/ AppendOutput \/ EndOutput
  BY <1>1, <1>16 DEF DrainBatches, IgnoreOutput, AppendOutput, EndOutput, WorkersSound, reqs,
                     step, engine
<1>17. CASE UNCHANGED vars
  BY <1>17 DEF vars, WorkersSound, NextWaiting, queues, reqs, step, engine
<1> QED
  BY <1>2, <1>3, <1>4, <1>5, <1>6, <1>7, <1>8, <1>9, <1>10, <1>11, <1>12, <1>13, <1>14,
     <1>15, <1>16, <1>17 DEF Next, EngineStep, Schedule, UpdateFromOutput, Clients, Idle

\* A running or resumed request is never sent to a worker that does not know it,
\* and the workers of an idle engine keep no state, in every deployment.
THEOREM WorkersCorrect == Spec => []WorkerKnowsScheduled
<1> DEFINE Inv == IndInv /\ WorkersSound
<1>1. Init => Inv
  BY InitInv DEF Init, WorkersSound
<1>2. Inv /\ [Next]_vars => Inv'
  BY StepInv, WorkersStep
<1>3. Inv => WorkerKnowsScheduled
  <2> SUFFICES ASSUME Inv PROVE WorkerKnowsScheduled
    OBVIOUS
  <2>1. Scheduled \subseteq WorkerUpdate
    BY DEF IndInv, Batched, Scheduled, WorkersSound, WorkerUpdate
  <2>2. ASSUME ~HasRequests, pc = "input" PROVE worker = {}
    <3>1. /\ running \in Seq(Requests) /\ waiting \in Seq(Requests) /\ overflow \in Seq(Requests)
          /\ skipped = <<>> /\ worker \subseteq Requests
      BY <2>2 DEF IndInv, TypeOK, Locals
    <3>2. Len(waiting) + Len(running) + Len(overflow) = 0 /\ finished = {}
      BY <2>2, <3>1 DEF HasRequests, HasUnfinished
    <3>3. Len(waiting) = 0 /\ Len(running) = 0 /\ Len(overflow) = 0
      BY <3>1, <3>2
    <3>4. ToSet(waiting) = {} /\ ToSet(running) = {} /\ ToSet(overflow) = {} /\ ToSet(skipped) = {}
      BY <3>1, <3>3 DEF ToSet
    <3>5. \A r \in Requests : status[r] \notin {"running", "preempted"}
      BY <3>4 DEF IndInv, Separate, OnRunning, OffRunning, Live
    <3> QED
      BY <3>1, <3>2, <3>5 DEF WorkersSound
  <2> QED
    BY <2>1, <2>2 DEF WorkerKnowsScheduled, WorkersSound
<1> QED
  BY <1>1, <1>2, <1>3, PTL DEF Spec

-----------------------------------------------------------------------------
(* The order of the waiting queue. *)

\* The waiting queue stays in level order over all steps.
LEMMA OrderStep ==
    ASSUME IndInv, InOrder(waiting, qlvl), [Next]_vars
    PROVE  InOrder(waiting, qlvl)'
<1>0. /\ waiting \in Seq(Requests) /\ skipped \in Seq(Requests) /\ overflow \in Seq(Requests)
      /\ qlvl \in [Requests -> 0..(NumLevels - 1)]
      /\ ToSet(waiting) \subseteq Requests
  BY DEF IndInv, TypeOK, Separate, OffRunning
<1>1. ASSUME UNCHANGED <<waiting, qlvl>> PROVE InOrder(waiting, qlvl)'
  BY <1>1
<1>2. ASSUME NEW r \in Requests, r \notin ToSet(waiting),
             qlvl' = [qlvl EXCEPT ![r] = BucketLevel(PromptLen[r])],
             waiting' = InsertByLevel(waiting, qlvl', r)
      PROVE  InOrder(waiting, qlvl)'
  <2>1. qlvl' \in [Requests -> Int]
    BY <1>0, <1>2, BucketType
  <2>2. \A e \in ToSet(waiting) : qlvl'[e] = qlvl[e]
    BY <1>0, <1>2
  <2>3. InOrder(waiting, qlvl')
    BY <2>2 DEF InOrder, ToSet
  <2> QED
    BY <1>0, <1>2, <2>1, <2>3, InsertByLevelInOrder
<1>3. ASSUME NEW front \in Seq(Requests), ToSet(front) \cap ToSet(waiting) = {},
             qlvl' = FrontLevels(ToSet(front)), waiting' = front \o waiting
      PROVE  InOrder(waiting, qlvl)'
  <2>1. /\ \A e \in ToSet(waiting) : qlvl'[e] = qlvl[e] /\ qlvl[e] \in Nat
        /\ \A e \in ToSet(front) : qlvl'[e] = 0
    <3>1. ToSet(front) \subseteq Requests
      BY DEF ToSet
    <3> QED
      BY <1>0, <1>3, <3>1 DEF FrontLevels
  <2>2. InOrder(waiting, qlvl') /\ InOrder(front, qlvl')
    <3>1. InOrder(waiting, qlvl')
      BY <2>1 DEF InOrder, ToSet
    <3>2. InOrder(front, qlvl')
      BY <2>1, FlatInOrder
    <3> QED
      BY <3>1, <3>2
  <2>3. \A a \in ToSet(front), b \in ToSet(waiting) : qlvl'[a] <= qlvl'[b]
    BY <2>1
  <2> QED
    BY <1>0, <1>3, <2>2, <2>3, ConcatInOrder
<1>4. ASSUME NEW r \in Requests, AddRequest(r) PROVE InOrder(waiting, qlvl)'
  <2>1. r \notin ToSet(waiting)
    BY <1>4 DEF AddRequest, IndInv, Separate, OffRunning, Live
  <2> QED
    BY <1>1, <1>2, <1>4, <2>1 DEF AddRequest
<1>5. ASSUME NEW r, Dequeue(r), UNCHANGED qlvl PROVE InOrder(waiting, qlvl)'
  BY <1>0, <1>1, <1>5, WithoutInOrder DEF Dequeue
<1>6. ASSUME NEW r \in Requests, FinishRequest(r) PROVE InOrder(waiting, qlvl)'
  BY <1>5, <1>6 DEF FinishRequest
<1>7. CASE AdmitOverflow
  <2>1. Head(overflow) \in ToSet(overflow)
    BY <1>0, <1>7, TailElements DEF AdmitOverflow, IndInv, Separate
  <2>2. Head(overflow) \in Requests /\ Head(overflow) \notin ToSet(waiting)
    BY <2>1 DEF IndInv, Separate, OffRunning
  <2> QED
    BY <1>2, <1>7, <2>2 DEF AdmitOverflow
<1>8. CASE PreemptRunning
  <2>1. PICK i \in DOMAIN running : Preempt(i)
    BY <1>8 DEF PreemptRunning
  <2>2. running[i] \in Requests /\ running[i] \notin ToSet(waiting)
    <3>1. running[i] \in ToSet(running)
      BY DEF ToSet
    <3> QED
      BY <3>1 DEF IndInv, Separate, OnRunning, OffRunning
  <2>3. <<running[i]>> \in Seq(Requests) /\ ToSet(<<running[i]>>) = {running[i]}
    BY <2>2, SingletonElements
  <2>4. qlvl' = FrontLevels({running[i]}) /\ waiting' = <<running[i]>> \o waiting
    BY <2>1 DEF Preempt
  <2> QED
    BY <1>3, <2>2, <2>3, <2>4
<1>9. CASE SkipWaiting \/ ScheduleWaiting
  <2>1. waiting' = Tail(waiting) /\ UNCHANGED qlvl /\ waiting # <<>>
    BY <1>9 DEF SkipWaiting, ScheduleWaiting, AtWaitingHead, IndInv, Locals
  <2> QED
    BY <1>0, <2>1, TailInOrder
<1>10. CASE EndSchedule
  <2>1. /\ Reverse(skipped) \in Seq(Requests) /\ ToSet(Reverse(skipped)) = ToSet(skipped)
    BY <1>0, ReverseProperties
  <2>2. ToSet(skipped) \cap ToSet(waiting) = {}
    BY DEF IndInv, Separate
  <2>3. waiting' = Reverse(skipped) \o waiting /\ qlvl' = FrontLevels(ToSet(skipped))
    BY <1>10 DEF EndSchedule
  <2> QED
    BY <1>3, <2>1, <2>2, <2>3
<1>11. CASE StopOutput
  BY <1>0, <1>1, <1>11, WithoutInOrder DEF StopOutput
<1>12. ASSUME NEW r \in Requests, GrammarReady(r) PROVE InOrder(waiting, qlvl)'
  BY <1>1, <1>12 DEF GrammarReady, queues
<1>13. ASSUME NEW d, BeginSchedule(d) PROVE InOrder(waiting, qlvl)'
  BY <1>1, <1>13 DEF BeginSchedule, queues
<1>14. CASE ReorderRunning \/ LeaveRunningLoop \/ PickRunning \/ ShrinkRunning \/ ScheduleRunning
  BY <1>1, <1>14 DEF ReorderRunning, LeaveRunningLoop, PickRunning, ShrinkRunning,
                     ScheduleRunning, queues
<1>15. CASE LeaveWaitingLoop \/ PickWaiting \/ ShrinkWaiting \/ BlockedWaiting
  BY <1>1, <1>15 DEF LeaveWaitingLoop, PickWaiting, ShrinkWaiting, BlockedWaiting, queues
<1>16. CASE DrainBatches \/ IgnoreOutput \/ AppendOutput \/ EndOutput
  BY <1>1, <1>16 DEF DrainBatches, IgnoreOutput, AppendOutput, EndOutput, queues
<1>17. CASE UNCHANGED vars
  BY <1>1, <1>17 DEF vars, queues
<1> QED
  BY <1>4, <1>6, <1>7, <1>8, <1>9, <1>10, <1>11, <1>12, <1>13, <1>14, <1>15, <1>16, <1>17
     DEF Next, EngineStep, Schedule, UpdateFromOutput, Clients, Idle

\* The waiting queue is ordered by level whatever is admitted, preempted, set aside
\* or aborted, and for any levels: insertion never puts a request behind a worse one.
THEOREM OrderCorrect == Spec => []WaitingSorted
<1> DEFINE Inv == IndInv /\ InOrder(waiting, qlvl)
<1>1. Init => Inv
  BY InitInv DEF Init, InOrder
<1>2. Inv /\ [Next]_vars => Inv'
  BY StepInv, OrderStep
<1>3. Inv => WaitingSorted
  BY DEF InOrder, WaitingSorted
<1> QED
  BY <1>1, <1>2, <1>3, PTL DEF Spec
=============================================================================
