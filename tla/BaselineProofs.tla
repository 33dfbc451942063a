--------------------------- MODULE BaselineProofs ---------------------------
(***************************************************************************)
(* Proofs about the policies that MARS is compared with: the Concur        *)
(* admission controller, for any number of tasks and workers and any       *)
(* window parameters, and the LightLLM policy of the scheduler, for any    *)
(* requests, pool and batch sizes.                                         *)
(***************************************************************************)
EXTENDS ConcurAdmission, LightLLM, CollectionLemmas

\* The backlog holds tasks that have arrived and were never submitted, once
\* each.  Without this, admitting its head could add a task a second time.
BacklogFresh ==
    /\ IsInjective(backlog)
    /\ ToSet(backlog) \cap futures = {}
    /\ ToSet(backlog) \cup futures \subseteq 1..emitted

ControllerInv == ConcurTypeOK /\ OneStory /\ BacklogFresh /\ AgentsFitPool

-----------------------------------------------------------------------------
\* Scaling by a fraction of at most one does not increase a number.
LEMMA ScaledDown ==
    ASSUME NEW x \in Nat, NEW n \in Nat, NEW d \in Nat \ {0}, n <= d
    PROVE  (x * n) \div d \in Nat /\ (x * n) \div d <= x
  OBVIOUS

\* The largest window is at least one agent and at most one per worker.
LEMMA WindowMaxType == WindowMax \in Nat \ {0} /\ WindowMax <= Workers
  BY ConcurAssumption DEF WindowMax, Greater, Lesser

\* The AIMD law of _next_concur_window stays between one and the maximum.
LEMMA WindowLaw ==
    ASSUME window \in 1..WindowMax
    PROVE  NextWindows \subseteq 1..WindowMax
<1>1. WindowMax \in Nat \ {0}
  BY WindowMaxType
<1>2. Greater(1, Lesser(window, WindowMax)) = window
  BY <1>1 DEF Greater, Lesser
<1>3. Grow(window) \in 1..WindowMax
  BY <1>1, <1>2, ConcurAssumption DEF Grow, Lesser
<1>4. Shrink(window) \in 1..WindowMax
  <2>1. /\ (window * DecreaseNum) \div DecreaseDen \in Nat
        /\ (window * DecreaseNum) \div DecreaseDen <= window
    BY <1>1, ScaledDown, ConcurAssumption
  <2> QED
    BY <1>1, <1>2, <2>1 DEF Shrink, Greater
<1> QED
  BY <1>3, <1>4 DEF NextWindows

\* Sets of tasks are finite.
LEMMA TasksFinite ==
    ASSUME NEW A, A \subseteq Tasks
    PROVE  IsFiniteSet(A) /\ Cardinality(A) \in Nat
<1>1. IsFiniteSet(Tasks)
  BY FS_Interval, ConcurAssumption DEF Tasks
<1> QED
  BY <1>1, FS_Subset, FS_CardinalityType

-----------------------------------------------------------------------------
\* The invariant holds when the driver starts.
LEMMA ConcurInitInv == ConcurInit => ControllerInv
<1> SUFFICES ASSUME ConcurInit PROVE ControllerInv
  OBVIOUS
<1>1. ConcurTypeOK
  <2>1. InitialWindow \in 1..WindowMax
    BY WindowMaxType, ConcurAssumption DEF InitialWindow, Greater, Lesser
  <2> QED
    BY <2>1, ConcurAssumption DEF ConcurInit, ConcurTypeOK, AgentStates
<1>2. OneStory /\ BacklogFresh
  BY DEF ConcurInit, OneStory, BacklogFresh, ToSet, IsInjective
<1>3. AgentsFitPool
  <2>1. active \cup paused = {}
    BY DEF ConcurInit
  <2> QED
    BY <2>1, FS_EmptySet, WindowMaxType DEF AgentsFitPool
<1> QED
  BY <1>1, <1>2, <1>3 DEF ControllerInv

-----------------------------------------------------------------------------
\* A finished task leaves the sets, the lists, the gates and the futures.
LEMMA CollectInv ==
    ASSUME ControllerInv, NEW t \in Tasks, Collect(t)
    PROVE  ControllerInv'
<1> USE DEF ControllerInv
<1>1. ConcurTypeOK'
  <2>1. Without(activeOrder, t) \in Seq(Tasks) /\ Without(pausedOrder, t) \in Seq(Tasks)
    BY WithoutProperties DEF ConcurTypeOK
  <2> QED
    BY <2>1 DEF ConcurTypeOK, Collect, Complete, driver, agents
<1>2. OneStory'
  <2>1. /\ ToSet(Without(activeOrder, t)) = active \ {t}
        /\ IsInjective(Without(activeOrder, t))
    BY WithoutElements DEF ConcurTypeOK, OneStory
  <2>2. /\ ToSet(Without(pausedOrder, t)) = paused \ {t}
        /\ IsInjective(Without(pausedOrder, t))
    BY WithoutElements DEF ConcurTypeOK, OneStory
  <2> QED
    BY <2>1, <2>2 DEF OneStory, Collect, Complete
<1>3. BacklogFresh'
  BY DEF BacklogFresh, Collect, Complete, driver
<1>4. AgentsFitPool'
  <2>1. (active' \cup paused') \subseteq (active \cup paused)
    BY DEF Collect, Complete
  <2>2. IsFiniteSet(active \cup paused)
    BY TasksFinite DEF ConcurTypeOK
  <2>3. Cardinality(active' \cup paused') <= Cardinality(active \cup paused)
    BY <2>1, <2>2, FS_Subset
  <2>4. Cardinality(active' \cup paused') \in Nat /\ Cardinality(active \cup paused) \in Nat
    BY <2>1, TasksFinite DEF ConcurTypeOK
  <2> QED
    BY <2>3, <2>4, WindowMaxType DEF AgentsFitPool
<1> QED
  BY <1>1, <1>2, <1>3, <1>4

\* A task that arrives gets a number the backlog has not seen.
LEMMA EmitInv ==
    ASSUME ControllerInv, Emit
    PROVE  ControllerInv'
<1> USE DEF ControllerInv
<1>1. emitted \in Nat /\ emitted' = emitted + 1 /\ emitted + 1 \in Tasks
  BY ConcurAssumption DEF ConcurTypeOK, Emit, Tasks
<1>2. ConcurTypeOK'
  BY <1>1, ConcurAssumption DEF ConcurTypeOK, Emit, concur, agents
<1>3. OneStory'
  BY DEF OneStory, Emit, concur
<1>4. BacklogFresh'
  <2>1. emitted + 1 \notin ToSet(backlog) \cup futures
    BY <1>1 DEF BacklogFresh
  <2>2. /\ ToSet(backlog') = ToSet(backlog) \cup {emitted + 1}
        /\ IsInjective(backlog')
    BY <1>1, <2>1, AppendElements DEF ConcurTypeOK, BacklogFresh, Emit
  <2> QED
    BY <1>1, <2>1, <2>2 DEF BacklogFresh, Emit
<1>5. AgentsFitPool'
  BY DEF AgentsFitPool, Emit, concur
<1> QED
  BY <1>2, <1>3, <1>4, <1>5

\* Pausing moves an agent from one set to the other and closes its gate.
LEMMA PauseInv ==
    ASSUME ControllerInv, Pause
    PROVE  ControllerInv'
<1> USE DEF ControllerInv
<1> DEFINE t == activeOrder[PauseIndex]
<1>1. PauseIndex \in 1..Len(activeOrder)
  BY DEF ConcurTypeOK, Pause, MustPause, PauseIndex
<1>2. t \in active /\ t \in Tasks
  BY <1>1 DEF ConcurTypeOK, OneStory, ToSet
<1>3. /\ activeOrder' = RemoveAt(activeOrder, PauseIndex)
      /\ active' = active \ {t}
      /\ paused' = paused \cup {t}
      /\ pausedOrder' = Append(pausedOrder, t)
      /\ gates' = gates \ {t}
      /\ UNCHANGED <<stage, driver, window, futures, agents>>
  BY <1>2 DEF Pause
<1> HIDE DEF t
<1>4. ConcurTypeOK'
  <2>1. RemoveAt(activeOrder, PauseIndex) \in Seq(Tasks)
    BY <1>1, RemoveAtProperties DEF ConcurTypeOK
  <2> QED
    BY <1>2, <1>3, <2>1 DEF ConcurTypeOK, driver, agents
<1>5. OneStory'
  <2>1. /\ ToSet(activeOrder') = active \ {t}
        /\ IsInjective(activeOrder')
    BY <1>1, <1>3, RemoveAtElements DEF ConcurTypeOK, OneStory, t
  <2>2. /\ ToSet(pausedOrder') = paused \cup {t}
        /\ IsInjective(pausedOrder')
    BY <1>2, <1>3, AppendElements DEF ConcurTypeOK, OneStory
  <2> QED
    BY <1>2, <1>3, <2>1, <2>2 DEF OneStory
<1>6. BacklogFresh'
  BY <1>3 DEF BacklogFresh, driver
<1>7. AgentsFitPool'
  <2>1. active' \cup paused' = active \cup paused
    BY <1>2, <1>3
  <2> QED
    BY <2>1 DEF AgentsFitPool
<1> QED
  BY <1>4, <1>5, <1>6, <1>7

\* Resuming is the way back.
LEMMA ResumeInv ==
    ASSUME ControllerInv, Resume
    PROVE  ControllerInv'
<1> USE DEF ControllerInv
<1> DEFINE t == Head(pausedOrder)
<1>1. pausedOrder # <<>>
  BY DEF Resume, MayResume
<1>2. t \in paused /\ t \in Tasks /\ t \notin active
  BY <1>1, TailElements DEF ConcurTypeOK, OneStory
<1>3. /\ pausedOrder' = Tail(pausedOrder)
      /\ paused' = paused \ {t}
      /\ active' = active \cup {t}
      /\ activeOrder' = Append(activeOrder, t)
      /\ gates' = gates \cup {t}
      /\ UNCHANGED <<stage, driver, window, futures, agents>>
  BY <1>2 DEF Resume
<1> HIDE DEF t
<1>4. ConcurTypeOK'
  <2>1. Tail(pausedOrder) \in Seq(Tasks)
    BY <1>1 DEF ConcurTypeOK
  <2> QED
    BY <1>2, <1>3, <2>1 DEF ConcurTypeOK, driver, agents
<1>5. OneStory'
  <2>1. /\ ToSet(pausedOrder') = paused \ {t}
        /\ IsInjective(pausedOrder')
    BY <1>1, <1>3, TailElements DEF ConcurTypeOK, OneStory, t
  <2>2. /\ ToSet(activeOrder') = active \cup {t}
        /\ IsInjective(activeOrder')
    BY <1>2, <1>3, AppendElements DEF ConcurTypeOK, OneStory
  <2> QED
    BY <1>2, <1>3, <2>1, <2>2 DEF OneStory
<1>6. BacklogFresh'
  BY <1>3 DEF BacklogFresh, driver
<1>7. AgentsFitPool'
  <2>1. active' \cup paused' = active \cup paused
    BY <1>2, <1>3
  <2> QED
    BY <2>1 DEF AgentsFitPool
<1> QED
  BY <1>4, <1>5, <1>6, <1>7

\* A task is admitted only when nobody is paused, so the agents are then the
\* active ones, of which there are fewer than the window allows.
LEMMA AdmitInv ==
    ASSUME ControllerInv, Admit
    PROVE  ControllerInv'
<1> USE DEF ControllerInv
<1> DEFINE t == Head(backlog)
<1>1. backlog # <<>> /\ pausedOrder = <<>> /\ Cardinality(active) < window
  BY DEF Admit, MayEnter
<1>2. t \in ToSet(backlog) /\ t \in Tasks
  BY <1>1, TailElements DEF ConcurTypeOK, BacklogFresh
<1>3. t \notin futures /\ t \notin active
  BY <1>2 DEF BacklogFresh, OneStory
<1>4. paused = {}
  BY <1>1 DEF OneStory, ToSet
<1>5. /\ backlog' = Tail(backlog)
      /\ active' = active \cup {t}
      /\ activeOrder' = Append(activeOrder, t)
      /\ gates' = gates \cup {t}
      /\ futures' = futures \cup {t}
      /\ agent' = [agent EXCEPT ![t] = "queued"]
      /\ UNCHANGED <<stage, emitted, paused, pausedOrder, window, turns>>
  BY DEF Admit
<1> HIDE DEF t
<1>6. ConcurTypeOK'
  <2>1. Tail(backlog) \in Seq(Tasks)
    BY <1>1 DEF ConcurTypeOK
  <2> QED
    BY <1>2, <1>5, <2>1 DEF ConcurTypeOK, AgentStates
<1>7. OneStory'
  <2>1. /\ ToSet(activeOrder') = active \cup {t}
        /\ IsInjective(activeOrder')
    BY <1>2, <1>3, <1>5, AppendElements DEF ConcurTypeOK, OneStory
  <2> QED
    BY <1>3, <1>4, <1>5, <2>1 DEF OneStory
<1>8. BacklogFresh'
  <2>1. /\ ToSet(backlog') = ToSet(backlog) \ {t}
        /\ IsInjective(backlog')
    BY <1>1, <1>5, TailElements DEF ConcurTypeOK, BacklogFresh, t
  <2> QED
    BY <1>2, <1>5, <2>1 DEF BacklogFresh
<1>9. AgentsFitPool'
  <2>1. IsFiniteSet(active) /\ Cardinality(active) \in Nat
    BY TasksFinite DEF ConcurTypeOK
  <2>2. Cardinality(active \cup {t}) = Cardinality(active) + 1
    BY <1>3, <2>1, FS_AddElement
  <2>3. active' \cup paused' = active \cup {t}
    BY <1>4, <1>5
  <2>4. Cardinality(active' \cup paused') <= WindowMax
    <3>1. window \in Int /\ window <= WindowMax /\ WindowMax \in Int
      BY WindowMaxType DEF ConcurTypeOK
    <3>2. Cardinality(active) + 1 <= WindowMax
      BY <1>1, <2>1, <3>1
    <3> QED
      BY <2>2, <2>3, <3>2, Zenon
  <2> QED
    BY <2>4, WindowMaxType DEF AgentsFitPool
<1> QED
  BY <1>6, <1>7, <1>8, <1>9

\* The other steps touch neither the sets and lists nor the backlog.
LEMMA QuietInv ==
    ASSUME ControllerInv, ConcurTypeOK', UNCHANGED <<driver, concur, gates, futures>>
    PROVE  ControllerInv'
<1>1. OneStory' /\ BacklogFresh'
  BY DEF ControllerInv, OneStory, BacklogFresh, driver, concur
<1>2. AgentsFitPool'
  BY DEF ControllerInv, AgentsFitPool, concur
<1> QED
  BY <1>1, <1>2 DEF ControllerInv

\* What an agent does on its own changes no book of the controller's.
LEMMA AgentInv ==
    ASSUME ControllerInv, NEW t \in Tasks, Agent(t) \/ WorkerFails(t)
    PROVE  ControllerInv'
<1> USE DEF ControllerInv
<1>1. CASE StartWorker(t)
  <2>1. ConcurTypeOK'
    BY <1>1 DEF ConcurTypeOK, StartWorker, AgentStates, driver, concur
  <2> QED
    BY <1>1, <2>1, QuietInv DEF StartWorker
<1>2. CASE StartModelRequest(t)
  <2>1. ConcurTypeOK'
    BY <1>2 DEF ConcurTypeOK, StartModelRequest, AgentStates, driver, concur
  <2> QED
    BY <1>2, <2>1, QuietInv DEF StartModelRequest
<1>3. CASE EndModelRequest(t)
  <2>1. ConcurTypeOK'
    BY <1>3 DEF ConcurTypeOK, EndModelRequest, AgentStates, driver, concur
  <2> QED
    BY <1>3, <2>1, QuietInv DEF EndModelRequest
<1>4. CASE EndWorker(t)
  <2>1. ConcurTypeOK'
    BY <1>4 DEF ConcurTypeOK, EndWorker, AgentStates, driver, concur
  <2> QED
    BY <1>4, <2>1, QuietInv DEF EndWorker
<1>5. CASE WorkerFails(t)
  <2>1. ConcurTypeOK'
    BY <1>5 DEF ConcurTypeOK, WorkerFails, AgentStates, driver, concur
  <2> QED
    BY <1>5, <2>1, QuietInv DEF WorkerFails
<1> QED
  BY <1>1, <1>2, <1>3, <1>4, <1>5 DEF Agent

\* Every step of the driver and of the agents preserves the invariant.
LEMMA ConcurStep == ControllerInv /\ [ConcurNext]_controller => ControllerInv'
<1> SUFFICES ASSUME ControllerInv, [ConcurNext]_controller PROVE ControllerInv'
  OBVIOUS
<1>1. ASSUME NEW t \in Tasks, Collect(t) PROVE ControllerInv'
  BY <1>1, CollectInv
<1>2. CASE LeavePoll \/ StopRequested \/ LeaveEmit \/ LeaveReconcile \/ Check
  <2>1. UNCHANGED <<driver, concur, window, gates, futures, agents>>
    BY <1>2 DEF LeavePoll, StopRequested, LeaveEmit, LeaveReconcile, Check
  <2>2. stage' \in {"emit", "stopped", "control", "check", "completed", "poll"}
    BY <1>2 DEF LeavePoll, StopRequested, LeaveEmit, LeaveReconcile, Check
  <2>3. ConcurTypeOK'
    BY <2>1, <2>2 DEF ControllerInv, ConcurTypeOK, driver, concur, agents
  <2> QED
    BY <2>1, <2>3, QuietInv
<1>3. CASE Emit
  BY <1>3, EmitInv
<1>4. CASE Control
  <2>1. window' \in 1..WindowMax
    BY <1>4, WindowLaw DEF Control, ControllerInv, ConcurTypeOK
  <2>2. ConcurTypeOK'
    BY <1>4, <2>1 DEF Control, ControllerInv, ConcurTypeOK, driver, concur, agents
  <2> QED
    BY <1>4, <2>2, QuietInv DEF Control
<1>5. CASE Pause
  BY <1>5, PauseInv
<1>6. CASE Resume
  BY <1>6, ResumeInv
<1>7. CASE Admit
  BY <1>7, AdmitInv
<1>8. ASSUME NEW t \in Tasks, Agent(t) \/ WorkerFails(t) PROVE ControllerInv'
  BY <1>8, AgentInv
<1>9. CASE UNCHANGED controller
  <2>1. ConcurTypeOK'
    BY <1>9 DEF ControllerInv, ConcurTypeOK, controller, driver, concur, agents
  <2> QED
    BY <1>9, <2>1, QuietInv DEF controller
<1> QED
  BY <1>1, <1>2, <1>3, <1>4, <1>5, <1>6, <1>7, <1>8, <1>9
     DEF ConcurNext, Driver, Reconcile, Over

-----------------------------------------------------------------------------
\* Hence it holds in every reachable state.
LEMMA ConcurInvariance == ConcurSpec => []ControllerInv
  BY ConcurInitInv, ConcurStep, PTL DEF ConcurSpec

\* The controller's variables keep their types; in particular the window stays
\* between one and its maximum under every sequence of AIMD steps.
THEOREM TypeCorrect == ConcurSpec => []ConcurTypeOK
<1>1. ControllerInv => ConcurTypeOK
  BY DEF ControllerInv
<1> QED
  BY <1>1, ConcurInvariance, PTL

\* Sets, order lists, gate files and futures agree in every reachable state.
THEOREM StoryCorrect == ConcurSpec => []OneStory
<1>1. ControllerInv => OneStory
  BY DEF ControllerInv
<1> QED
  BY <1>1, ConcurInvariance, PTL

\* The admitted agents, paused ones included, never outnumber the threads.
THEOREM PoolCorrect == ConcurSpec => []AgentsFitPool
<1>1. ControllerInv => AgentsFitPool
  BY DEF ControllerInv
<1> QED
  BY <1>1, ConcurInvariance, PTL

\* Pausing requires more active agents than the window, so at least two.
LEMMA PauseKeepsHead ==
    ASSUME ControllerInv, Pause
    PROVE  Head(activeOrder) \notin paused'
<1> USE DEF ControllerInv
<1> DEFINE t == activeOrder[PauseIndex]
<1>1. activeOrder # <<>> /\ Cardinality(active) > window
  BY DEF Pause, MustPause
<1>2. Len(activeOrder) \in Nat \ {0} /\ DOMAIN activeOrder = 1..Len(activeOrder)
  BY <1>1 DEF ConcurTypeOK
<1>3. Len(activeOrder) # 1
  <2> SUFFICES ASSUME Len(activeOrder) = 1 PROVE FALSE
    OBVIOUS
  <2>1. active = {activeOrder[1]}
    BY <1>2 DEF OneStory, ToSet
  <2>2. Cardinality(active) = 1
    BY <2>1, FS_Singleton
  <2>3. window \in Nat /\ window >= 1
    BY WindowMaxType DEF ConcurTypeOK
  <2> QED
    BY <1>1, <2>2, <2>3
<1>4. Head(activeOrder) = activeOrder[1] /\ activeOrder[1] \in active
  <2>1. Head(activeOrder) = activeOrder[1]
    BY <1>1 DEF ConcurTypeOK
  <2>2. Head(activeOrder) \in active
    BY <1>1, TailElements DEF ConcurTypeOK, OneStory
  <2> QED
    BY <2>1, <2>2
<1>5. t # activeOrder[1]
  BY <1>2, <1>3 DEF OneStory, IsInjective, PauseIndex
<1>6. paused' \subseteq paused \cup {t}
  BY DEF Pause
<1> QED
  BY <1>4, <1>5, <1>6 DEF OneStory

\* _concur_reconcile pauses from the back of the list, and only while there
\* are at least two active agents: the one at the head is never paused.
THEOREM OldestRuns == ConcurSpec => OldestKeepsRunning
<1>1. ControllerInv /\ [ConcurNext]_controller =>
        [activeOrder # <<>> => Head(activeOrder) \notin paused']_controller
  <2> SUFFICES ASSUME ControllerInv, ConcurNext, activeOrder # <<>>
               PROVE  Head(activeOrder) \notin paused'
    BY DEF controller
  <2>1. Head(activeOrder) \notin paused
    BY TailElements DEF ControllerInv, ConcurTypeOK, OneStory
  <2>2. CASE Pause
    BY <2>2, PauseKeepsHead
  <2>3. CASE ~Pause
    <3>1. paused' \subseteq paused
      BY <2>3 DEF ConcurNext, Driver, Reconcile, Over, Agent, Collect, Complete, LeavePoll,
                  StopRequested, Emit, LeaveEmit, Control, Resume, Admit, LeaveReconcile,
                  Check, StartWorker, StartModelRequest, EndModelRequest, EndWorker,
                  WorkerFails, controller, concur
    <3> QED
      BY <2>1, <3>1
  <2> QED
    BY <2>2, <2>3
<1> QED
  BY <1>1, ConcurInvariance, PTL DEF ConcurSpec, OldestKeepsRunning

-----------------------------------------------------------------------------
(* LightLLM over the KV cache. *)

\* What a request owns of the cache: a request that is deferred owns the blocks
\* that it holds, which are full, and any other the blocks of its table.
Owned == [r \in Requests |-> IF r \in Deferred THEN held[r] ELSE table[r]]
OwnedFull == [r \in Requests |-> IF r \in Deferred THEN Len(held[r]) ELSE numCached[r]]
OwnedTokens == [r \in Requests |-> IF r \in Deferred THEN HitTokens(r) ELSE computed[r]]

\* Taking and giving back a hold are steps of the KV cache on what requests own.
\* (KVCacheProofs is about the retention policies too: their parameters play no
\* part in what is used of it.)
Own == INSTANCE KVCacheProofs WITH
    table <- Owned, numCached <- OwnedFull, computed <- OwnedTokens,
    Job <- [r \in Requests |-> r], IsLastStep <- [r \in Requests |-> TRUE],
    Before <- [r \in Requests |-> {}], MaxHold <- 0,
    continuum <- FALSE, jobs <- <<>>, pins <- <<>>, LongPrefill <- 0, attempt <- 0

PolicyTypes ==
    /\ status \in [Requests -> {"new", "waiting", "running", "preempted", "finished"}]
    /\ tokens \in [Requests -> Nat]
    /\ \A r \in Requests : tokens[r] \in Prompt[r]..Len(Content[r])
    /\ running \in Seq(Requests) /\ waiting \in Seq(Requests) /\ skipped \in Seq(Requests)
    /\ ema \in Nat /\ ema >= MinOutput
    /\ pc \in {"input", "preview", "running", "alloc", "waiting", "commit", "output"}
    /\ fresh \subseteq Requests /\ selected \subseteq Requests
    /\ busy \in BOOLEAN /\ prefill \in BOOLEAN /\ unreported \in BOOLEAN /\ preempted \in BOOLEAN
    /\ index \in Nat \ {0} /\ current \in Requests \cup {None}
    /\ budget \in 0..MaxBatch
    /\ batch \in Seq([req : Requests, num : 1..MaxBatch])

\* A deferred request has nothing but its hold, which leaves a token to compute.
TablesFit ==
    /\ table \in [Requests -> Seq(Blocks)]
    /\ numCached \in [Requests -> Nat] /\ computed \in [Requests -> Nat]
    /\ assigned = [b \in Blocks |-> assigned[b]]
    /\ due = [r \in Requests |-> due[r]]
    /\ Deferred \subseteq Requests
    /\ \A r \in Deferred : /\ held[r] \in Seq(Blocks)
                           /\ table[r] = <<>> /\ numCached[r] = 0 /\ computed[r] = 0
                           /\ HitTokens(r) < tokens[r]

-----------------------------------------------------------------------------
\* The cache of what requests own has the parameters of this one.
LEMMA OwnAssumptions == Own!CacheAssumption /\ Own!RetentionAssumption
<1>1. Own!CacheAssumption
  BY CacheAssumption DEF Own!CacheAssumption, Own!IsFiniteSet, IsFiniteSet, Own!ToSet, ToSet
<1>2. Own!RetentionAssumption
  BY PolicyAssumption DEF Own!RetentionAssumption, Own!Cdiv, Cdiv
<1> QED
  BY <1>1, <1>2

\* What the invariant of the cache says about what requests own.
LEMMA OwnFacts ==
    ASSUME Own!CacheInv
    PROVE  /\ \A r \in Requests : /\ Owned[r] \in Seq(Blocks) /\ IsInjective(Owned[r])
                                  /\ OwnedTokens[r] \in Nat /\ OwnedTokens[r] <= Len(Content[r])
                                  /\ Len(Owned[r]) = Cdiv(OwnedTokens[r], BlockSize)
                                  /\ OwnedFull[r] \in Nat
           /\ refCnt \in [Blocks -> Nat]
           /\ freeQueue \in Seq(Blocks) /\ IsInjective(freeQueue)
           /\ blockHash \in [Blocks -> Hashes \cup {NoHash}]
           /\ cached \in [Hashes -> Seq(Blocks)] /\ DOMAIN assigned = Blocks
           /\ ToSet(freeQueue) = {b \in Blocks : refCnt[b] = 0}
           /\ \A b \in Blocks : refCnt[b] = Cardinality({r \in Requests : Contains(Owned[r], b)})
           /\ \A b \in Blocks : refCnt[b] = 0 <=> \A r \in Requests : b \notin ToSet(Owned[r])
<1>1. Own!BooksTypeOK /\ Own!RefCountExact /\ Own!SizesFit
  BY DEF Own!CacheInv
<1>2. /\ \A b \in Blocks : refCnt[b] = 0 <=> \A q \in Requests : b \notin ToSet(Owned[q])
      /\ \A q \in Requests : IsInjective(Owned[q])
      /\ IsInjective(freeQueue)
  <2>1. /\ \A b \in Own!Blocks : refCnt[b] = 0 <=> \A q \in Requests : b \notin Own!ToSet(Owned[q])
        /\ \A q \in Requests : Own!IsInjective(Owned[q])
        /\ Own!IsInjective(freeQueue)
    BY <1>1, OwnAssumptions, Own!Unowned
  <2> QED
    BY <2>1 DEF Own!Blocks, Blocks, Own!ToSet, ToSet, Own!IsInjective, IsInjective
<1>3. /\ Owned \in [Requests -> Seq(Blocks)] /\ OwnedFull \in [Requests -> Nat]
      /\ OwnedTokens \in [Requests -> Nat] /\ refCnt \in [Blocks -> Nat]
      /\ freeQueue \in Seq(Blocks) /\ DOMAIN assigned = Blocks
      /\ blockHash \in [Blocks -> Hashes \cup {NoHash}]
      /\ cached \in [Hashes -> Seq(Blocks)]
  BY <1>1 DEF Own!BooksTypeOK, Own!Blocks, Blocks, Own!Hashes, Hashes, Own!NoHash, NoHash,
              Own!HashOf, HashOf, Own!FullBlocks, FullBlocks, Own!Floor, Floor
<1>4. \A r \in Requests : /\ OwnedTokens[r] <= Len(Content[r])
                          /\ Len(Owned[r]) = Cdiv(OwnedTokens[r], BlockSize)
  BY <1>1 DEF Own!SizesFit, Own!Cdiv, Cdiv
<1>5. /\ ToSet(freeQueue) = {b \in Blocks : refCnt[b] = 0}
      /\ \A b \in Blocks : refCnt[b] = Cardinality({r \in Requests : Contains(Owned[r], b)})
  BY <1>1 DEF Own!RefCountExact, Own!Blocks, Blocks, Own!ToSet, ToSet, Own!Contains, Contains,
              Own!Cardinality, Cardinality
<1> QED
  BY <1>2, <1>3, <1>4, <1>5

\* The operations on lists are the same ones.
LEMMA SameLists ==
    ASSUME NEW s, NEW S
    PROVE  /\ Own!Removed(s, S) = Removed(s, S)
           /\ Own!Reverse(s) = Reverse(s)
           /\ Own!ToSet(s) = ToSet(s)
<1>1. Own!Removed(s, S) = Removed(s, S)
  BY DEF Own!Removed, Removed
<1>2. Own!Reverse(s) = Reverse(s)
  BY DEF Own!Reverse, Reverse
<1>3. Own!ToSet(s) = ToSet(s)
  BY DEF Own!ToSet, ToSet
<1> QED
  BY <1>1, <1>2, <1>3

\* So are the blocks that lose their last reference.
LEMMA SameUnreferenced ==
    ASSUME NEW s
    PROVE  Own!Unreferenced(s) = Unreferenced(s)
<1>1. \A S : Own!StillShared(S) = StillShared(S)
  BY DEF Own!StillShared, StillShared, Own!DropRefs, DropRefs, Own!Blocks, Blocks
<1>2. Own!Removed(s, StillShared(ToSet(s))) = Removed(s, StillShared(ToSet(s)))
  BY SameLists
<1> QED
  BY <1>1, <1>2, SameLists DEF Own!Unreferenced, Unreferenced

\* Steps that change neither blocks nor holds keep what requests own.
LEMMA OwnStays ==
    ASSUME Own!CacheInv, UNCHANGED <<books, held>>
    PROVE  Own!CacheInv'
<1>1. UNCHANGED <<table, numCached, computed, refCnt, freeQueue, blockHash, cached, assigned, held>>
  BY DEF books
<1>2. Owned' = Owned /\ OwnedFull' = OwnedFull /\ OwnedTokens' = OwnedTokens
  BY <1>1 DEF Owned, OwnedFull, OwnedTokens, Deferred, HitTokens
<1>3. UNCHANGED Own!books
  BY <1>1, <1>2 DEF Own!books
<1> QED
  BY <1>3, OwnAssumptions, Own!BooksStay

\* A request gives back its hold or its blocks.
GivesBack(r) ==
    IF r \in Deferred THEN DropDeferred(r)
    ELSE /\ IF table[r] = <<>> THEN UNCHANGED kv ELSE Free(r)
         /\ UNCHANGED held

\* A request without blocks has no tokens in the cache.
LEMMA NoBlocksNoTokens ==
    ASSUME Own!CacheInv, TablesFit, NEW r \in Requests
    PROVE  /\ Owned[r] = <<>> <=> OwnedTokens[r] = 0
           /\ Owned[r] = <<>> => OwnedFull[r] = 0
           /\ r \notin Deferred => /\ Owned[r] = table[r] /\ OwnedTokens[r] = computed[r]
                                   /\ OwnedFull[r] = numCached[r]
           /\ r \in Deferred => /\ Owned[r] = held[r] /\ OwnedTokens[r] = HitTokens(r)
                                /\ OwnedFull[r] = Len(held[r])
<1>1. /\ Owned[r] \in Seq(Blocks) /\ OwnedTokens[r] \in Nat
      /\ Len(Owned[r]) = Cdiv(OwnedTokens[r], BlockSize)
  BY OwnFacts
<1>2. Own!Cdiv(OwnedTokens[r], BlockSize) = 0 <=> OwnedTokens[r] = 0
  <2>1. OwnedTokens[r] <= OwnedTokens[r]
    BY <1>1
  <2> QED
    BY <1>1, <2>1, OwnAssumptions, Own!BlockCounts
<1>3. Owned[r] = <<>> <=> OwnedTokens[r] = 0
  <2>1. Owned[r] = <<>> <=> Len(Owned[r]) = 0
    BY <1>1
  <2> QED
    BY <1>1, <1>2, <2>1 DEF Own!Cdiv, Cdiv
<1>4. OwnedTokens[r] = 0 => OwnedFull[r] = 0
  <2>1. OwnedFull[r] = Floor(OwnedTokens[r], BlockSize)
    BY DEF Own!CacheInv, Own!SizesFit, Own!Floor, Floor
  <2>2. BlockSize \in Nat \ {0}
    BY CacheAssumption
  <2>3. 0 \div BlockSize = 0
    BY <2>2
  <2> QED
    BY <2>1, <2>3 DEF Floor
<1> QED
  BY <1>3, <1>4 DEF Owned, OwnedFull, OwnedTokens

\* Giving back keeps the books of what requests own, and nobody else's change.
LEMMA GiveBackKeeps ==
    ASSUME Own!CacheInv, TablesFit, NEW r \in Requests, GivesBack(r),
           r \in Deferred => due[r] = {},
           \A d \in Deferred \ {r} : tokens'[d] = tokens[d]
    PROVE  /\ Own!CacheInv' /\ TablesFit'
           /\ Deferred' = Deferred \ {r}
           /\ computed' = [computed EXCEPT ![r] = 0]
<1>1. CASE r \in Deferred
  <2>1. /\ held' = [d \in Deferred \ {r} |-> held[d]]
        /\ refCnt' = DropRefs(ToSet(held[r]))
        /\ freeQueue' = AppendN(freeQueue, Unreferenced(Reverse(held[r])))
        /\ UNCHANGED <<table, numCached, computed, blockHash, cached, assigned, due, blank>>
    BY <1>1 DEF GivesBack, DropDeferred, Dropped, ReleasedRefs, ReleasedQueue
  <2>2. Deferred' = Deferred \ {r} /\ \A d \in Deferred' : held'[d] = held[d]
    BY <2>1 DEF Deferred
  <2>3. table[r] = <<>> /\ numCached[r] = 0 /\ computed[r] = 0
    BY <1>1 DEF TablesFit
  <2>4. computed' = [computed EXCEPT ![r] = 0]
    BY <2>1, <2>3 DEF TablesFit
  <2>5. TablesFit'
    BY <2>1, <2>2 DEF TablesFit, HitTokens, Blocks
  <2>6. /\ Owned' = [Owned EXCEPT ![r] = <<>>]
        /\ OwnedFull' = [OwnedFull EXCEPT ![r] = 0]
        /\ OwnedTokens' = [OwnedTokens EXCEPT ![r] = 0]
    BY <2>1, <2>2, <2>3 DEF Owned, OwnedFull, OwnedTokens, HitTokens
  <2>7. CASE held[r] = <<>>
    <3>1. Owned[r] = <<>> /\ OwnedFull[r] = 0 /\ OwnedTokens[r] = 0
      BY <1>1, <2>7, NoBlocksNoTokens
    <3>2. /\ Owned \in [Requests -> Seq(Blocks)] /\ OwnedFull \in [Requests -> Nat]
          /\ OwnedTokens \in [Requests -> Nat]
      BY OwnFacts DEF Owned, OwnedFull, OwnedTokens
    <3>3. Owned' = Owned /\ OwnedFull' = OwnedFull /\ OwnedTokens' = OwnedTokens
      BY <2>6, <3>1, <3>2
    <3>4. refCnt' = refCnt
      BY <2>1, <2>7, OwnFacts DEF DropRefs, ToSet
    <3>5. freeQueue' = freeQueue
      <4>1. Reverse(held[r]) = <<>>
        BY <2>7 DEF Reverse
      <4>2. Unreferenced(<<>>) = <<>>
        <5> DEFINE e == Unreferenced(<<>>)
        <5>1. <<>> \in Seq(Blocks) /\ ToSet(<<>>) = {}
          BY DEF ToSet
        <5>2. e \in Seq(Blocks) /\ ToSet(e) = ToSet(<<>>) \ StillShared(ToSet(<<>>))
          BY <5>1, RemovedProperties DEF Unreferenced
        <5> HIDE DEF e
        <5>3. e = <<>>
          BY <5>1, <5>2, NothingIn
        <5> QED
          BY <5>3 DEF e
      <4> QED
        BY <2>1, <4>1, <4>2, OwnFacts, ConcatEmptySeq DEF AppendN
    <3>6. UNCHANGED Own!kv
      BY <2>1, <3>3, <3>4, <3>5 DEF Own!kv
    <3> QED
      BY <2>2, <2>4, <2>5, <3>6, OwnAssumptions, Own!CacheStays
  <2>8. CASE held[r] # <<>>
    <3>1. Owned[r] = held[r]
      BY <1>1, NoBlocksNoTokens
    <3>2. refCnt' = Own!DropRefs(Own!ToSet(Owned[r]))
      BY <2>1, <3>1, SameLists DEF Own!DropRefs, DropRefs, Own!Blocks, Blocks
    <3>3. freeQueue' = Own!AppendN(freeQueue, Own!Unreferenced(Own!FreeOrder(r)))
      BY <2>1, <3>1, SameLists, SameUnreferenced DEF Own!AppendN, AppendN, Own!FreeOrder
    <3>4. due' = [due EXCEPT ![r] = {}] /\ blank' = blank \cup due[r]
      BY <1>1, <2>1 DEF TablesFit
    <3>5. Own!Free(r)
      BY <2>1, <2>6, <2>8, <3>1, <3>2, <3>3, <3>4 DEF Own!Free
    <3> QED
      BY <2>2, <2>4, <2>5, <3>5, OwnAssumptions, Own!FreeKeeps
  <2> QED
    BY <2>7, <2>8
<1>2. CASE r \notin Deferred /\ table[r] = <<>>
  <2>1. UNCHANGED <<kv, held>> /\ Deferred' = Deferred /\ Deferred' = Deferred \ {r}
    BY <1>2 DEF GivesBack, Deferred
  <2>2. computed[r] = 0
    BY <1>2, NoBlocksNoTokens
  <2>3. computed' = [computed EXCEPT ![r] = 0]
    BY <2>1, <2>2 DEF TablesFit, kv
  <2>4. TablesFit'
    BY <1>2, <2>1 DEF TablesFit, HitTokens, Blocks, kv
  <2> QED
    BY <2>1, <2>3, <2>4, OwnStays DEF kv, books
<1>3. CASE r \notin Deferred /\ table[r] # <<>>
  <2>1. /\ refCnt' = DropRefs(ToSet(table[r]))
        /\ freeQueue' = AppendN(freeQueue, Unreferenced(Reverse(table[r])))
        /\ table' = [table EXCEPT ![r] = <<>>]
        /\ numCached' = [numCached EXCEPT ![r] = 0]
        /\ computed' = [computed EXCEPT ![r] = 0]
        /\ due' = [due EXCEPT ![r] = {}] /\ blank' = blank \cup due[r]
        /\ UNCHANGED <<blockHash, cached, assigned>> /\ held' = held
    BY <1>3 DEF GivesBack, Free, FreeOrder
  <2>2. Deferred' = Deferred /\ Deferred' = Deferred \ {r}
    BY <1>3, <2>1 DEF Deferred
  <2>3. TablesFit'
    <3>1. due' = [q \in Requests |-> due'[q]]
      BY <2>1 DEF TablesFit
    <3>2. /\ table' \in [Requests -> Seq(Blocks)]
          /\ numCached' \in [Requests -> Nat] /\ computed' \in [Requests -> Nat]
      BY <2>1 DEF TablesFit
    <3> QED
      BY <1>3, <2>1, <2>2, <3>1, <3>2 DEF TablesFit, HitTokens, Blocks
  <2>4. /\ Owned' = [Owned EXCEPT ![r] = <<>>]
        /\ OwnedFull' = [OwnedFull EXCEPT ![r] = 0]
        /\ OwnedTokens' = [OwnedTokens EXCEPT ![r] = 0]
    BY <1>3, <2>1, <2>2 DEF Owned, OwnedFull, OwnedTokens, HitTokens, TablesFit
  <2>5. Owned[r] = table[r]
    BY <1>3, NoBlocksNoTokens
  <2>6. refCnt' = Own!DropRefs(Own!ToSet(Owned[r]))
    BY <2>1, <2>5, SameLists DEF Own!DropRefs, DropRefs, Own!Blocks, Blocks
  <2>7. freeQueue' = Own!AppendN(freeQueue, Own!Unreferenced(Own!FreeOrder(r)))
    BY <2>1, <2>5, SameLists, SameUnreferenced DEF Own!AppendN, AppendN, Own!FreeOrder
  <2>8. Own!Free(r)
    BY <1>3, <2>1, <2>4, <2>5, <2>6, <2>7 DEF Own!Free
  <2> QED
    BY <2>1, <2>2, <2>3, <2>8, OwnAssumptions, Own!FreeKeeps
<1> QED
  BY <1>1, <1>2, <1>3

\* No request owns a block that is free.
LEMMA FreeUnowned ==
    ASSUME Own!CacheInv, NEW r \in Requests
    PROVE  ToSet(Owned[r]) \subseteq Blocks /\ ToSet(freeQueue) \cap ToSet(Owned[r]) = {}
<1>1. ToSet(Owned[r]) \subseteq Blocks
  BY OwnFacts, ElementsType
<1>2. \A b \in Blocks : refCnt[b] = 0 => b \notin ToSet(Owned[r])
  BY OwnFacts
<1>3. ToSet(freeQueue) = {b \in Blocks : refCnt[b] = 0}
  BY OwnFacts
<1> QED
  BY <1>1, <1>2, <1>3

\* A free queue from which nothing is taken stays as it is.
LEMMA TouchNothing ==
    ASSUME NEW X, NEW s \in Seq(X), NEW S, ToSet(s) \cap S = {}
    PROVE  Removed(s, S) = s
<1>1. <<>> \in Seq(X) /\ ToSet(<<>>) = {}
  BY DEF ToSet
<1>2. Removed(s \o <<>>, S) = s
  BY <1>1, RemovedSuffix
<1>3. s \o <<>> = s
  BY ConcatEmptySeq
<1> QED
  BY <1>2, <1>3

\* An allocation as what requests own sees it: the blocks of r up to n tokens are
\* taken from the free queue, and the full ones get their hashes.
Extends(r, n) ==
    LET k == Cdiv(n, BlockSize) - Len(Owned[r])
        new == SubSeq(freeQueue, 1, k)
        tbl == Owned[r] \o new
        before == OwnedFull[r]
        full == Floor(n, BlockSize)
    IN  /\ k <= Len(freeQueue)
        /\ freeQueue' = SubSeq(freeQueue, k + 1, Len(freeQueue))
        /\ refCnt' = AddRefs(refCnt, ToSet(new))
        /\ Owned' = [Owned EXCEPT ![r] = tbl]
        /\ blockHash' = [b \in Blocks |->
                IF \E i \in (before + 1)..full : tbl[i] = b
                   THEN HashOf(r, CHOOSE i \in (before + 1)..full : tbl[i] = b)
                   ELSE IF b \in ToSet(new) THEN NoHash ELSE blockHash[b]]
        /\ cached' = CacheFull(Evict(cached, new), r, tbl, before, full)
        /\ OwnedFull' = [OwnedFull EXCEPT ![r] = full]
        /\ OwnedTokens' = [OwnedTokens EXCEPT ![r] = n]
        /\ table' = [table EXCEPT ![r] = tbl]
        /\ numCached' = [numCached EXCEPT ![r] = full]
        /\ computed' = [computed EXCEPT ![r] = n]
        /\ assigned' = [b \in Blocks |->
                IF \E i \in (Floor(OwnedTokens[r], BlockSize) + 1)..Len(tbl) : tbl[i] = b
                   THEN DataOf(r, CHOOSE i \in DOMAIN tbl : tbl[i] = b, n)
                   ELSE assigned[b]]
        /\ due' = [due EXCEPT ![r] =
                @ \cup {tbl[i] : i \in (Floor(OwnedTokens[r], BlockSize) + 1)..Len(tbl)}]
        /\ blank' = blank \ ToSet(new)

\* It keeps the invariant of the cache.
LEMMA ExtendKeeps ==
    ASSUME Own!CacheInv, TablesFit, NEW r \in Requests, NEW n \in 1..Len(Content[r]),
           n >= OwnedTokens[r], Extends(r, n)
    PROVE  Own!CacheInv'
<1> DEFINE k == Cdiv(n, BlockSize) - Len(Owned[r])
           new == SubSeq(freeQueue, 1, k)
           tbl == Owned[r] \o new
           before == OwnedFull[r]
           full == Floor(n, BlockSize)
<1>1. /\ Len(Content[r]) \in Nat /\ n \in Nat /\ Cdiv(n, BlockSize) \in Nat
      /\ Floor(Len(Content[r]), BlockSize) \in Nat
  <2>1. Len(Content[r]) \in Nat
    BY CacheAssumption
  <2>2. n \in Nat
    BY <2>1
  <2>3. Own!Cdiv(n, BlockSize) \in Nat
    BY <2>2, OwnAssumptions, Own!Ceilings
  <2>4. Own!Floor(Len(Content[r]), BlockSize) \in Nat
    BY <2>1, OwnAssumptions, Own!Floors
  <2> QED
    BY <2>1, <2>2, <2>3, <2>4 DEF Own!Cdiv, Cdiv, Own!Floor, Floor
<1>2. /\ Owned[r] \in Seq(Blocks) /\ Len(Owned[r]) \in Nat /\ freeQueue \in Seq(Blocks)
      /\ refCnt \in [Blocks -> Nat] /\ OwnedTokens[r] \in Nat /\ OwnedFull[r] \in Nat
      /\ Len(freeQueue) \in Nat
  BY OwnFacts
<1>3. Own!NewBlockCount(r, <<>>, n) = k
  BY <1>1, <1>2 DEF Own!NewBlockCount, Own!Cdiv, Cdiv
<1>4. Own!BlocksToAllocate(refCnt, r, <<>>, n) = k
  <2>1. {b \in Own!ToSet(<<>>) : refCnt[b] = 0} = {}
    BY DEF Own!ToSet
  <2>2. Own!Cardinality({}) = 0
    BY FS_EmptySet DEF Own!Cardinality, Cardinality
  <2>3. Own!Cdiv(n, BlockSize) - Len(<<>>) - Len(Owned[r]) + 0 = k
    BY <1>1, <1>2 DEF Own!Cdiv, Cdiv
  <2> QED
    BY <2>1, <2>2, <2>3 DEF Own!BlocksToAllocate
<1>5. Own!Touched(freeQueue, <<>>) = freeQueue
  <2>1. Own!ToSet(<<>>) = {}
    BY DEF Own!ToSet
  <2>2. Removed(freeQueue, {}) = freeQueue
    BY <1>2, TouchNothing
  <2> QED
    BY <2>1, <2>2, SameLists DEF Own!Touched
<1>6. Own!Popped(freeQueue, k) = new
      /\ Own!AfterPop(freeQueue, k) = SubSeq(freeQueue, k + 1, Len(freeQueue))
  BY DEF Own!Popped, Own!AfterPop
<1>7. Owned[r] \o <<>> \o new = tbl
  BY <1>2, ConcatEmptySeq
<1>8. (IF Owned[r] = <<>> THEN Len(<<>>) ELSE OwnedFull[r]) = before
  BY NoBlocksNoTokens
<1>9. (IF Owned[r] = <<>> THEN Len(<<>>) * BlockSize ELSE OwnedTokens[r]) = OwnedTokens[r]
  <2>1. 0 * BlockSize = 0
    BY CacheAssumption
  <2> QED
    BY <2>1, NoBlocksNoTokens
<1>10. /\ k <= Len(freeQueue)
       /\ freeQueue' = SubSeq(freeQueue, k + 1, Len(freeQueue))
       /\ refCnt' = AddRefs(refCnt, ToSet(new))
       /\ Owned' = [Owned EXCEPT ![r] = tbl]
       /\ OwnedFull' = [OwnedFull EXCEPT ![r] = full]
       /\ OwnedTokens' = [OwnedTokens EXCEPT ![r] = n]
  BY DEF Extends
<1>11. blockHash' = [b \in Blocks |->
                IF \E i \in (before + 1)..full : tbl[i] = b
                   THEN HashOf(r, CHOOSE i \in (before + 1)..full : tbl[i] = b)
                   ELSE IF b \in ToSet(new) THEN NoHash ELSE blockHash[b]]
  BY DEF Extends
<1>12. cached' = CacheFull(Evict(cached, new), r, tbl, before, full)
  BY DEF Extends
<1>13. assigned' = [b \in Blocks |->
                IF \E i \in (Floor(OwnedTokens[r], BlockSize) + 1)..Len(tbl) : tbl[i] = b
                   THEN DataOf(r, CHOOSE i \in DOMAIN tbl : tbl[i] = b, n)
                   ELSE assigned[b]]
       /\ due' = [due EXCEPT ![r] =
                @ \cup {tbl[i] : i \in (Floor(OwnedTokens[r], BlockSize) + 1)..Len(tbl)}]
       /\ blank' = blank \ ToSet(new)
  BY DEF Extends
<1>14. Own!Evict(cached, new) = Evict(cached, new)
  BY SameLists DEF Own!Evict, Evict, Own!Hashes, Hashes, Own!HashOf, HashOf,
                   Own!FullBlocks, FullBlocks, Own!Floor, Floor
<1>15. refCnt' = Own!AddRefs(refCnt, Own!ToSet(<<>>) \cup Own!ToSet(new))
  <2>1. Own!ToSet(<<>>) = {}
    BY DEF Own!ToSet
  <2>2. Own!ToSet(<<>>) \cup Own!ToSet(new) = ToSet(new)
    <3> HIDE DEF new
    <3> QED
      BY <2>1, SameLists
  <2> QED
    BY <1>10, <2>2 DEF Own!AddRefs, AddRefs, Own!Blocks, Blocks
<1>16. Own!Floor(n, BlockSize) = full
  BY DEF Own!Floor, Floor
<1> HIDE DEF k, new, tbl, before, full
<1>17. cached' = Own!CacheFull(Own!Evict(cached, new), r, tbl, before, full)
  BY <1>12, <1>14 DEF Own!CacheFull, CacheFull, Own!Hashes, Hashes, Own!HashOf, HashOf,
                      Own!FullBlocks, FullBlocks, Own!Floor, Floor
<1>18. blockHash' = [b \in Own!Blocks |->
                IF \E i \in (before + 1)..full : tbl[i] = b
                   THEN Own!HashOf(r, CHOOSE i \in (before + 1)..full : tbl[i] = b)
                   ELSE IF b \in Own!ToSet(new) THEN Own!NoHash ELSE blockHash[b]]
  BY <1>11, SameLists DEF Own!Blocks, Blocks, Own!HashOf, HashOf, Own!NoHash, NoHash
<1>19. assigned' = [b \in Own!Blocks |->
                IF \E i \in (Own!Floor(OwnedTokens[r], BlockSize) + 1)..Len(tbl) : tbl[i] = b
                   THEN Own!DataOf(r, CHOOSE i \in DOMAIN tbl : tbl[i] = b, n)
                   ELSE assigned[b]]
       /\ due' = [due EXCEPT ![r] =
                @ \cup {tbl[i] : i \in (Own!Floor(OwnedTokens[r], BlockSize) + 1)..Len(tbl)}]
       /\ blank' = blank \ Own!ToSet(new)
  BY <1>13, SameLists
     DEF Own!Blocks, Blocks, Own!Floor, Floor, Own!DataOf, DataOf, Own!Smaller, Smaller
<1>20. Own!AllocateFrom(refCnt, freeQueue, r, <<>>, n)
  <2> DEFINE K == Own!NewBlockCount(r, <<>>, n)
             Q == Own!Touched(freeQueue, <<>>)
             W == Own!Popped(Q, K)
             B == Owned[r] \o <<>> \o W
             L == IF Owned[r] = <<>> THEN Len(<<>>) ELSE OwnedFull[r]
             U == Own!Floor(n, BlockSize)
             P == IF Owned[r] = <<>> THEN Len(<<>>) * BlockSize ELSE OwnedTokens[r]
  <2>1. K = k /\ Q = freeQueue /\ L = before /\ U = full /\ P = OwnedTokens[r]
    BY <1>3, <1>5, <1>8, <1>9, <1>16
  <2>2. W = new
    BY <1>6, <2>1
  <2>3. B = tbl
    BY <1>7, <2>2
  <2>4. Own!AfterPop(Q, K) = SubSeq(freeQueue, k + 1, Len(freeQueue))
    BY <1>6, <2>1
  <2> HIDE DEF K, Q, W, B, L, U, P
  <2>5. Own!BlocksToAllocate(refCnt, r, <<>>, n) <= Len(freeQueue)
    BY <1>4, <1>10
  <2>6. freeQueue' = Own!AfterPop(Q, K)
    BY <1>10, <2>4
  <2>7. refCnt' = Own!AddRefs(refCnt, Own!ToSet(<<>>) \cup Own!ToSet(W))
    BY <1>15, <2>2
  <2>8. Owned' = [Owned EXCEPT ![r] = B]
    BY <1>10, <2>3
  <2>9. blockHash' = [b \in Own!Blocks |->
                IF \E i \in (L + 1)..U : B[i] = b
                   THEN Own!HashOf(r, CHOOSE i \in (L + 1)..U : B[i] = b)
                   ELSE IF b \in Own!ToSet(W) THEN Own!NoHash ELSE blockHash[b]]
    BY <1>18, <2>1, <2>2, <2>3
  <2>10. cached' = Own!CacheFull(Own!Evict(cached, W), r, B, L, U)
    BY <1>17, <2>1, <2>2, <2>3
  <2>11. /\ OwnedFull' = [OwnedFull EXCEPT ![r] = U]
         /\ OwnedTokens' = [OwnedTokens EXCEPT ![r] = n]
    BY <1>10, <2>1
  <2>12. assigned' = [b \in Own!Blocks |->
                IF \E i \in (Own!Floor(P, BlockSize) + 1)..Len(B) : B[i] = b
                   THEN Own!DataOf(r, CHOOSE i \in DOMAIN B : B[i] = b, n)
                   ELSE assigned[b]]
    BY <1>19, <2>1, <2>3
  <2>13. /\ due' = [due EXCEPT ![r] =
                @ \cup {B[i] : i \in (Own!Floor(P, BlockSize) + 1)..Len(B)}]
         /\ blank' = blank \ Own!ToSet(W)
    BY <1>19, <2>1, <2>2, <2>3
  <2> QED
    BY <2>5, <2>6, <2>7, <2>8, <2>9, <2>10, <2>11, <2>12, <2>13, Zenon
       DEF Own!AllocateFrom, K, Q, W, B, L, U, P
<1>21. Own!AllocateSlots(r, <<>>, n)
  BY <1>20 DEF Own!AllocateSlots
<1>22. Own!Found(r, <<>>)
  BY <1>1 DEF Own!Found, Own!Floor, Floor
<1>23. n >= Own!Ready(r, <<>>)
  BY <1>9 DEF Own!Ready
<1> QED
  BY <1>21, <1>22, <1>23, OwnAssumptions, Own!AllocateKeeps

\* With the counts refs and the queue free the blocks hits are as if r, which owns
\* them, had just released them.
IsReleased(refs, free, r, hits) ==
    /\ hits \in Seq(Blocks) /\ table[r] \o hits = Owned[r]
    /\ Touched(free, hits) = freeQueue /\ ToSet(hits) \cap ToSet(freeQueue) = {}
    /\ (IF table[r] = <<>> THEN Len(hits) ELSE numCached[r]) = OwnedFull[r]
    /\ (IF table[r] = <<>> THEN Len(hits) * BlockSize ELSE computed[r]) = OwnedTokens[r]
    /\ \A b \in Blocks : refCnt[b] = IF b \in ToSet(hits) THEN refs[b] + 1 ELSE refs[b]

\* allocate_slots with the blocks of a prefix hit that r owns already.
LEMMA AllocationExtends ==
    ASSUME Own!CacheInv, TablesFit, NEW r \in Requests, NEW refs, NEW free, NEW hits, NEW n \in Nat,
           AllocateFrom(refs, free, r, hits, n), IsReleased(refs, free, r, hits),
           NewBlockCount(r, hits, n) <= Len(freeQueue),
           Deferred' = Deferred \ {r}, \A d \in Deferred' : held'[d] = held[d]
    PROVE  Extends(r, n)
<1> DEFINE k == Cdiv(n, BlockSize) - Len(Owned[r])
           new == SubSeq(freeQueue, 1, k)
           tbl == Owned[r] \o new
           before == OwnedFull[r]
           full == Floor(n, BlockSize)
           K == NewBlockCount(r, hits, n)
           Q == Touched(free, hits)
           W == Popped(Q, K)
           B == table[r] \o hits \o W
           L == IF table[r] = <<>> THEN Len(hits) ELSE numCached[r]
           P == IF table[r] = <<>> THEN Len(hits) * BlockSize ELSE computed[r]
<1>1. /\ freeQueue' = AfterPop(Q, K)
      /\ refCnt' = AddRefs(refs, ToSet(hits) \cup ToSet(W))
      /\ table' = [table EXCEPT ![r] = B]
      /\ blockHash' = [b \in Blocks |->
              IF \E i \in (L + 1)..full : B[i] = b
                 THEN HashOf(r, CHOOSE i \in (L + 1)..full : B[i] = b)
                 ELSE IF b \in ToSet(W) THEN NoHash ELSE blockHash[b]]
      /\ cached' = CacheFull(Evict(cached, W), r, B, L, full)
      /\ numCached' = [numCached EXCEPT ![r] = full]
      /\ computed' = [computed EXCEPT ![r] = n]
      /\ assigned' = [b \in Blocks |->
              IF \E i \in (Floor(P, BlockSize) + 1)..Len(B) : B[i] = b
                 THEN DataOf(r, CHOOSE i \in DOMAIN B : B[i] = b, n)
                 ELSE assigned[b]]
      /\ due' = [due EXCEPT ![r] = @ \cup {B[i] : i \in (Floor(P, BlockSize) + 1)..Len(B)}]
      /\ blank' = blank \ ToSet(W)
  BY Zenon DEF AllocateFrom
<1>2. /\ Cdiv(n, BlockSize) \in Nat /\ table[r] \in Seq(Blocks) /\ Len(hits) \in Nat
      /\ Len(table[r]) \in Nat /\ Len(Owned[r]) = Len(table[r]) + Len(hits)
  <2>1. Own!Cdiv(n, BlockSize) \in Nat
    BY OwnAssumptions, Own!Ceilings
  <2>2. table[r] \in Seq(Blocks) /\ Len(hits) \in Nat /\ Len(table[r]) \in Nat
    BY DEF TablesFit, IsReleased
  <2>3. Len(table[r] \o hits) = Len(table[r]) + Len(hits)
    BY <2>2, ConcatProperties
  <2> QED
    BY <2>1, <2>2, <2>3 DEF Own!Cdiv, Cdiv, IsReleased
<1>3. K = k /\ Q = freeQueue /\ L = before /\ P = OwnedTokens[r]
  <2>1. K = k
    BY <1>2 DEF NewBlockCount
  <2> QED
    BY <2>1 DEF IsReleased
<1>4. W = new /\ AfterPop(Q, K) = SubSeq(freeQueue, k + 1, Len(freeQueue))
  BY <1>3 DEF Popped, AfterPop
<1>5. B = tbl
  BY <1>4 DEF IsReleased
<1>6. k <= Len(freeQueue)
  BY <1>3
<1>7. ToSet(new) \subseteq ToSet(freeQueue)
  <2>1. freeQueue \in Seq(Blocks) /\ Len(freeQueue) \in Nat /\ DOMAIN freeQueue = 1..Len(freeQueue)
    BY OwnFacts
  <2>2. k \in Int
    BY <1>2
  <2> HIDE DEF k
  <2>3. ASSUME NEW i \in DOMAIN new PROVE new[i] \in ToSet(freeQueue)
    <3>1. i \in 1..k /\ k \in Nat
      BY <2>1, <2>2, <2>3
    <3>2. new[i] = freeQueue[i] /\ i \in DOMAIN freeQueue
      BY <1>6, <2>1, <3>1
    <3> QED
      BY <3>2 DEF ToSet
  <2> HIDE DEF new
  <2> QED
    BY <2>3 DEF ToSet
<1> HIDE DEF K, Q, W, B, L, P, k, new, tbl, before, full
<1>8. refCnt' = AddRefs(refCnt, ToSet(new))
  <2>1. \A b \in Blocks :
           (IF b \in ToSet(hits) \cup ToSet(new) THEN refs[b] + 1 ELSE refs[b])
             = (IF b \in ToSet(new) THEN refCnt[b] + 1 ELSE refCnt[b])
    BY <1>7 DEF IsReleased
  <2> QED
    BY <1>1, <1>4, <2>1 DEF AddRefs
<1>9. Owned \in [Requests -> Seq(Blocks)]
  BY OwnFacts DEF Owned
<1>10. Owned' = [Owned EXCEPT ![r] = tbl]
  <2>1. table' = [table EXCEPT ![r] = tbl] /\ table \in [Requests -> Seq(Blocks)]
    BY <1>1, <1>5 DEF TablesFit
  <2>2. \A q \in Requests : Owned'[q] = IF q = r THEN tbl ELSE Owned[q]
    BY <2>1 DEF Owned
  <2>3. DOMAIN Owned' = Requests /\ Owned' = [q \in Requests |-> Owned'[q]]
    BY DEF Owned
  <2> QED
    BY <1>9, <2>2, <2>3
<1>11. OwnedFull' = [OwnedFull EXCEPT ![r] = full]
  BY <1>1 DEF OwnedFull, TablesFit
<1>12. OwnedTokens' = [OwnedTokens EXCEPT ![r] = n]
  BY <1>1 DEF OwnedTokens, TablesFit, HitTokens
<1>13. blockHash' = [b \in Blocks |->
              IF \E i \in (before + 1)..full : tbl[i] = b
                 THEN HashOf(r, CHOOSE i \in (before + 1)..full : tbl[i] = b)
                 ELSE IF b \in ToSet(new) THEN NoHash ELSE blockHash[b]]
  BY <1>1, <1>3, <1>4, <1>5
<1>14. cached' = CacheFull(Evict(cached, new), r, tbl, before, full)
  BY <1>1, <1>3, <1>4, <1>5
<1>15. assigned' = [b \in Blocks |->
              IF \E i \in (Floor(OwnedTokens[r], BlockSize) + 1)..Len(tbl) : tbl[i] = b
                 THEN DataOf(r, CHOOSE i \in DOMAIN tbl : tbl[i] = b, n)
                 ELSE assigned[b]]
  BY <1>1, <1>3, <1>5
<1>16. freeQueue' = SubSeq(freeQueue, k + 1, Len(freeQueue))
  BY <1>1, <1>4
<1>17. /\ table' = [table EXCEPT ![r] = tbl] /\ numCached' = [numCached EXCEPT ![r] = full]
       /\ computed' = [computed EXCEPT ![r] = n]
  BY <1>1, <1>5
<1>18. /\ due' = [due EXCEPT ![r] =
                @ \cup {tbl[i] : i \in (Floor(OwnedTokens[r], BlockSize) + 1)..Len(tbl)}]
       /\ blank' = blank \ ToSet(new)
  BY <1>1, <1>3, <1>4, <1>5
<1> QED
  BY <1>6, <1>8, <1>10, <1>11, <1>12, <1>13, <1>14, <1>15, <1>16, <1>17, <1>18, Zenon
     DEF Extends, k, new, tbl, before, full

\* Allocation leaves the other requests and the holds as they are.
LEMMA ExtendedTables ==
    ASSUME Own!CacheInv, TablesFit, NEW r \in Requests, NEW n \in 1..Len(Content[r]),
           n >= OwnedTokens[r], Extends(r, n),
           Deferred' = Deferred \ {r}, \A d \in Deferred' : held'[d] = held[d],
           \A d \in Deferred' : tokens'[d] = tokens[d]
    PROVE  Own!CacheInv' /\ TablesFit' /\ computed' = [computed EXCEPT ![r] = n]
<1> DEFINE tbl == Owned[r] \o SubSeq(freeQueue, 1, Cdiv(n, BlockSize) - Len(Owned[r]))
           full == Floor(n, BlockSize)
<1>0. /\ table' = [table EXCEPT ![r] = tbl] /\ numCached' = [numCached EXCEPT ![r] = full]
      /\ computed' = [computed EXCEPT ![r] = n]
      /\ assigned' = [b \in Blocks |->
              IF \E i \in (Floor(OwnedTokens[r], BlockSize) + 1)..Len(tbl) : tbl[i] = b
                 THEN DataOf(r, CHOOSE i \in DOMAIN tbl : tbl[i] = b, n)
                 ELSE assigned[b]]
      /\ due' = [due EXCEPT ![r] =
              @ \cup {tbl[i] : i \in (Floor(OwnedTokens[r], BlockSize) + 1)..Len(tbl)}]
  BY DEF Extends
<1>1. Own!CacheInv'
  BY ExtendKeeps
<1> HIDE DEF tbl
<1>2. table'[r] \in Seq(Blocks)
  <2>1. Own!BooksTypeOK'
    BY <1>1 DEF Own!CacheInv
  <2>2. Owned'[r] \in Seq(Blocks)
    BY <2>1 DEF Own!BooksTypeOK, Own!Blocks, Blocks
  <2>3. Owned'[r] = table'[r]
    BY DEF Owned
  <2> QED
    BY <2>2, <2>3
<1>3. table' \in [Requests -> Seq(Blocks)]
  <2>1. \A q \in Requests : table'[q] \in Seq(Blocks)
    BY <1>0, <1>2 DEF TablesFit
  <2>2. DOMAIN table' = Requests /\ table' = [q \in Requests |-> table'[q]]
    BY <1>0 DEF TablesFit
  <2> QED
    BY <2>1, <2>2
<1>4. Floor(n, BlockSize) \in Nat /\ n \in Nat
  <2>1. n \in Nat
    BY CacheAssumption
  <2>2. Own!Floor(n, BlockSize) \in Nat
    BY <2>1, OwnAssumptions, Own!Floors
  <2> QED
    BY <2>1, <2>2 DEF Own!Floor, Floor
<1>5. numCached' \in [Requests -> Nat] /\ computed' \in [Requests -> Nat]
  BY <1>0, <1>4 DEF TablesFit
<1>6. ASSUME NEW d \in Deferred'
      PROVE  /\ held'[d] \in Seq(Blocks)
             /\ table'[d] = <<>> /\ numCached'[d] = 0 /\ computed'[d] = 0
             /\ HitTokens(d)' < tokens'[d]
  <2>1. d \in Deferred /\ d # r /\ d \in Requests
    BY DEF TablesFit
  <2>2. table'[d] = table[d] /\ numCached'[d] = numCached[d] /\ computed'[d] = computed[d]
    BY <1>0, <2>1 DEF TablesFit
  <2>3. HitTokens(d)' = HitTokens(d)
    BY DEF HitTokens
  <2> QED
    BY <2>1, <2>2, <2>3 DEF TablesFit
<1>7. Deferred' \subseteq Requests
  BY DEF TablesFit
<1>8. Blocks' = Blocks
  BY DEF Blocks
<1>9. assigned' = [b \in Blocks |-> assigned'[b]] /\ due' = [q \in Requests |-> due'[q]]
  <2>1. PICK W : due' = [due EXCEPT ![r] = W]
    BY <1>0
  <2>2. due' = [q \in Requests |-> due'[q]]
    BY <2>1 DEF TablesFit
  <2> QED
    BY <1>0, <2>2
<1>10. TablesFit'
  BY <1>3, <1>5, <1>6, <1>7, <1>8, <1>9 DEF TablesFit
<1> QED
  BY <1>0, <1>1, <1>10

\* A running request gets slots for more of its tokens.
LEMMA RunningExtends ==
    ASSUME Own!CacheInv, TablesFit, NEW r \in Requests, r \notin Deferred,
           NEW n \in 1..Len(Content[r]), n >= computed[r],
           AllocateSlots(r, <<>>, n), UNCHANGED <<held, tokens>>
    PROVE  /\ Own!CacheInv' /\ TablesFit'
           /\ Deferred' = Deferred /\ computed' = [computed EXCEPT ![r] = n]
<1>1. AllocateFrom(refCnt, freeQueue, r, <<>>, n) /\ n \in Nat
  BY CacheAssumption DEF AllocateSlots
<1>2. /\ Owned[r] = table[r] /\ OwnedFull[r] = numCached[r] /\ OwnedTokens[r] = computed[r]
      /\ Owned[r] = <<>> => OwnedTokens[r] = 0 /\ OwnedFull[r] = 0
  BY NoBlocksNoTokens
<1>3. freeQueue \in Seq(Blocks) /\ refCnt \in [Blocks -> Nat] /\ Len(freeQueue) \in Nat
  BY OwnFacts
<1>4. /\ <<>> \in Seq(Blocks) /\ ToSet(<<>>) = {}
      /\ table[r] \o <<>> = table[r] /\ table[r] \in Seq(Blocks)
  BY ConcatEmptySeq DEF ToSet, TablesFit
<1>5. Touched(freeQueue, <<>>) = freeQueue
  BY <1>3, <1>4, TouchNothing DEF Touched
<1>6. NewBlockCount(r, <<>>, n) <= Len(freeQueue)
  <2>1. Cardinality({b \in ToSet(<<>>) : refCnt[b] = 0}) = 0
    <3>1. {b \in ToSet(<<>>) : refCnt[b] = 0} = {}
      BY <1>4
    <3> QED
      BY <3>1, FS_EmptySet
  <2>2. BlocksToAllocate(refCnt, r, <<>>, n) <= Len(freeQueue)
    BY <1>1, Zenon DEF AllocateFrom
  <2>3. Cdiv(n, BlockSize) \in Nat /\ Len(table[r]) \in Nat /\ Len(<<>>) = 0
    <3>1. Own!Cdiv(n, BlockSize) \in Nat
      BY <1>1, OwnAssumptions, Own!Ceilings
    <3> QED
      BY <1>4, <3>1 DEF Own!Cdiv, Cdiv
  <2> QED
    BY <1>3, <2>1, <2>2, <2>3 DEF BlocksToAllocate, NewBlockCount
<1>7. Deferred' = Deferred /\ Deferred' = Deferred \ {r}
  BY DEF Deferred
<1>8. /\ (IF table[r] = <<>> THEN Len(<<>>) ELSE numCached[r]) = OwnedFull[r]
      /\ (IF table[r] = <<>> THEN Len(<<>>) * BlockSize ELSE computed[r]) = OwnedTokens[r]
  <2>1. Len(<<>>) * BlockSize = 0
    BY CacheAssumption
  <2> QED
    BY <1>2, <2>1
<1>9. Extends(r, n)
  <2>1. \A b \in Blocks : refCnt[b] = IF b \in ToSet(<<>>) THEN refCnt[b] + 1 ELSE refCnt[b]
    BY <1>4
  <2>2. ToSet(<<>>) \cap ToSet(freeQueue) = {} /\ table[r] \o <<>> = Owned[r]
    BY <1>2, <1>4
  <2>3. Deferred' = Deferred \ {r} /\ \A d \in Deferred' : held'[d] = held[d]
    BY <1>7
  <2>4. IsReleased(refCnt, freeQueue, r, <<>>)
    BY <1>4, <1>5, <1>8, <2>1, <2>2 DEF IsReleased
  <2> QED
    BY <1>1, <1>6, <2>3, <2>4, AllocationExtends
<1> QED
  BY <1>2, <1>7, <1>9, ExtendedTables

\* What the blocks of a hold are after its release, before they are taken again.
LEMMA ReleasedHold ==
    ASSUME Own!CacheInv, TablesFit, NEW r \in Deferred
    PROVE  /\ Touched(ReleasedQueue(r), held[r]) = freeQueue
           /\ \A b \in Blocks : refCnt[b] = IF b \in ToSet(held[r]) THEN ReleasedRefs(r)[b] + 1
                                            ELSE ReleasedRefs(r)[b]
           /\ Len(ReleasedQueue(r)) =
                 Len(freeQueue) + Cardinality({b \in ToSet(held[r]) : ReleasedRefs(r)[b] = 0})
           /\ Cardinality({b \in ToSet(held[r]) : ReleasedRefs(r)[b] = 0}) \in Nat
<1> DEFINE mine == ToSet(held[r])
           back == Reverse(held[r])
           last == {b \in mine : ReleasedRefs(r)[b] = 0}
           freed == Unreferenced(back)
<1>1. /\ r \in Requests /\ Owned[r] = held[r] /\ held[r] \in Seq(Blocks) /\ IsInjective(held[r])
      /\ freeQueue \in Seq(Blocks) /\ refCnt \in [Blocks -> Nat]
      /\ mine \subseteq Blocks /\ ToSet(freeQueue) \cap mine = {}
  BY NoBlocksNoTokens, OwnFacts, FreeUnowned DEF TablesFit
<1>2. back \in Seq(Blocks) /\ IsInjective(back) /\ ToSet(back) = mine
  BY <1>1, ReverseProperties
<1>3. /\ freed \in Seq(Blocks) /\ IsInjective(freed)
      /\ ToSet(freed) = mine \ StillShared(mine)
  BY <1>2, RemovedProperties DEF Unreferenced
<1>4. mine \ StillShared(mine) = last
  BY <1>1 DEF StillShared, ReleasedRefs
<1> HIDE DEF freed, back
<1>5. ReleasedQueue(r) = freeQueue \o freed
  BY DEF ReleasedQueue, AppendN, freed, back
<1>6. Len(freed) = Cardinality(last) /\ Len(freed) \in Nat
  <2>1. ToSet(freed) = last
    BY <1>3, <1>4
  <2>2. freed \in Seq(Blocks) /\ IsInjective(freed)
    BY <1>3
  <2>3. Cardinality(ToSet(freed)) = Len(freed)
    BY <2>2, InjectiveLength
  <2>4. Len(freed) \in Nat
    BY <2>2
  <2> QED
    BY <2>1, <2>3, <2>4
<1>7. Touched(ReleasedQueue(r), held[r]) = freeQueue
  <2>1. ToSet(freed) \subseteq mine
    BY <1>3
  <2>2. Removed(freeQueue \o freed, mine) = freeQueue
    <3> HIDE DEF mine
    <3> QED
      BY <1>1, <1>3, <2>1, RemovedSuffix
  <2> QED
    BY <1>5, <2>2 DEF Touched
<1>8. Len(ReleasedQueue(r)) = Len(freeQueue) + Len(freed)
  BY <1>1, <1>3, <1>5, ConcatProperties
<1>9. \A b \in Blocks :
        refCnt[b] = IF b \in mine THEN ReleasedRefs(r)[b] + 1 ELSE ReleasedRefs(r)[b]
  BY <1>1 DEF ReleasedRefs, DropRefs
<1> QED
  BY <1>6, <1>7, <1>8, <1>9

\* A deferred request that is scheduled takes the blocks that it holds.
LEMMA HoldExtends ==
    ASSUME Own!CacheInv, TablesFit, NEW r \in Deferred,
           NEW n \in 1..Len(Content[r]), n >= HitTokens(r),
           AllocateFrom(ReleasedRefs(r), ReleasedQueue(r), r, held[r], n),
           held' = Dropped(r), UNCHANGED tokens
    PROVE  /\ Own!CacheInv' /\ TablesFit'
           /\ Deferred' = Deferred \ {r} /\ computed' = [computed EXCEPT ![r] = n]
<1>1. /\ r \in Requests /\ held[r] \in Seq(Blocks) /\ table[r] = <<>>
      /\ Owned[r] = held[r] /\ OwnedFull[r] = Len(held[r]) /\ OwnedTokens[r] = HitTokens(r)
  BY NoBlocksNoTokens DEF TablesFit
<1>2. n \in Nat
  BY <1>1, CacheAssumption
<1>3. freeQueue \in Seq(Blocks) /\ Len(freeQueue) \in Nat
  BY OwnFacts
<1>4. ToSet(held[r]) \cap ToSet(freeQueue) = {}
  BY <1>1, FreeUnowned
<1>5. table[r] \o held[r] = Owned[r]
  BY <1>1, ConcatEmptySeq
<1>6. NewBlockCount(r, held[r], n) <= Len(freeQueue)
  <2>1. BlocksToAllocate(ReleasedRefs(r), r, held[r], n) <= Len(ReleasedQueue(r))
    BY Zenon DEF AllocateFrom
  <2>2. Cdiv(n, BlockSize) \in Nat /\ Len(table[r]) \in Nat /\ Len(held[r]) \in Nat
    <3>1. Own!Cdiv(n, BlockSize) \in Nat
      BY <1>2, OwnAssumptions, Own!Ceilings
    <3> QED
      BY <1>1, <3>1 DEF Own!Cdiv, Cdiv
  <2>3. /\ Len(ReleasedQueue(r)) =
              Len(freeQueue) + Cardinality({b \in ToSet(held[r]) : ReleasedRefs(r)[b] = 0})
        /\ Cardinality({b \in ToSet(held[r]) : ReleasedRefs(r)[b] = 0}) \in Nat
    BY ReleasedHold
  <2> QED
    BY <1>3, <2>1, <2>2, <2>3 DEF BlocksToAllocate, NewBlockCount
<1>7. Deferred' = Deferred \ {r} /\ \A d \in Deferred' : held'[d] = held[d]
  BY DEF Dropped, Deferred
<1>8. /\ (IF table[r] = <<>> THEN Len(held[r]) ELSE numCached[r]) = OwnedFull[r]
      /\ (IF table[r] = <<>> THEN Len(held[r]) * BlockSize ELSE computed[r]) = OwnedTokens[r]
  BY <1>1 DEF HitTokens
<1>9. Extends(r, n)
  <2>1. /\ Touched(ReleasedQueue(r), held[r]) = freeQueue
        /\ \A b \in Blocks : refCnt[b] = IF b \in ToSet(held[r]) THEN ReleasedRefs(r)[b] + 1
                                         ELSE ReleasedRefs(r)[b]
    BY ReleasedHold
  <2>2. IsReleased(ReleasedRefs(r), ReleasedQueue(r), r, held[r])
    BY <1>1, <1>4, <1>5, <1>8, <2>1 DEF IsReleased
  <2> QED
    BY <1>1, <1>2, <1>6, <1>7, <2>2, AllocationExtends
<1> QED
  BY <1>1, <1>7, <1>9, ExtendedTables

\* Whole blocks.
LEMMA WholeBlocks ==
    ASSUME NEW l \in Nat
    PROVE  /\ l * BlockSize \in Nat /\ (l > 0 => l * BlockSize > 0)
           /\ Cdiv(l * BlockSize, BlockSize) = l
           /\ Floor(l * BlockSize, BlockSize) = l
<1>1. /\ BlockSize \in Nat \ {0}
      /\ \A i, j \in Nat : /\ i * BlockSize \in Nat
                           /\ i <= j <=> i * BlockSize <= j * BlockSize
                           /\ i > 0 => i * BlockSize > 0
  BY OwnAssumptions, Own!Products
<1> DEFINE m == l * BlockSize
           c == Own!Cdiv(m, BlockSize)
           f == Own!Floor(m, BlockSize)
<1>2. m \in Nat
  BY <1>1
<1>3. c \in Nat /\ \A i \in Nat : i < c <=> i * BlockSize < m
  BY <1>2, OwnAssumptions, Own!Ceilings
<1>4. f \in Nat /\ \A i \in Nat : i <= f <=> i * BlockSize <= m
  BY <1>2, OwnAssumptions, Own!Floors
<1> HIDE DEF m, c, f
<1>5. \A i \in Nat : i * BlockSize <= m <=> i <= l
  BY <1>1 DEF m
<1>6. f = l
  BY <1>4, <1>5
<1>7. \A i \in Nat : i < c <=> i < l
  <2> SUFFICES ASSUME NEW i \in Nat PROVE i < c <=> i < l
    OBVIOUS
  <2>1. l <= i <=> m <= i * BlockSize
    BY <1>1 DEF m
  <2>2. i * BlockSize \in Nat
    BY <1>1
  <2> QED
    BY <1>2, <1>3, <2>1, <2>2
<1>8. c = l
  BY <1>3, <1>7
<1> QED
  BY <1>1, <1>2, <1>6, <1>8 DEF m, c, f, Own!Cdiv, Cdiv, Own!Floor, Floor

\* The prefix lookup is the same one.
LEMMA SameHits ==
    ASSUME NEW r, NEW len
    PROVE  Own!HitBlocks(r, len) = HitBlocks(r, len) /\ Own!HitLength(r, len) = HitLength(r, len)
  BY DEF Own!HitBlocks, HitBlocks, Own!HitLength, HitLength, Own!MaxHit, MaxHit, Own!IsHit, IsHit,
         Own!LookUp, LookUp, Own!HashOf, HashOf, Own!Floor, Floor

\* The preview reserves the blocks of a prefix hit for a request that waits.
LEMMA ReserveKeeps ==
    ASSUME Own!CacheInv, TablesFit, NEW r \in Requests, r \notin Deferred, table[r] = <<>>,
           due[r] = {}, tokens[r] \in 1..Len(Content[r]), NEW hits, hits = HitBlocks(r, tokens[r]),
           held' = [d \in Deferred \cup {r} |-> IF d = r THEN hits ELSE held[d]],
           Reserve(hits), UNCHANGED tokens
    PROVE  /\ Own!CacheInv' /\ TablesFit'
           /\ Deferred' = Deferred \cup {r} /\ computed' = computed
<1> DEFINE n == Len(hits) * BlockSize
<1>1. /\ refCnt' = AddRefs(refCnt, ToSet(hits)) /\ freeQueue' = Removed(freeQueue, ToSet(hits))
      /\ UNCHANGED <<table, numCached, computed, blockHash, cached, assigned, due, blank>>
  BY DEF Reserve, Touched
<1>2. /\ Owned[r] = <<>> /\ OwnedTokens[r] = 0 /\ OwnedFull[r] = 0
      /\ numCached[r] = 0 /\ computed[r] = 0
  BY NoBlocksNoTokens
<1>3. /\ Own!Found(r, hits) /\ hits \in Seq(Blocks) /\ Len(hits) \in Nat
      /\ Len(hits) * BlockSize < tokens[r]
  <2>1. /\ Own!Found(r, hits) /\ Len(hits) = Own!HitLength(r, tokens[r])
        /\ Own!HitLength(r, tokens[r]) \in Nat
        /\ Own!HitLength(r, tokens[r]) * BlockSize < tokens[r]
    BY <1>2, SameHits, OwnAssumptions, Own!HitsAreFound
  <2>2. hits \in Seq(Blocks)
    BY <2>1 DEF Own!Found, Own!Blocks, Blocks
  <2> QED
    BY <2>1, <2>2
<1>4. Deferred' = Deferred \cup {r} /\ held'[r] = hits /\ \A d \in Deferred : held'[d] = held[d]
  BY DEF Deferred
<1>5. TablesFit'
  <2>1. ASSUME NEW d \in Deferred'
        PROVE  /\ held'[d] \in Seq(Blocks)
               /\ table'[d] = <<>> /\ numCached'[d] = 0 /\ computed'[d] = 0
               /\ HitTokens(d)' < tokens'[d]
    <3>1. CASE d = r
      BY <1>1, <1>2, <1>3, <1>4, <3>1 DEF HitTokens
    <3>2. CASE d # r
      BY <1>1, <1>4, <3>2 DEF HitTokens, TablesFit
    <3> QED
      BY <3>1, <3>2
  <2>2. Blocks' = Blocks
    BY DEF Blocks
  <2> QED
    BY <1>1, <1>4, <2>1, <2>2 DEF TablesFit
<1>6. /\ Owned \in [Requests -> Seq(Blocks)] /\ OwnedFull \in [Requests -> Nat]
      /\ OwnedTokens \in [Requests -> Nat] /\ refCnt \in [Blocks -> Nat]
      /\ freeQueue \in Seq(Blocks) /\ IsInjective(freeQueue)
      /\ blockHash \in [Blocks -> Hashes \cup {NoHash}]
      /\ cached \in [Hashes -> Seq(Blocks)]
      /\ ToSet(freeQueue) = {b \in Blocks : refCnt[b] = 0}
  BY OwnFacts DEF Owned, OwnedFull, OwnedTokens
<1>7. n \in Nat /\ (Len(hits) > 0 => n > 0) /\ Cdiv(n, BlockSize) = Len(hits)
      /\ Floor(n, BlockSize) = Len(hits)
  BY <1>3, WholeBlocks
<1> HIDE DEF n
<1>8. /\ Owned' = [Owned EXCEPT ![r] = hits]
      /\ OwnedFull' = [OwnedFull EXCEPT ![r] = Len(hits)]
      /\ OwnedTokens' = [OwnedTokens EXCEPT ![r] = n]
  BY <1>1, <1>4, <1>6 DEF Owned, OwnedFull, OwnedTokens, HitTokens, n
<1>9. CASE hits = <<>>
  <2>1. Len(hits) = 0 /\ n = 0 /\ ToSet(hits) = {}
    <3>1. 0 * BlockSize = 0
      BY CacheAssumption
    <3> QED
      BY <1>9, <3>1 DEF n, ToSet
  <2>2. refCnt' = refCnt
    BY <1>1, <1>6, <2>1 DEF AddRefs
  <2>3. freeQueue' = freeQueue
    BY <1>1, <1>6, <2>1, TouchNothing
  <2>4. Owned' = Owned /\ OwnedFull' = OwnedFull /\ OwnedTokens' = OwnedTokens
    BY <1>2, <1>6, <1>8, <1>9, <2>1
  <2>5. UNCHANGED Own!kv
    BY <1>1, <2>2, <2>3, <2>4 DEF Own!kv
  <2> QED
    BY <1>1, <1>4, <1>5, <2>5, OwnAssumptions, Own!CacheStays
<1>10. CASE hits # <<>>
  <2>1. n \in 1..Len(Content[r])
    <3>1. Len(hits) > 0 /\ Len(Content[r]) \in Nat /\ tokens[r] \in Nat
          /\ tokens[r] <= Len(Content[r])
      BY <1>3, <1>10, CacheAssumption
    <3> QED
      BY <1>3, <1>7, <3>1 DEF n
  <2>2. n >= Own!Ready(r, hits)
    BY <1>2, <1>7 DEF Own!Ready, n
  <2>3. Own!AllocateSlots(r, hits, n)
    <3> DEFINE K == Own!NewBlockCount(r, hits, n)
               Q == Own!Touched(freeQueue, hits)
               W == Own!Popped(Q, K)
               B == Owned[r] \o hits \o W
               L == IF Owned[r] = <<>> THEN Len(hits) ELSE OwnedFull[r]
               U == Own!Floor(n, BlockSize)
               P == IF Owned[r] = <<>> THEN Len(hits) * BlockSize ELSE OwnedTokens[r]
    <3>1. K = 0
      BY <1>2, <1>3, <1>7 DEF Own!NewBlockCount, Own!Cdiv, Cdiv
    <3>2. Q = freeQueue' /\ Q \in Seq(Blocks)
      <4>1. Q = Removed(freeQueue, ToSet(hits))
        BY SameLists DEF Own!Touched
      <4>2. Removed(freeQueue, ToSet(hits)) \in Seq(Blocks)
        BY <1>6, RemovedProperties
      <4> QED
        BY <1>1, <4>1, <4>2
    <3>3. L = Len(hits) /\ P = n /\ U = Len(hits) /\ Own!Floor(P, BlockSize) = Len(hits)
      BY <1>2, <1>7 DEF n, Own!Floor, Floor
    <3> HIDE DEF K, Q
    <3>4. W = <<>> /\ Own!ToSet(W) = {}
      <4>1. W = <<>>
        BY <3>1, <3>2 DEF Own!Popped
      <4>2. Own!ToSet(<<>>) = {}
        BY DEF Own!ToSet
      <4> QED
        BY <4>1, <4>2
    <3> HIDE DEF W
    <3>5. B = hits
      BY <1>2, <1>3, <3>4, ConcatEmptySeq
    <3> HIDE DEF B, L, U, P
    <3>6. freeQueue' = Own!AfterPop(Q, K)
      <4>1. SubSeq(Q, 1, Len(Q)) = Q
        BY <3>2
      <4> QED
        BY <3>1, <3>2, <4>1 DEF Own!AfterPop
    <3>7. refCnt' = Own!AddRefs(refCnt, Own!ToSet(hits) \cup Own!ToSet(W))
      BY <1>1, <3>4, SameLists DEF Own!AddRefs, AddRefs, Own!Blocks, Blocks
    <3>8. Owned' = [Owned EXCEPT ![r] = B]
      BY <1>8, <3>5
    <3>9. (L + 1)..U = {} /\ (Own!Floor(P, BlockSize) + 1)..Len(B) = {}
      BY <1>3, <3>3, <3>5
    <3>10. blockHash' = [b \in Own!Blocks |->
                  IF \E i \in (L + 1)..U : B[i] = b
                     THEN Own!HashOf(r, CHOOSE i \in (L + 1)..U : B[i] = b)
                     ELSE IF b \in Own!ToSet(W) THEN Own!NoHash ELSE blockHash[b]]
      BY <1>1, <1>6, <3>4, <3>9 DEF Own!Blocks, Blocks
    <3>11. assigned' = [b \in Own!Blocks |->
                  IF \E i \in (Own!Floor(P, BlockSize) + 1)..Len(B) : B[i] = b
                     THEN Own!DataOf(r, CHOOSE i \in DOMAIN B : B[i] = b, n)
                     ELSE assigned[b]]
      BY <1>1, <3>9 DEF Own!Blocks, Blocks, TablesFit
    <3>12. Own!Evict(cached, W) = cached
      <4>1. \A h \in Hashes : Removed(cached[h], {}) = cached[h]
        <5> SUFFICES ASSUME NEW h \in Hashes PROVE Removed(cached[h], {}) = cached[h]
          OBVIOUS
        <5>1. cached[h] \in Seq(Blocks) /\ ToSet(cached[h]) \cap {} = {}
          BY <1>6
        <5> QED
          BY <5>1, TouchNothing
      <4>2. Own!Hashes = Hashes
        BY DEF Own!Hashes, Hashes, Own!HashOf, HashOf, Own!FullBlocks, FullBlocks, Own!Floor, Floor
      <4>3. Own!Evict(cached, W) = [h \in Hashes |-> Removed(cached[h], {})]
        BY <3>4, <4>2, SameLists DEF Own!Evict
      <4> QED
        BY <1>6, <4>1, <4>3
    <3>13. cached' = Own!CacheFull(Own!Evict(cached, W), r, B, L, U)
      <4>1. \A h : {i \in (L + 1)..U : Own!HashOf(r, i) = h} = {}
        BY <3>9
      <4>2. Own!Hashes = Hashes
        BY DEF Own!Hashes, Hashes, Own!HashOf, HashOf, Own!FullBlocks, FullBlocks, Own!Floor, Floor
      <4>3. Own!CacheFull(cached, r, B, L, U) = [h \in Hashes |-> cached[h]]
        BY <4>1, <4>2 DEF Own!CacheFull
      <4> QED
        BY <1>1, <1>6, <3>12, <4>3
    <3>14. /\ OwnedFull' = [OwnedFull EXCEPT ![r] = U]
           /\ OwnedTokens' = [OwnedTokens EXCEPT ![r] = n]
      BY <1>8, <3>3
    <3>15. Own!BlocksToAllocate(refCnt, r, hits, n) <= Len(freeQueue)
      <4> DEFINE F == {b \in ToSet(hits) : refCnt[b] = 0}
      <4>1. F \subseteq ToSet(freeQueue)
        BY <1>3, <1>6, ElementsType
      <4>2. IsFiniteSet(ToSet(freeQueue)) /\ Cardinality(ToSet(freeQueue)) = Len(freeQueue)
        BY <1>6, InjectiveLength
      <4>3. IsFiniteSet(F) /\ Cardinality(F) <= Len(freeQueue) /\ Cardinality(F) \in Nat
        <5> HIDE DEF F
        <5> QED
          BY <4>1, <4>2, FS_Subset, FS_CardinalityType
      <4>4. Own!BlocksToAllocate(refCnt, r, hits, n)
              = K + Own!Cardinality({b \in Own!ToSet(hits) : refCnt[b] = 0})
        BY DEF Own!BlocksToAllocate, K, Own!NewBlockCount
      <4>5. Own!Cardinality({b \in Own!ToSet(hits) : refCnt[b] = 0}) = Cardinality(F)
        <5>1. {b \in Own!ToSet(hits) : refCnt[b] = 0} = F
          BY SameLists
        <5> HIDE DEF F
        <5>2. Own!Cardinality(F) = Cardinality(F)
          BY DEF Own!Cardinality, Cardinality
        <5> QED
          BY <5>1, <5>2
      <4> HIDE DEF F
      <4> QED
        BY <3>1, <4>3, <4>4, <4>5
    <3>16. /\ due' = [due EXCEPT ![r] =
                  @ \cup {B[i] : i \in (Own!Floor(P, BlockSize) + 1)..Len(B)}]
           /\ blank' = blank \ Own!ToSet(W)
      <4>1. {B[i] : i \in (Own!Floor(P, BlockSize) + 1)..Len(B)} = {}
        BY <3>9
      <4> QED
        BY <1>1, <3>4, <4>1 DEF TablesFit
    <3>17. Own!AllocateFrom(refCnt, freeQueue, r, hits, n)
      BY <3>6, <3>7, <3>8, <3>10, <3>11, <3>13, <3>14, <3>15, <3>16, Zenon
         DEF Own!AllocateFrom, K, Q, W, B, L, U, P
    <3> QED
      BY <3>17 DEF Own!AllocateSlots
  <2> QED
    BY <1>1, <1>3, <1>4, <1>5, <2>1, <2>2, <2>3, OwnAssumptions, Own!AllocateKeeps
<1> QED
  BY <1>9, <1>10

\* The requests that wait, in the order of the queue.
Line == skipped \o waiting
Scheduled == {b.req : b \in ToSet(batch)}

\* The lists hold the requests of their status, once each; only those that wait
\* hold; the skipped ones go back before the step ends.
ListsFit ==
    /\ IsInjective(running) /\ ToSet(running) = {r \in Requests : status[r] = "running"}
    /\ IsInjective(Line) /\ ToSet(Line) = {r \in Requests : status[r] \in {"waiting", "preempted"}}
    /\ Deferred \subseteq ToSet(Line)
    /\ pc \notin {"waiting", "commit"} => skipped = <<>>

\* A request has tokens in the cache exactly if it runs, and all of them only
\* from being scheduled until its output is handled.
TokensFit ==
    \A r \in Requests :
        /\ computed[r] > 0 <=> status[r] = "running"
        /\ computed[r] <= tokens[r]
        /\ r \notin Scheduled => computed[r] < tokens[r]
        /\ status[r] # "finished" => tokens[r] < Len(Content[r])

\* The step has scheduled running requests, once each.
BatchFits ==
    /\ \A i, j \in DOMAIN batch : i # j => batch[i].req # batch[j].req
    /\ \A r \in Scheduled : status[r] = "running"
    /\ pc \in {"input", "preview"} => batch = <<>>

\* The RUNNING loop has not scheduled what it has not come to.
LoopFits ==
    /\ pc \in {"running", "alloc"} =>
          \A i \in DOMAIN running : i >= index => running[i] \notin Scheduled
    /\ pc = "alloc" => index \in DOMAIN running /\ current = running[index] /\ budget > 0

LightInv ==
    /\ Own!CacheInv /\ PolicyTypes /\ TablesFit /\ ListsFit
    /\ TokensFit /\ BatchFits /\ LoopFits /\ AdmittedBound

\* What the step being scheduled is to write belongs to the requests it has
\* scheduled, and nothing was given up unwritten: the last running request, which
\* is preempted, is never one of them.
InStep == pc \in {"running", "alloc", "waiting", "commit"}
StepWrites ==
    /\ due \in [Requests -> SUBSET Blocks] /\ blank = {}
    /\ \A r \in Requests : due[r] # {} => InStep /\ r \in Scheduled

-----------------------------------------------------------------------------
\* The invariant holds in the beginning.
LEMMA LightInitHolds == Init => LightInv /\ StepWrites
<1> SUFFICES ASSUME Init PROVE LightInv /\ StepWrites
  OBVIOUS
<1>1. /\ CacheInit /\ held = <<>> /\ status = [r \in Requests |-> "new"] /\ tokens = Prompt
      /\ running = <<>> /\ waiting = <<>> /\ skipped = <<>> /\ batch = <<>>
  BY DEF Init
<1>2. Deferred = {}
  BY <1>1 DEF Deferred
<1>3. /\ table = [r \in Requests |-> <<>>] /\ numCached = [r \in Requests |-> 0]
      /\ computed = [r \in Requests |-> 0] /\ assigned = [b \in Blocks |-> <<>>]
      /\ due = [r \in Requests |-> {}] /\ blank = {}
  BY <1>1 DEF CacheInit
<1>4. Own!CacheInv
  <2>1. /\ Owned = [r \in Requests |-> <<>>] /\ OwnedFull = [r \in Requests |-> 0]
        /\ OwnedTokens = [r \in Requests |-> 0]
    BY <1>2, <1>3 DEF Owned, OwnedFull, OwnedTokens
  <2>2. Own!CacheInit
    BY <1>1, <2>1 DEF CacheInit, Own!CacheInit, Own!Blocks, Blocks, Own!NoHash, NoHash,
                      Own!Hashes, Hashes, Own!HashOf, HashOf, Own!FullBlocks, FullBlocks,
                      Own!Floor, Floor
  <2> QED
    BY <2>2, OwnAssumptions, Own!CacheInitHolds
<1>5. \A r \in Requests : /\ Prompt[r] \in Nat /\ Prompt[r] > 0 /\ Prompt[r] < Len(Content[r])
                          /\ Len(Content[r]) \in Nat
  BY PolicyAssumption, CacheAssumption
<1>6. PolicyTypes
  <2>1. /\ pc = "input" /\ fresh = {} /\ selected = {} /\ index = 1 /\ current = None /\ budget = 0
        /\ ema = InitialEma
    BY DEF Init
  <2>2. busy \in BOOLEAN /\ prefill \in BOOLEAN /\ unreported \in BOOLEAN /\ preempted \in BOOLEAN
    BY DEF Init
  <2>3. 0 \in 0..MaxBatch /\ InitialEma \in Nat /\ InitialEma >= MinOutput
    BY PolicyAssumption
  <2>4. tokens \in [Requests -> Nat] /\ \A r \in Requests : tokens[r] \in Prompt[r]..Len(Content[r])
    BY <1>1, <1>5, PolicyAssumption
  <2>5. status \in [Requests -> {"new", "waiting", "running", "preempted", "finished"}]
    BY <1>1
  <2>6. /\ running \in Seq(Requests) /\ waiting \in Seq(Requests) /\ skipped \in Seq(Requests)
        /\ batch \in Seq([req : Requests, num : 1..MaxBatch])
    BY <1>1
  <2> QED
    BY <2>1, <2>2, <2>3, <2>4, <2>5, <2>6 DEF PolicyTypes
<1>7. TablesFit
  BY <1>2, <1>3 DEF TablesFit
<1>8. Line = <<>> /\ ToSet(<<>>) = {} /\ IsInjective(<<>>)
  BY <1>1 DEF Line, ToSet, IsInjective
<1>9. ListsFit
  BY <1>1, <1>2, <1>8 DEF ListsFit
<1>10. Scheduled = {}
  BY <1>1, <1>8 DEF Scheduled
<1>11. TokensFit
  BY <1>1, <1>3, <1>5 DEF TokensFit
<1>12. BatchFits /\ LoopFits
  BY <1>1, <1>10 DEF Init, BatchFits, LoopFits
<1>13. AdmittedBound
  <2>1. Cardinality(Deferred) = 0
    BY <1>2, FS_EmptySet
  <2> QED
    BY <1>1, <2>1, PolicyAssumption DEF AdmittedBound
<1>14. StepWrites
  BY <1>3 DEF StepWrites
<1> QED
  BY <1>4, <1>6, <1>7, <1>9, <1>11, <1>12, <1>13, <1>14 DEF LightInv

\* Steps that move neither blocks nor requests.
LEMMA ListsKeep ==
    ASSUME LightInv, UNCHANGED <<books, status, tokens, running, held, batch>>, Line' = Line,
           due' = [r \in Requests |-> due'[r]],
           PolicyTypes', LoopFits',
           pc' \notin {"waiting", "commit"} => skipped' = <<>>,
           pc' \in {"input", "preview"} => batch = <<>>
    PROVE  LightInv'
<1>1. Deferred' = Deferred /\ computed' = computed /\ table' = table /\ numCached' = numCached
  BY DEF Deferred, books
<1>2. Own!CacheInv'
  BY OwnStays DEF LightInv
<1>3. TablesFit'
  BY <1>1 DEF LightInv, TablesFit, HitTokens, Blocks, books
<1>4. ListsFit'
  BY <1>1 DEF LightInv, ListsFit
<1>5. Scheduled' = Scheduled
  BY DEF Scheduled
<1>6. TokensFit' /\ BatchFits'
  BY <1>1, <1>5 DEF LightInv, TokensFit, BatchFits
<1>7. AdmittedBound'
  BY <1>1 DEF LightInv, AdmittedBound
<1> QED
  BY <1>2, <1>3, <1>4, <1>6, <1>7 DEF LightInv

\* Steps that leave the cache alone.
LEMMA ControlKeeps ==
    ASSUME LightInv, UNCHANGED <<kv, status, tokens, running, held, batch>>, Line' = Line,
           PolicyTypes', LoopFits',
           pc' \notin {"waiting", "commit"} => skipped' = <<>>,
           pc' \in {"input", "preview"} => batch = <<>>
    PROVE  LightInv'
<1>1. UNCHANGED books /\ due' = due
  BY DEF kv, books
<1>2. due' = [r \in Requests |-> due'[r]]
  BY <1>1 DEF LightInv, TablesFit
<1> QED
  BY <1>1, <1>2, ListsKeep

\* _lightllm_prepare_step begins.
LEMMA BeginScheduleLight ==
    ASSUME LightInv, BeginSchedule
    PROVE  LightInv' /\ Line' = Line
<1>1. /\ pc = "input" /\ pc' = "preview" /\ fresh' = {}
      /\ busy' = (NumBlocks - Len(freeQueue) >= BusyBlocks)
      /\ UNCHANGED <<kv, status, tokens, running, waiting, held, ema, unreported, prefill, selected,
                     index, current, budget, batch, preempted, skipped>>
  BY DEF BeginSchedule, queues, step
<1>2. busy' \in BOOLEAN
  BY <1>1
<1>3. PolicyTypes'
  BY <1>1, <1>2 DEF LightInv, PolicyTypes
<1>4. LoopFits' /\ Line' = Line
  BY <1>1 DEF LoopFits, Line
<1>5. skipped' = <<>> /\ batch = <<>>
  BY <1>1 DEF LightInv, ListsFit, BatchFits
<1> QED
  BY <1>1, <1>3, <1>4, <1>5, ControlKeeps

\* The loops move on, leave or skip, and the step ends.
LEMMA LoopLight ==
    ASSUME LightInv,
           SkipRunning \/ PickRunning \/ LeaveRunning \/ LeaveWaiting \/ EndOutput \/ UNCHANGED vars
    PROVE  LightInv' /\ Line' = Line
<1> USE DEF LightInv
<1>1. CASE SkipRunning
  <2>1. /\ pc = "running" /\ pc' = pc /\ index' = index + 1
        /\ UNCHANGED <<kv, status, tokens, running, waiting, held, ema, unreported, fresh, busy,
                       prefill, selected, current, budget, batch, preempted, skipped>>
    BY <1>1 DEF SkipRunning, queues, preview
  <2>2. PolicyTypes'
    BY <2>1 DEF PolicyTypes
  <2>3. LoopFits' /\ Line' = Line
    <3>1. \A i \in DOMAIN running : i >= index + 1 => i >= index
      BY DEF PolicyTypes
    <3>2. \A i \in DOMAIN running : i >= index => running[i] \notin Scheduled
      BY <2>1 DEF LoopFits
    <3>3. Scheduled' = Scheduled /\ Line' = Line
      BY <2>1 DEF Scheduled, Line
    <3> QED
      BY <2>1, <3>1, <3>2, <3>3 DEF LoopFits
  <2> QED
    BY <2>1, <2>2, <2>3, ControlKeeps DEF ListsFit
<1>2. CASE PickRunning
  <2>1. /\ pc = "running" /\ pc' = "alloc" /\ current' = running[index]
        /\ index <= Len(running) /\ budget > 0
        /\ UNCHANGED <<kv, status, tokens, running, waiting, held, ema, unreported, fresh, busy,
                       prefill, selected, index, budget, batch, preempted, skipped>>
    BY <1>2 DEF PickRunning, queues, preview
  <2>2. index \in DOMAIN running /\ running[index] \in Requests
    BY <2>1 DEF PolicyTypes
  <2>3. PolicyTypes'
    BY <2>1, <2>2 DEF PolicyTypes
  <2>4. LoopFits' /\ Line' = Line
    BY <2>1, <2>2 DEF LoopFits, Line, Scheduled
  <2> QED
    BY <2>1, <2>3, <2>4, ControlKeeps DEF ListsFit
<1>3. CASE LeaveRunning
  <2>1. /\ pc = "running" /\ pc' \in {"commit", "waiting"}
        /\ UNCHANGED <<kv, status, tokens, running, waiting, held, ema, unreported, fresh, busy,
                       prefill, selected, index, current, budget, batch, preempted, skipped>>
    BY <1>3 DEF LeaveRunning, queues, preview, step
  <2>2. PolicyTypes'
    BY <2>1 DEF PolicyTypes
  <2>3. LoopFits' /\ Line' = Line
    BY <2>1 DEF LoopFits, Line
  <2> QED
    BY <2>1, <2>2, <2>3, ControlKeeps
<1>4. CASE LeaveWaiting
  <2>1. /\ pc' = "commit"
        /\ UNCHANGED <<kv, status, tokens, running, waiting, held, ema, unreported, fresh, busy,
                       prefill, selected, index, current, budget, batch, preempted, skipped>>
    BY <1>4 DEF LeaveWaiting, queues, preview, step
  <2>2. PolicyTypes'
    BY <2>1 DEF PolicyTypes
  <2>3. LoopFits' /\ Line' = Line
    BY <2>1 DEF LoopFits, Line
  <2> QED
    BY <2>1, <2>2, <2>3, ControlKeeps
<1>5. CASE EndOutput
  <2>1. /\ pc = "output" /\ batch = <<>> /\ pc' = "input" /\ index' = 1 /\ budget' = 0
        /\ preempted' = FALSE /\ fresh' = {} /\ busy' = FALSE /\ prefill' = FALSE /\ selected' = {}
        /\ UNCHANGED <<kv, status, tokens, running, waiting, held, ema, unreported, current, batch,
                       skipped>>
    BY <1>5 DEF EndOutput, queues
  <2>2. 0 \in 0..MaxBatch
    BY PolicyAssumption
  <2>3. busy' \in BOOLEAN /\ prefill' \in BOOLEAN /\ preempted' \in BOOLEAN
    BY <2>1
  <2>4. /\ UNCHANGED <<status, tokens, running, waiting, ema, unreported, current, batch, skipped>>
        /\ pc' = "input" /\ index' = 1 /\ budget' = 0 /\ fresh' = {} /\ selected' = {}
    BY <2>1
  <2>5. PolicyTypes'
    BY <2>2, <2>3, <2>4 DEF PolicyTypes
  <2>6. LoopFits' /\ Line' = Line
    BY <2>1 DEF LoopFits, Line
  <2> QED
    BY <2>1, <2>5, <2>6, ControlKeeps DEF ListsFit
<1>6. CASE UNCHANGED vars
  <2>1. UNCHANGED <<kv, status, tokens, running, waiting, held, ema, unreported, pc, fresh, busy,
                    prefill, selected, index, current, budget, batch, preempted, skipped>>
    BY <1>6 DEF vars, queues, preview, step
  <2>2. PolicyTypes'
    BY <2>1 DEF PolicyTypes
  <2>3. LoopFits' /\ Line' = Line
    BY <2>1 DEF LoopFits, Line, Scheduled
  <2> QED
    BY <2>1, <2>2, <2>3, ControlKeeps DEF ListsFit, BatchFits
<1> QED
  BY <1>1, <1>2, <1>3, <1>4, <1>5, <1>6

\* What is packed when one more request is considered.
LEMMA PackType ==
    ASSUME PolicyTypes, TablesFit, NEW p \in [sum : Nat, ids : SUBSET Requests], NEW r \in Requests
    PROVE  Pack(p, r) \in [sum : Nat, ids : SUBSET Requests]
<1>1. Effective(r) \in Nat
  <2>1. ASSUME r \in Deferred PROVE HitTokens(r) \in Nat
    <3>1. Len(held[r]) \in Nat
      BY <2>1 DEF TablesFit
    <3> QED
      BY <3>1, WholeBlocks DEF HitTokens
  <2> QED
    BY <2>1 DEF Effective, TablesFit
<1> DEFINE need == NeedTokens(r, Effective(r))
<1>2. need \in Nat
  BY <1>1, PolicyAssumption DEF NeedTokens, Smallest, Largest, PolicyTypes
<1> HIDE DEF need
<1> DEFINE sum == p.sum + need
<1>3. sum \in Nat /\ p.ids \cup {r} \in SUBSET Requests
  BY <1>2
<1>4. Pack(p, r) = IF IsDecode(r, Effective(r)) \/ sum > MaxBatch THEN p
                   ELSE [sum |-> sum, ids |-> p.ids \cup {r}]
  BY DEF Pack, need
<1> HIDE DEF sum
<1> QED
  BY <1>3, <1>4

\* g packs the first requests of the router's order.
Packs(g, order) ==
    g = [i \in 0..Len(order) |->
            IF i = 0 THEN [sum |-> 0, ids |-> {}] ELSE Pack(g[i - 1], order[i])]

\* The recursion that packs the prefills of the step.
LEMMA PackedIsRecursive == Packed = (CHOOSE g : Packs(g, RouterOrder))[Len(RouterOrder)].ids
  BY DEF Packed, Packs

\* classify_for_model selects requests.
LEMMA PackedType ==
    ASSUME PolicyTypes, TablesFit
    PROVE  Packed \subseteq Requests
<1> DEFINE order == RouterOrder
           n == Len(order)
           D == [sum : Nat, ids : SUBSET Requests]
           c == [sum |-> 0, ids |-> {}]
           F == [p \in (1..n) \X D |-> Pack(p[2], order[p[1]])]
<1>1. order \in Seq(Requests)
  <2>1. /\ running \in Seq(Requests) /\ Kept(waiting, Deferred \ fresh) \in Seq(Requests)
        /\ Kept(waiting, fresh) \in Seq(Requests)
    BY RemovedProperties DEF PolicyTypes, Kept
  <2> QED
    BY <2>1, ConcatProperties DEF RouterOrder
<1> HIDE DEF order
<1>2. n \in Nat /\ c \in D /\ \A i \in 1..n : order[i] \in Requests
  BY <1>1
<1> HIDE DEF D
<1>3. \A i \in 1..n, p \in D : Pack(p, order[i]) \in D
  BY <1>2, PackType DEF D
<1>4. \A i \in 1..n, p \in D : F[<<i, p>>] = Pack(p, order[i])
  OBVIOUS
<1>5. F \in [(1..n) \X D -> D]
  <2>1. \A p \in (1..n) \X D : Pack(p[2], order[p[1]]) \in D
    BY <1>3
  <2> QED
    BY <2>1
<1>6. PICK g : Recursion(g, c, F, n, D)
  <2> HIDE DEF F, n, c
  <2> QED
    BY <1>2, <1>5, RecursionExists
<1> HIDE DEF F, n, c
<1>7. g \in [0..n -> D] /\ g[0] = c /\ \A i \in 1..n : g[i] = F[<<i, g[i - 1]>>]
  BY <1>6 DEF Recursion
<1>8. \A i \in 1..n : i - 1 \in 0..n
  BY <1>2
<1>9. \A i \in 1..n : g[i] = Pack(g[i - 1], order[i])
  BY <1>4, <1>7, <1>8
<1> DEFINE h == [i \in 0..n |-> IF i = 0 THEN c ELSE Pack(g[i - 1], order[i])]
<1>10. \A i \in 0..n : g[i] = h[i]
  <2> SUFFICES ASSUME NEW i \in 0..n PROVE g[i] = h[i]
    OBVIOUS
  <2>1. CASE i = 0
    BY <1>7, <2>1
  <2>2. CASE i # 0
    <3>1. i \in 1..n
      BY <1>2, <2>2
    <3> QED
      BY <1>9, <2>2, <3>1
  <2> QED
    BY <2>1, <2>2
<1>11. g = h
  <2>1. g = [i \in 0..n |-> g[i]] /\ h = [i \in 0..n |-> h[i]]
    BY <1>7
  <2> HIDE DEF h
  <2> QED
    BY <1>10, <2>1
<1>12. Packs(g, order)
  BY <1>11 DEF Packs, n, c
<1> DEFINE f == CHOOSE e : Packs(e, order)
           G == {k \in 0..n : f[k] \in D}
<1>13. Packs(f, order)
  BY <1>12
<1> HIDE DEF f
<1>14. \A i \in 0..n : f[i] = IF i = 0 THEN c ELSE Pack(f[i - 1], order[i])
  BY <1>13 DEF Packs, n, c
<1>15. 0 \in G
  BY <1>2, <1>14
<1>16. \A k \in 1..n : k - 1 \in G => k \in G
  <2> SUFFICES ASSUME NEW k \in 1..n, k - 1 \in G PROVE k \in G
    OBVIOUS
  <2>1. k \in 0..n /\ k # 0 /\ f[k - 1] \in D
    BY <1>2
  <2>2. f[k] = Pack(f[k - 1], order[k])
    BY <1>14, <2>1
  <2> QED
    BY <1>3, <2>1, <2>2
<1>17. f[n] \in D
  <2>1. \A k \in 0..n : k \in G
    <3> HIDE DEF G
    <3> QED
      BY <1>2, <1>15, <1>16, SegmentInduction
  <2> QED
    BY <1>2, <2>1
<1>18. Packed = f[n].ids
  BY PackedIsRecursive DEF f, order, n
<1> QED
  BY <1>17, <1>18 DEF D

\* The preview ends: the step's class and its requests are fixed.
LEMMA EndPreviewLight ==
    ASSUME LightInv, EndPreview
    PROVE  LightInv' /\ Line' = Line
<1>1. /\ pc = "preview" /\ pc' = "running" /\ selected' = Packed /\ index' = 1 /\ budget' = MaxBatch
      /\ batch' = <<>> /\ skipped' = <<>>
      /\ UNCHANGED <<kv, status, tokens, running, waiting, held, ema, unreported, fresh, busy,
                     current>>
  BY DEF EndPreview, queues
<1>2. prefill' \in BOOLEAN /\ preempted' \in BOOLEAN
  BY DEF EndPreview
<1>3. Packed \subseteq Requests
  BY PackedType DEF LightInv
<1>4. batch = <<>> /\ skipped = <<>>
  BY <1>1 DEF LightInv, BatchFits, ListsFit
<1>5. MaxBatch \in 0..MaxBatch /\ <<>> \in Seq([req : Requests, num : 1..MaxBatch])
  BY PolicyAssumption
<1>6. PolicyTypes'
  BY <1>1, <1>2, <1>3, <1>4, <1>5 DEF LightInv, PolicyTypes
<1>7. Scheduled' = {}
  BY <1>1 DEF Scheduled, ToSet
<1>8. LoopFits' /\ Line' = Line
  BY <1>1, <1>4, <1>7 DEF LoopFits, Line
<1>9. UNCHANGED <<kv, status, tokens, running, held, batch>>
  BY <1>1, <1>4
<1> QED
  BY <1>1, <1>6, <1>8, <1>9, ControlKeeps

\* A deferred request is scanned past, and goes back: the line stays as it is.
LEMMA SkipWaitingLight ==
    ASSUME LightInv, SkipWaiting
    PROVE  LightInv' /\ Line' = Line
<1>1. /\ pc = "waiting" /\ waiting # <<>> /\ skipped' = Append(skipped, Head(waiting))
      /\ waiting' = Tail(waiting)
      /\ UNCHANGED <<kv, status, tokens, running, held, ema, unreported, pc,
                     fresh, busy, prefill, selected, index, current, budget, batch, preempted>>
  BY DEF SkipWaiting, MayAdmit, preview
<1>2. /\ waiting \in Seq(Requests) /\ skipped \in Seq(Requests)
      /\ Head(waiting) \in Requests /\ Tail(waiting) \in Seq(Requests)
      /\ Append(skipped, Head(waiting)) \in Seq(Requests)
  BY <1>1 DEF LightInv, PolicyTypes
<1>3. Line' = Line
  <2> DEFINE s == Append(skipped, Head(waiting)) \o Tail(waiting)
             t == skipped \o waiting
  <2>1. Len(skipped) \in Nat /\ Len(waiting) \in Nat \ {0}
    BY <1>1, <1>2
  <2>2. /\ Len(s) = Len(t) /\ DOMAIN s = 1..Len(s) /\ DOMAIN t = 1..Len(t)
        /\ s \in Seq(Requests) /\ t \in Seq(Requests)
    BY <1>1, <1>2, <2>1
  <2>3. ASSUME NEW i \in 1..Len(t) PROVE s[i] = t[i]
    BY <1>1, <1>2, <2>1, <2>2
  <2>4. s = t
    <3> HIDE DEF s, t
    <3> QED
      BY <2>2, <2>3, SeqEqual
  <2> QED
    BY <1>1, <2>4 DEF Line
<1>4. PolicyTypes'
  BY <1>1, <1>2 DEF LightInv, PolicyTypes
<1>5. LoopFits'
  BY <1>1 DEF LoopFits
<1> QED
  BY <1>1, <1>3, <1>4, <1>5, ControlKeeps

\* The skipped requests go back to the head of the queue.
LEMMA EndScheduleLight ==
    ASSUME LightInv, EndSchedule
    PROVE  LightInv' /\ Line' = Line
<1>1. /\ pc = "commit" /\ pc' = "output" /\ waiting' = skipped \o waiting /\ skipped' = <<>>
      /\ due' = [r \in Requests |-> {}]
      /\ UNCHANGED <<books, status, tokens, running, held, ema, fresh, busy, prefill, selected,
                     index, current, budget, batch, preempted>>
  BY DEF EndSchedule, Restored, preview, WriteBatch
<1>2. unreported' \in BOOLEAN
  BY DEF EndSchedule
<1>3. skipped \o waiting \in Seq(Requests) /\ <<>> \in Seq(Requests)
  BY ConcatProperties DEF LightInv, PolicyTypes
<1>4. Line' = Line
  BY <1>1, <1>3, ConcatEmptySeq DEF Line
<1>5. PolicyTypes'
  BY <1>1, <1>2, <1>3 DEF LightInv, PolicyTypes
<1>6. LoopFits'
  BY <1>1 DEF LoopFits
<1>7. due' = [r \in Requests |-> due'[r]]
  BY <1>1
<1> QED
  BY <1>1, <1>4, <1>5, <1>6, <1>7, ListsKeep

\* What KeepsFCFS says of one step.
KeepsPlaces ==
    \A q, r \in ToSet(Line) \cap ToSet(Line') : Precedes(Line, q, r) => Precedes(Line', q, r)

\* Fewer requests that run and fewer that hold stay within the limit.
LEMMA FewerAdmitted ==
    ASSUME LightInv, NEW s \in Seq(Requests), running' = s, Len(s) <= Len(running),
           Deferred' \subseteq Deferred
    PROVE  AdmittedBound'
<1>1. IsFiniteSet(Deferred)
  BY CacheAssumption, FS_Subset DEF LightInv, TablesFit
<1>2. /\ Cardinality(Deferred') <= Cardinality(Deferred)
      /\ Cardinality(Deferred') \in Nat /\ Cardinality(Deferred) \in Nat
  BY <1>1, FS_Subset, FS_CardinalityType
<1>3. Len(running) + Cardinality(Deferred) <= MaxRunning
  BY DEF LightInv, AdmittedBound
<1>4. Len(s) \in Nat /\ Len(running) \in Nat /\ MaxRunning \in Nat
  BY PolicyAssumption DEF LightInv, PolicyTypes
<1> QED
  BY <1>2, <1>3, <1>4 DEF AdmittedBound

\* A client submits a request.
LEMMA AddRequestLight ==
    ASSUME LightInv, NEW r \in Requests, AddRequest(r)
    PROVE  LightInv' /\ KeepsPlaces
<1>1. /\ pc = "input" /\ status[r] = "new" /\ status' = [status EXCEPT ![r] = "waiting"]
      /\ waiting' = Append(waiting, r)
      /\ UNCHANGED <<kv, tokens, running, held, ema, unreported, pc, fresh, busy, prefill, selected,
                     index, current, budget, batch, preempted, skipped>>
  BY DEF AddRequest, preview, step
<1>2. skipped = <<>> /\ batch = <<>>
  BY <1>1 DEF LightInv, ListsFit, BatchFits
<1>3. waiting \in Seq(Requests)
      /\ status \in [Requests -> {"new", "waiting", "running", "preempted", "finished"}]
  BY DEF LightInv, PolicyTypes
<1>4. Line = waiting /\ Line' = waiting'
  BY <1>1, <1>2, <1>3, ConcatEmptySeq, AppendType DEF Line
<1>5. /\ IsInjective(running) /\ ToSet(running) = {q \in Requests : status[q] = "running"}
      /\ IsInjective(waiting)
      /\ ToSet(waiting) = {q \in Requests : status[q] \in {"waiting", "preempted"}}
      /\ Deferred \subseteq ToSet(waiting)
  BY <1>4 DEF LightInv, ListsFit
<1>6. waiting' \in Seq(Requests) /\ ToSet(waiting') = ToSet(waiting) \cup {r}
      /\ IsInjective(waiting')
  <2>1. r \notin ToSet(waiting)
    BY <1>1, <1>5
  <2> QED
    BY <1>1, <1>3, <1>5, <2>1, AppendType, AppendElements
<1>7. Deferred' = Deferred /\ computed' = computed
  BY <1>1 DEF Deferred, kv
<1>8. PolicyTypes'
  BY <1>1, <1>3, <1>6 DEF LightInv, PolicyTypes
<1>9. Own!CacheInv' /\ TablesFit'
  <2>1. TablesFit'
    BY <1>1, <1>7 DEF LightInv, TablesFit, HitTokens, Blocks, kv
  <2> QED
    BY <1>1, <2>1, OwnStays DEF LightInv, kv, books
<1>10. ListsFit'
  <2>1. ToSet(running) = {q \in Requests : status'[q] = "running"}
    BY <1>1, <1>3, <1>5
  <2>2. ToSet(waiting') = {q \in Requests : status'[q] \in {"waiting", "preempted"}}
    BY <1>1, <1>3, <1>5, <1>6
  <2> QED
    BY <1>1, <1>2, <1>4, <1>5, <1>6, <1>7, <2>1, <2>2 DEF ListsFit
<1>11. Scheduled' = Scheduled /\ Scheduled = {}
  BY <1>1, <1>2 DEF Scheduled, ToSet
<1>12. TokensFit' /\ BatchFits' /\ LoopFits'
  BY <1>1, <1>2, <1>3, <1>7, <1>11 DEF LightInv, TokensFit, BatchFits, LoopFits
<1>13. AdmittedBound'
  BY <1>1, <1>7 DEF LightInv, AdmittedBound
<1>14. KeepsPlaces
  <2> SUFFICES ASSUME NEW a, NEW b, Precedes(waiting, a, b) PROVE Precedes(waiting', a, b)
    BY <1>4 DEF KeepsPlaces
  <2>1. <<r>> \in Seq(Requests) /\ waiting' = waiting \o <<r>>
    BY <1>1, <1>3
  <2> QED
    BY <1>3, <2>1, ConcatPrecedes
<1> QED
  BY <1>8, <1>9, <1>10, <1>12, <1>13, <1>14 DEF LightInv

\* finish_requests: a request leaves the lists and gives back what it owns.
LEMMA AbortLight ==
    ASSUME LightInv, StepWrites, NEW r \in Requests, Abort(r)
    PROVE  LightInv' /\ KeepsPlaces
<1>1. /\ pc = "input" /\ status[r] \notin {"new", "finished"}
      /\ status' = [status EXCEPT ![r] = "finished"]
      /\ running' = Without(running, r) /\ waiting' = Without(waiting, r)
      /\ UNCHANGED <<tokens, ema, pc, fresh, busy, prefill, selected,
                     index, current, budget, batch, preempted, skipped>>
  BY DEF Abort, FreeRequest, preview, step
<1>2. GivesBack(r)
  BY DEF Abort, FreeRequest, GivesBack
<1>3. unreported' \in BOOLEAN
  BY DEF Abort, FreeRequest
<1>4. skipped = <<>> /\ batch = <<>>
  BY <1>1 DEF LightInv, ListsFit, BatchFits
<1>5. /\ waiting \in Seq(Requests) /\ running \in Seq(Requests)
      /\ status \in [Requests -> {"new", "waiting", "running", "preempted", "finished"}]
  BY DEF LightInv, PolicyTypes
<1>6. /\ waiting' \in Seq(Requests) /\ running' \in Seq(Requests) /\ Len(running') <= Len(running)
  BY <1>1, <1>5, WithoutProperties
<1>7. Line = waiting /\ Line' = waiting'
  BY <1>1, <1>4, <1>5, <1>6, ConcatEmptySeq DEF Line
<1>8. /\ IsInjective(running) /\ ToSet(running) = {q \in Requests : status[q] = "running"}
      /\ IsInjective(waiting)
      /\ ToSet(waiting) = {q \in Requests : status[q] \in {"waiting", "preempted"}}
      /\ Deferred \subseteq ToSet(waiting)
  BY <1>7 DEF LightInv, ListsFit
<1>9. /\ ToSet(running') = ToSet(running) \ {r} /\ IsInjective(running')
      /\ ToSet(waiting') = ToSet(waiting) \ {r} /\ IsInjective(waiting')
  BY <1>1, <1>5, <1>8, WithoutElements
<1>10. /\ Own!CacheInv' /\ TablesFit' /\ Deferred' = Deferred \ {r}
       /\ computed' = [computed EXCEPT ![r] = 0]
  BY <1>1, <1>2, GiveBackKeeps DEF LightInv, StepWrites, InStep
<1>11. PolicyTypes'
  BY <1>1, <1>3, <1>5, <1>6 DEF LightInv, PolicyTypes
<1>12. ListsFit'
  <2>1. ToSet(running') = {q \in Requests : status'[q] = "running"}
    BY <1>1, <1>5, <1>8, <1>9
  <2>2. ToSet(waiting') = {q \in Requests : status'[q] \in {"waiting", "preempted"}}
    BY <1>1, <1>5, <1>8, <1>9
  <2> QED
    BY <1>1, <1>4, <1>7, <1>8, <1>9, <1>10, <2>1, <2>2 DEF ListsFit
<1>13. Scheduled' = Scheduled /\ Scheduled = {}
  BY <1>1, <1>4 DEF Scheduled, ToSet
<1>14. TokensFit'
  <2>1. computed \in [Requests -> Nat]
    BY DEF LightInv, TablesFit
  <2>2. tokens[r] > 0
    BY PolicyAssumption, CacheAssumption DEF LightInv, PolicyTypes
  <2>3. \A q \in Requests : tokens[q] \in Nat
    BY DEF LightInv, PolicyTypes
  <2>4. computed'[r] = 0 /\ status'[r] = "finished"
    BY <1>1, <1>5, <1>10, <2>1
  <2>5. \A q \in Requests : q # r => computed'[q] = computed[q] /\ status'[q] = status[q]
    BY <1>1, <1>5, <1>10, <2>1
  <2>6. tokens' = tokens
    BY <1>1
  <2> QED
    BY <1>13, <2>2, <2>3, <2>4, <2>5, <2>6 DEF LightInv, TokensFit
<1>15. BatchFits' /\ LoopFits'
  BY <1>1, <1>4, <1>13 DEF BatchFits, LoopFits
<1>16. AdmittedBound'
  BY <1>6, <1>10, FewerAdmitted
<1>17. KeepsPlaces
  BY <1>1, <1>5, <1>7, <1>9, WithoutKeepsOrder DEF KeepsPlaces
<1> QED
  BY <1>10, <1>11, <1>12, <1>14, <1>15, <1>16, <1>17 DEF LightInv

\* The preview admits the first candidate, which waits and owns nothing.
LEMMA AdmitCandidateLight ==
    ASSUME LightInv, StepWrites, AdmitCandidate
    PROVE  LightInv' /\ Line' = Line
<1> DEFINE r == Head(Candidates)
           hits == HitBlocks(r, tokens[r])
<1>1. /\ pc = "preview" /\ Candidates # <<>> /\ Admits(r)
      /\ held' = [d \in Deferred \cup {r} |-> IF d = r THEN hits ELSE held[d]]
      /\ Reserve(hits) /\ fresh' = fresh \cup {r}
      /\ UNCHANGED <<status, tokens, running, waiting, ema, unreported, pc, busy, prefill, selected,
                     index, current, budget, batch, preempted, skipped>>
  BY DEF AdmitCandidate, step
<1>2. waiting \in Seq(Requests) /\ running \in Seq(Requests)
  BY DEF LightInv, PolicyTypes
<1>3. Line = waiting /\ Line' = Line
  <2>1. skipped = <<>>
    BY <1>1 DEF LightInv, ListsFit
  <2> QED
    BY <1>1, <1>2, <2>1, ConcatEmptySeq DEF Line
<1>4. r \in ToSet(waiting) /\ r \notin Deferred /\ r \in Requests
  <2>1. IsInjective(waiting) /\ ToSet(waiting) \subseteq Requests
    BY <1>3 DEF LightInv, ListsFit
  <2>2. /\ Candidates \in Seq(Requests) /\ ToSet(Candidates) = ToSet(waiting) \ Deferred
        /\ IsInjective(Candidates)
    BY <1>2, <2>1, RemovedProperties DEF Candidates
  <2>3. Head(Candidates) \in ToSet(Candidates)
    BY <1>1, <2>2, TailElements
  <2> QED
    BY <2>1, <2>2, <2>3
<1> HIDE DEF r, hits
<1>5. table[r] = <<>> /\ tokens[r] \in 1..Len(Content[r])
  <2>1. status[r] # "running"
    BY <1>3, <1>4 DEF LightInv, ListsFit
  <2>2. computed[r] = 0
    <3>1. computed[r] \in Nat /\ ~(computed[r] > 0)
      BY <1>4, <2>1 DEF LightInv, TokensFit, TablesFit
    <3> QED
      BY <3>1
  <2>3. table[r] = <<>>
    BY <1>4, <2>2, NoBlocksNoTokens DEF LightInv
  <2> QED
    BY <1>4, <2>3, PolicyAssumption, CacheAssumption DEF LightInv, PolicyTypes
<1>6. /\ Own!CacheInv' /\ TablesFit' /\ Deferred' = Deferred \cup {r} /\ computed' = computed
  <2>1. hits = HitBlocks(r, tokens[r]) /\ UNCHANGED tokens
    BY <1>1 DEF hits
  <2> QED
    BY <1>1, <1>4, <1>5, <2>1, ReserveKeeps DEF LightInv, StepWrites, InStep
<1>7. PolicyTypes'
  BY <1>1, <1>4 DEF LightInv, PolicyTypes
<1>8. ListsFit'
  BY <1>1, <1>3, <1>4, <1>6 DEF LightInv, ListsFit
<1>9. Scheduled' = Scheduled
  BY <1>1 DEF Scheduled
<1>10. TokensFit' /\ BatchFits' /\ LoopFits'
  BY <1>1, <1>6, <1>9 DEF LightInv, TokensFit, BatchFits, LoopFits
<1>11. AdmittedBound'
  <2>1. IsFiniteSet(Deferred) /\ IsFiniteSet(ToSet(running))
        /\ Cardinality(ToSet(running)) = Len(running)
    BY <1>2, CacheAssumption, FS_Subset, InjectiveLength DEF LightInv, TablesFit, ListsFit
  <2>2. ToSet(running) \cap Deferred = {}
    BY DEF LightInv, ListsFit
  <2>3. Cardinality(Active) = Len(running) + Cardinality(Deferred)
    BY <2>1, <2>2, DisjointUnion DEF Active
  <2>4. Cardinality(Active) + 1 <= MaxRunning
    BY <1>1 DEF Admits
  <2>5. Cardinality(Deferred \cup {r}) = Cardinality(Deferred) + 1 /\ Cardinality(Deferred) \in Nat
    BY <1>4, <2>1, FS_AddElement, FS_CardinalityType
  <2>6. Len(running) \in Nat /\ running' = running
    BY <1>1, <1>2
  <2> QED
    BY <1>6, <2>3, <2>4, <2>5, <2>6 DEF AdmittedBound
<1> QED
  BY <1>3, <1>6, <1>7, <1>8, <1>10, <1>11 DEF LightInv

\* A step never schedules more tokens of a request than are left, and at least one.
LEMMA NewTokensFit ==
    ASSUME PolicyTypes, NEW r \in Requests, NEW done \in Nat, done < tokens[r], budget > 0
    PROVE  /\ NewTokens(r, done) \in 1..budget /\ NewTokens(r, done) \in 1..MaxBatch
           /\ budget - NewTokens(r, done) \in 0..MaxBatch
           /\ done + NewTokens(r, done) \in 1..Len(Content[r])
           /\ done + NewTokens(r, done) <= tokens[r] /\ done + NewTokens(r, done) >= done
<1>1. /\ tokens[r] \in Nat /\ budget \in Nat /\ budget <= MaxBatch /\ MaxBatch \in Nat
      /\ ChunkSize \in Nat /\ ChunkSize >= 1 /\ Prompt[r] \in Nat
      /\ Len(Content[r]) \in Nat /\ tokens[r] <= Len(Content[r])
  BY PolicyAssumption, CacheAssumption DEF PolicyTypes
<1> DEFINE left == Smallest(tokens[r] - done, budget)
<1>2. left \in 1..budget /\ left <= tokens[r] - done
  BY <1>1 DEF Smallest
<1> HIDE DEF left
<1> DEFINE num == NewTokens(r, done)
<1>3. num = IF done < Prompt[r] THEN Smallest(left, ChunkSize) ELSE left
  BY DEF NewTokens, left
<1>4. num \in 1..budget /\ num <= tokens[r] - done
  BY <1>1, <1>2, <1>3 DEF Smallest
<1> HIDE DEF num
<1>5. /\ num \in 1..budget /\ num \in 1..MaxBatch /\ budget - num \in 0..MaxBatch
      /\ done + num \in 1..Len(Content[r]) /\ done + num <= tokens[r] /\ done + num >= done
  BY <1>1, <1>4
<1> QED
  BY <1>5 DEF num

\* num_scheduled_tokens names requests.
LEMMA ScheduledType ==
    ASSUME NEW s \in Seq([req : Requests, num : 1..MaxBatch])
    PROVE  \A b \in ToSet(s) : b.req \in Requests
<1> DEFINE E == [req : Requests, num : 1..MaxBatch]
<1>1. \A e \in E : e.req \in Requests
  OBVIOUS
<1> HIDE DEF E
<1>2. ToSet(s) \subseteq E
  BY ElementsType DEF E
<1> QED
  BY <1>1, <1>2

\* num_scheduled_tokens takes one more request.
LEMMA BatchGrows ==
    ASSUME LightInv, NEW r \in Requests, NEW num \in 1..MaxBatch, r \notin Scheduled,
           batch' = Append(batch, [req |-> r, num |-> num])
    PROVE  /\ batch' \in Seq([req : Requests, num : 1..MaxBatch])
           /\ Scheduled' = Scheduled \cup {r}
           /\ \A i, j \in DOMAIN batch' : i # j => batch'[i].req # batch'[j].req
<1> DEFINE E == [req : Requests, num : 1..MaxBatch]
           e == [req |-> r, num |-> num]
<1>1. batch \in Seq(E) /\ e \in E /\ e.req = r
  BY DEF LightInv, PolicyTypes
<1> HIDE DEF e, E
<1>2. batch' = Append(batch, e)
  BY DEF e
<1>3. batch' \in Seq(E) /\ ToSet(batch') = ToSet(batch) \cup {e}
  BY <1>1, <1>2, AppendType, AppendElements
<1>4. Scheduled' = Scheduled \cup {r}
  BY <1>1, <1>3 DEF Scheduled
<1>5. \A i \in DOMAIN batch : batch[i].req # r
  BY DEF Scheduled, ToSet
<1>6. /\ DOMAIN batch' = 1..(Len(batch) + 1) /\ DOMAIN batch = 1..Len(batch) /\ Len(batch) \in Nat
      /\ \A i \in 1..Len(batch) : batch'[i] = batch[i]
      /\ batch'[Len(batch) + 1] = e
  BY <1>1, <1>2
<1>7. \A i, j \in DOMAIN batch : i # j => batch[i].req # batch[j].req
  BY DEF LightInv, BatchFits
<1>8. ASSUME NEW i \in DOMAIN batch', NEW j \in DOMAIN batch', i # j
      PROVE  batch'[i].req # batch'[j].req
  <2>1. i \in 1..Len(batch) \/ i = Len(batch) + 1
    BY <1>6
  <2>2. j \in 1..Len(batch) \/ j = Len(batch) + 1
    BY <1>6
  <2> QED
    BY <1>1, <1>5, <1>6, <1>7, <1>8, <2>1, <2>2
<1> QED
  BY <1>3, <1>4, <1>8 DEF E

\* The request in hand gets its blocks and joins the step.
LEMMA ScheduleRunningLight ==
    ASSUME LightInv, ScheduleRunning
    PROVE  LightInv' /\ Line' = Line
<1> DEFINE r == current
           num == NewTokens(r, computed[r])
<1>1. /\ pc = "alloc" /\ pc' = "running" /\ AllocateSlots(r, <<>>, computed[r] + num)
      /\ batch' = Append(batch, [req |-> r, num |-> num]) /\ budget' = budget - num
      /\ index' = index + 1 /\ current' = None
      /\ UNCHANGED <<status, tokens, running, waiting, held, ema, unreported, fresh, busy, prefill,
                     selected, preempted, skipped>>
  BY DEF ScheduleRunning, Slots, queues, preview
<1>2. index \in DOMAIN running /\ r = running[index] /\ budget > 0
  BY <1>1 DEF LightInv, LoopFits
<1>3. running \in Seq(Requests) /\ index \in Nat /\ index >= 1 /\ DOMAIN running = 1..Len(running)
  BY DEF LightInv, PolicyTypes
<1>4. r \in Requests /\ r \in ToSet(running) /\ r \notin Scheduled
  BY <1>1, <1>2, <1>3 DEF LightInv, LoopFits, ToSet
<1>5. status[r] = "running" /\ r \notin Deferred
  BY <1>4 DEF LightInv, ListsFit
<1>6. computed \in [Requests -> Nat] /\ computed[r] \in Nat /\ computed[r] < tokens[r]
  BY <1>4 DEF LightInv, TokensFit, TablesFit
<1>7. /\ num \in 1..MaxBatch /\ budget - num \in 0..MaxBatch
      /\ computed[r] + num \in 1..Len(Content[r])
      /\ computed[r] + num <= tokens[r] /\ computed[r] + num >= computed[r]
  BY <1>2, <1>4, <1>6, NewTokensFit DEF LightInv
<1> HIDE DEF r, num
<1> DEFINE n == computed[r] + num
<1>8. n \in 1..Len(Content[r]) /\ n <= tokens[r] /\ n >= computed[r] /\ AllocateSlots(r, <<>>, n)
  BY <1>1, <1>7
<1> HIDE DEF n
<1>9. /\ Own!CacheInv' /\ TablesFit' /\ Deferred' = Deferred
      /\ computed' = [computed EXCEPT ![r] = n]
  BY <1>1, <1>4, <1>5, <1>8, RunningExtends DEF LightInv
<1>10. /\ batch' \in Seq([req : Requests, num : 1..MaxBatch]) /\ Scheduled' = Scheduled \cup {r}
       /\ \A i, j \in DOMAIN batch' : i # j => batch'[i].req # batch'[j].req
  BY <1>1, <1>4, <1>7, BatchGrows
<1>11. PolicyTypes'
  <2>1. /\ index' \in Nat \ {0} /\ current' \in Requests \cup {None} /\ budget' \in 0..MaxBatch
        /\ pc' \in {"input", "preview", "running", "alloc", "waiting", "commit", "output"}
    BY <1>1, <1>3, <1>7
  <2> QED
    BY <1>1, <1>10, <2>1 DEF LightInv, PolicyTypes
<1>12. Line' = Line
  BY <1>1 DEF Line
<1>13. ListsFit'
  BY <1>1, <1>9, <1>12 DEF LightInv, ListsFit
<1>14. TokensFit'
  <2>1. computed'[r] = n /\ n > 0
    BY <1>4, <1>6, <1>8, <1>9, CacheAssumption
  <2>2. \A q \in Requests : q # r => computed'[q] = computed[q]
    BY <1>6, <1>9
  <2>3. status' = status /\ tokens' = tokens
    BY <1>1
  <2>4. status[r] = "running" => tokens[r] < Len(Content[r])
    BY <1>4 DEF LightInv, TokensFit
  <2> QED
    BY <1>5, <1>8, <1>10, <2>1, <2>2, <2>3, <2>4 DEF LightInv, TokensFit
<1>15. BatchFits'
  BY <1>1, <1>5, <1>10 DEF LightInv, BatchFits
<1>16. LoopFits'
  <2>1. ASSUME NEW i \in DOMAIN running, i >= index + 1 PROVE running[i] \notin Scheduled \cup {r}
    <3>1. i >= index /\ i # index
      BY <1>3, <2>1
    <3>2. running[i] # running[index]
      BY <1>2, <3>1 DEF LightInv, ListsFit, IsInjective
    <3> QED
      BY <1>1, <1>2, <3>1, <3>2 DEF LightInv, LoopFits
  <2> QED
    BY <1>1, <1>10, <2>1 DEF LoopFits
<1>17. AdmittedBound'
  BY <1>1, <1>9 DEF LightInv, AdmittedBound
<1> QED
  BY <1>9, <1>11, <1>12, <1>13, <1>14, <1>15, <1>16, <1>17 DEF LightInv

\* The last running request gives its blocks back and waits first.
LEMMA PreemptRunningLight ==
    ASSUME LightInv, PreemptRunning
    PROVE  LightInv' /\ KeepsPlaces
<1> DEFINE v == Last(running)
           n == Len(running)
<1>1. /\ pc = "alloc" /\ running' = Front(running) /\ Free(v)
      /\ status' = [status EXCEPT ![v] = "preempted"] /\ waiting' = <<v>> \o waiting
      /\ pc' = IF v = current THEN "commit" ELSE "alloc"
      /\ current' = IF v = current THEN None ELSE current
      /\ UNCHANGED <<tokens, held, ema, unreported, fresh, busy, prefill, selected,
                     index, budget, batch, skipped>>
  BY DEF PreemptRunning, OutOfBlocks, preview
<1>2. preempted' \in BOOLEAN
  BY DEF PreemptRunning
<1>3. index \in DOMAIN running /\ current = running[index] /\ budget > 0
  BY <1>1 DEF LightInv, LoopFits
<1>4. /\ running \in Seq(Requests) /\ index \in Nat /\ index >= 1 /\ DOMAIN running = 1..n
      /\ waiting \in Seq(Requests)
      /\ status \in [Requests -> {"new", "waiting", "running", "preempted", "finished"}]
  BY DEF LightInv, PolicyTypes
<1>5. n \in Nat /\ n >= 1 /\ n \in DOMAIN running /\ v = running[n] /\ n >= index
  BY <1>3, <1>4 DEF Last
<1>6. v \in Requests /\ v \in ToSet(running) /\ v \notin Scheduled
  <2>1. v \in Requests /\ v \in ToSet(running)
    BY <1>4, <1>5 DEF ToSet
  <2>2. running[n] \notin Scheduled
    BY <1>1, <1>5 DEF LightInv, LoopFits
  <2> QED
    BY <1>5, <2>1, <2>2
<1>7. skipped = <<>>
  BY <1>1 DEF LightInv, ListsFit
<1>8. Line = waiting /\ Line' = <<v>> \o waiting
  <2>1. <<v>> \o waiting \in Seq(Requests)
    BY <1>4, <1>6, SingletonElements, ConcatProperties
  <2> QED
    BY <1>1, <1>4, <1>7, <2>1, ConcatEmptySeq DEF Line
<1>9. /\ IsInjective(running) /\ ToSet(running) = {q \in Requests : status[q] = "running"}
      /\ IsInjective(waiting)
      /\ ToSet(waiting) = {q \in Requests : status[q] \in {"waiting", "preempted"}}
      /\ Deferred \subseteq ToSet(waiting)
  BY <1>8 DEF LightInv, ListsFit
<1>10. status[v] = "running" /\ v \notin Deferred
  BY <1>6, <1>9
<1>11. GivesBack(v)
  <2>1. computed[v] > 0
    BY <1>6, <1>10 DEF LightInv, TokensFit
  <2>2. table[v] # <<>>
    BY <1>6, <1>10, <2>1, NoBlocksNoTokens DEF LightInv
  <2> QED
    BY <1>1, <1>10, <2>2 DEF GivesBack
<1> HIDE DEF v, n
<1>12. /\ Own!CacheInv' /\ TablesFit' /\ Deferred' = Deferred \ {v}
       /\ computed' = [computed EXCEPT ![v] = 0]
  BY <1>1, <1>6, <1>10, <1>11, GiveBackKeeps DEF LightInv
<1>13. /\ running' \in Seq(Requests) /\ Len(running') = n - 1 /\ DOMAIN running' = 1..(n - 1)
       /\ \A i \in 1..(n - 1) : running'[i] = running[i]
  BY <1>1, <1>4, <1>5 DEF Front, n
<1>14. ToSet(running') = ToSet(running) \ {v} /\ IsInjective(running')
  <2>1. IsInjective(running')
    BY <1>4, <1>5, <1>9, <1>13 DEF IsInjective
  <2>2. ASSUME NEW x \in ToSet(running') PROVE x \in ToSet(running) \ {v}
    <3>1. PICK i \in 1..(n - 1) : running'[i] = x
      BY <1>13 DEF ToSet
    <3>2. i \in DOMAIN running /\ i # n /\ running[i] = x
      BY <1>4, <1>5, <1>13, <3>1
    <3> QED
      BY <1>5, <1>9, <3>2 DEF ToSet, IsInjective
  <2>3. ASSUME NEW x \in ToSet(running) \ {v} PROVE x \in ToSet(running')
    <3>1. PICK i \in DOMAIN running : running[i] = x
      BY DEF ToSet
    <3>2. i \in 1..(n - 1)
      BY <1>4, <1>5, <3>1
    <3> QED
      BY <1>13, <3>1, <3>2 DEF ToSet
  <2> QED
    BY <2>1, <2>2, <2>3
<1>15. /\ <<v>> \in Seq(Requests) /\ waiting' \in Seq(Requests) /\ IsInjective(waiting')
       /\ ToSet(waiting') = ToSet(waiting) \cup {v}
  <2>1. <<v>> \in Seq(Requests) /\ ToSet(<<v>>) = {v} /\ IsInjective(<<v>>)
    BY <1>6, SingletonElements
  <2>2. ToSet(<<v>>) \cap ToSet(waiting) = {}
    BY <1>9, <1>10, <2>1
  <2>3. <<v>> \o waiting \in Seq(Requests)
    BY <1>4, <2>1, ConcatProperties
  <2> QED
    BY <1>1, <1>4, <1>9, <2>1, <2>2, <2>3, ConcatElements
<1>16. PolicyTypes'
  <2>1. /\ status' \in [Requests -> {"new", "waiting", "running", "preempted", "finished"}]
        /\ current' \in Requests \cup {None}
        /\ pc' \in {"input", "preview", "running", "alloc", "waiting", "commit", "output"}
    BY <1>1, <1>4, <1>6 DEF LightInv, PolicyTypes
  <2>2. UNCHANGED <<tokens, ema, unreported, fresh, busy, prefill, selected, index, budget, batch,
                    skipped>>
    BY <1>1
  <2> QED
    BY <1>2, <1>13, <1>15, <2>1, <2>2 DEF LightInv, PolicyTypes
<1>17. ListsFit'
  <2>1. ToSet(running') = {q \in Requests : status'[q] = "running"}
    BY <1>1, <1>4, <1>6, <1>9, <1>14
  <2>2. ToSet(waiting') = {q \in Requests : status'[q] \in {"waiting", "preempted"}}
    BY <1>1, <1>4, <1>6, <1>9, <1>15
  <2>3. Line' = waiting' /\ skipped' = <<>>
    BY <1>1, <1>7, <1>8
  <2> QED
    BY <1>9, <1>12, <1>14, <1>15, <2>1, <2>2, <2>3 DEF ListsFit
<1>18. Scheduled' = Scheduled
  BY <1>1 DEF Scheduled
<1>19. TokensFit'
  <2>1. computed \in [Requests -> Nat]
    BY DEF LightInv, TablesFit
  <2>2. tokens[v] \in Nat /\ tokens[v] > 0
    BY <1>6, PolicyAssumption, CacheAssumption DEF LightInv, PolicyTypes
  <2>3. computed'[v] = 0 /\ status'[v] = "preempted"
    BY <1>1, <1>4, <1>6, <1>12, <2>1
  <2>4. \A q \in Requests : q # v => computed'[q] = computed[q] /\ status'[q] = status[q]
    BY <1>1, <1>4, <1>12, <2>1
  <2>5. tokens' = tokens
    BY <1>1
  <2>6. tokens[v] < Len(Content[v])
    BY <1>6, <1>10 DEF LightInv, TokensFit
  <2> QED
    BY <1>18, <2>2, <2>3, <2>4, <2>5, <2>6 DEF LightInv, TokensFit
<1>20. BatchFits'
  BY <1>1, <1>4, <1>6, <1>18 DEF LightInv, BatchFits
<1>21. LoopFits'
  <2>1. CASE v = current
    BY <1>1, <2>1 DEF LoopFits
  <2>2. CASE v # current
    <3>1. index # n
      BY <1>3, <1>5, <2>2
    <3>2. index \in 1..(n - 1)
      BY <1>4, <1>5, <3>1
    <3>3. \A i \in 1..(n - 1) : i \in DOMAIN running
      BY <1>4, <1>5
    <3>4. pc' = "alloc" /\ current' = current /\ index' = index /\ budget' = budget
      BY <1>1, <2>2
    <3>5. \A i \in DOMAIN running : i >= index => running[i] \notin Scheduled
      BY <1>1 DEF LightInv, LoopFits
    <3> QED
      BY <1>3, <1>13, <1>18, <3>2, <3>3, <3>4, <3>5 DEF LoopFits
  <2> QED
    BY <2>1, <2>2
<1>22. AdmittedBound'
  <2>1. Len(running') <= Len(running)
    BY <1>5, <1>13 DEF n
  <2> QED
    BY <1>12, <1>13, <2>1, FewerAdmitted
<1>23. KeepsPlaces
  BY <1>4, <1>8, <1>15, ConcatPrecedes DEF KeepsPlaces
<1> QED
  BY <1>12, <1>16, <1>17, <1>19, <1>20, <1>21, <1>22, <1>23 DEF LightInv

\* The head of the queue takes the blocks that it holds, and runs.
LEMMA ScheduleWaitingLight ==
    ASSUME LightInv, ScheduleWaiting
    PROVE  LightInv' /\ KeepsPlaces
<1> DEFINE r == Head(waiting)
           num == NewTokens(r, HitTokens(r))
           k == Len(skipped) + 1
<1>1. /\ pc = "waiting" /\ pc' = pc /\ waiting # <<>> /\ budget > 0 /\ r \in Deferred
      /\ AllocateFrom(ReleasedRefs(r), ReleasedQueue(r), r, held[r], HitTokens(r) + num)
      /\ held' = Dropped(r) /\ running' = Append(running, r)
      /\ status' = [status EXCEPT ![r] = "running"]
      /\ batch' = Append(batch, [req |-> r, num |-> num]) /\ budget' = budget - num
      /\ waiting' = Tail(waiting)
      /\ UNCHANGED <<tokens, ema, unreported, fresh, busy, prefill, selected,
                     index, current, preempted, skipped>>
  BY DEF ScheduleWaiting, MayAdmit, FirstSlots, preview
<1>2. /\ running \in Seq(Requests) /\ waiting \in Seq(Requests) /\ skipped \in Seq(Requests)
      /\ status \in [Requests -> {"new", "waiting", "running", "preempted", "finished"}]
  BY DEF LightInv, PolicyTypes
<1>3. r \in Requests /\ Tail(waiting) \in Seq(Requests) /\ Len(waiting) \in Nat /\ Len(waiting) >= 1
  BY <1>1, <1>2
<1>4. /\ IsInjective(running) /\ ToSet(running) = {q \in Requests : status[q] = "running"}
      /\ IsInjective(Line)
      /\ ToSet(Line) = {q \in Requests : status[q] \in {"waiting", "preempted"}}
      /\ Deferred \subseteq ToSet(Line)
  BY DEF LightInv, ListsFit
<1>5. /\ Line \in Seq(Requests) /\ Len(Line) = Len(skipped) + Len(waiting)
      /\ k \in 1..Len(Line) /\ Line[k] = r
  <2>1. Len(skipped) \in Nat
    BY <1>2
  <2> QED
    BY <1>1, <1>2, <1>3, <2>1 DEF Line
<1>6. Line' = RemoveAt(Line, k)
  <2> DEFINE s == skipped \o Tail(waiting)
             t == RemoveAt(Line, k)
  <2>1. /\ t \in Seq(Requests) /\ Len(t) = Len(Line) - 1
        /\ \A i \in 1..(Len(Line) - 1) : t[i] = IF i < k THEN Line[i] ELSE Line[i + 1]
    BY <1>5, RemoveAtProperties
  <2>2. Len(skipped) \in Nat /\ Len(Tail(waiting)) = Len(waiting) - 1
    BY <1>1, <1>2, <1>3
  <2>3. s \in Seq(Requests) /\ Len(s) = Len(skipped) + Len(waiting) - 1
    BY <1>2, <1>3, <2>2, ConcatProperties
  <2>4. Len(s) = Len(t)
    BY <1>3, <1>5, <2>1, <2>2, <2>3
  <2> HIDE DEF t
  <2>5. ASSUME NEW i \in 1..Len(t) PROVE s[i] = t[i]
    <3>1. i \in 1..(Len(skipped) + Len(waiting) - 1) /\ i \in Nat
      BY <2>3, <2>4
    <3>2. CASE i < k
      <4>1. i \in 1..Len(skipped)
        BY <2>2, <3>1, <3>2
      <4>2. s[i] = skipped[i] /\ Line[i] = skipped[i]
        BY <1>2, <1>3, <4>1 DEF Line
      <4> QED
        BY <1>5, <2>1, <3>1, <3>2, <4>2
    <3>3. CASE ~(i < k)
      <4> DEFINE m == i - Len(skipped)
      <4>1. m \in 1..(Len(waiting) - 1) /\ i = Len(skipped) + m
        BY <1>3, <2>2, <3>1, <3>3
      <4>2. s[i] = Tail(waiting)[m]
        BY <1>2, <1>3, <2>2, <4>1
      <4>3. Tail(waiting)[m] = waiting[m + 1]
        BY <1>1, <1>2, <1>3, <4>1
      <4>4. Line[i + 1] = waiting[m + 1]
        <5>1. i + 1 = Len(skipped) + (m + 1) /\ m + 1 \in 1..Len(waiting)
          BY <1>3, <2>2, <4>1
        <5> QED
          BY <1>2, <2>2, <5>1 DEF Line
      <4>5. t[i] = Line[i + 1]
        BY <1>5, <2>1, <3>1, <3>3
      <4> QED
        BY <4>2, <4>3, <4>4, <4>5
    <3> QED
      BY <3>2, <3>3
  <2> HIDE DEF s
  <2>6. s = t
    BY <2>1, <2>3, <2>4, <2>5, SeqEqual
  <2> QED
    BY <1>1, <2>6 DEF Line, s, t
<1> HIDE DEF k
<1>7. /\ Line' \in Seq(Requests) /\ ToSet(Line') = ToSet(Line) \ {r} /\ IsInjective(Line')
  BY <1>4, <1>5, <1>6, RemoveAtProperties, RemoveAtElements
<1>8. status[r] # "running" /\ r \notin ToSet(running) /\ r \notin Scheduled
      /\ status[r] # "finished"
  BY <1>1, <1>3, <1>4 DEF LightInv, BatchFits
<1>9. HitTokens(r) \in Nat /\ HitTokens(r) < tokens[r]
  <2>1. Len(held[r]) \in Nat
    BY <1>1 DEF LightInv, TablesFit
  <2>2. HitTokens(r) \in Nat
    BY <2>1, WholeBlocks DEF HitTokens
  <2> QED
    BY <1>1, <2>2 DEF LightInv, TablesFit
<1>10. /\ num \in 1..MaxBatch /\ budget - num \in 0..MaxBatch
       /\ HitTokens(r) + num \in 1..Len(Content[r])
       /\ HitTokens(r) + num <= tokens[r] /\ HitTokens(r) + num >= HitTokens(r)
  BY <1>1, <1>3, <1>9, NewTokensFit DEF LightInv
<1> HIDE DEF r, num
<1> DEFINE n == HitTokens(r) + num
<1>11. /\ n \in 1..Len(Content[r]) /\ n <= tokens[r] /\ n >= HitTokens(r)
       /\ AllocateFrom(ReleasedRefs(r), ReleasedQueue(r), r, held[r], n)
  BY <1>1, <1>10
<1> HIDE DEF n
<1>12. /\ Own!CacheInv' /\ TablesFit' /\ Deferred' = Deferred \ {r}
       /\ computed' = [computed EXCEPT ![r] = n]
  BY <1>1, <1>11, HoldExtends DEF LightInv
<1>13. /\ batch' \in Seq([req : Requests, num : 1..MaxBatch]) /\ Scheduled' = Scheduled \cup {r}
       /\ \A i, j \in DOMAIN batch' : i # j => batch'[i].req # batch'[j].req
  BY <1>1, <1>3, <1>8, <1>10, BatchGrows
<1>14. /\ running' \in Seq(Requests) /\ ToSet(running') = ToSet(running) \cup {r}
       /\ IsInjective(running')
       /\ Len(running') = Len(running) + 1
  <2>1. Len(Append(running, r)) = Len(running) + 1
    BY <1>2, <1>3
  <2> QED
    BY <1>1, <1>2, <1>3, <1>4, <1>8, <2>1, AppendType, AppendElements
<1>15. PolicyTypes'
  <2>1. /\ status' \in [Requests -> {"new", "waiting", "running", "preempted", "finished"}]
        /\ waiting' \in Seq(Requests) /\ budget' \in 0..MaxBatch
    BY <1>1, <1>2, <1>3, <1>10
  <2>2. UNCHANGED <<tokens, ema, unreported, pc, fresh, busy, prefill, selected, index, current,
                    preempted, skipped>>
    BY <1>1
  <2> QED
    BY <1>13, <1>14, <2>1, <2>2 DEF LightInv, PolicyTypes
<1>16. ListsFit'
  <2>1. ToSet(running') = {q \in Requests : status'[q] = "running"}
    BY <1>1, <1>2, <1>3, <1>4, <1>14
  <2>2. ToSet(Line') = {q \in Requests : status'[q] \in {"waiting", "preempted"}}
    BY <1>1, <1>2, <1>3, <1>4, <1>7
  <2> QED
    BY <1>1, <1>4, <1>7, <1>12, <1>14, <2>1, <2>2 DEF ListsFit
<1>17. TokensFit'
  <2>1. computed \in [Requests -> Nat]
    BY DEF LightInv, TablesFit
  <2>2. computed'[r] = n /\ n > 0 /\ status'[r] = "running"
    BY <1>1, <1>2, <1>3, <1>11, <1>12, <2>1, CacheAssumption
  <2>3. \A q \in Requests : q # r => computed'[q] = computed[q] /\ status'[q] = status[q]
    BY <1>1, <1>2, <1>12, <2>1
  <2>4. tokens' = tokens
    BY <1>1
  <2>5. tokens[r] < Len(Content[r])
    BY <1>3, <1>8 DEF LightInv, TokensFit
  <2> QED
    BY <1>11, <1>13, <2>2, <2>3, <2>4, <2>5 DEF LightInv, TokensFit
<1>18. BatchFits' /\ LoopFits'
  <2>1. pc' = "waiting"
    BY <1>1
  <2>2. \A q \in Scheduled : status[q] = "running"
    BY DEF LightInv, BatchFits
  <2>3. \A q \in Requests : status'[q] = IF q = r THEN "running" ELSE status[q]
    BY <1>1, <1>2
  <2>4. Scheduled' \subseteq Requests
    <3>1. \A b \in ToSet(batch') : b.req \in Requests
      BY <1>13, ScheduledType
    <3> QED
      BY <3>1 DEF Scheduled
  <2>5. \A q \in Scheduled' : status'[q] = "running"
    BY <1>13, <2>2, <2>3, <2>4
  <2> QED
    BY <1>13, <2>1, <2>5 DEF BatchFits, LoopFits
<1>19. AdmittedBound'
  <2>1. IsFiniteSet(Deferred)
    BY CacheAssumption, FS_Subset DEF LightInv, TablesFit
  <2>2. Cardinality(Deferred \ {r}) = Cardinality(Deferred) - 1 /\ Cardinality(Deferred) \in Nat
    BY <1>1, <2>1, FS_RemoveElement, FS_CardinalityType
  <2>3. Len(running) \in Nat
    BY <1>2
  <2>4. Len(running) + Cardinality(Deferred) <= MaxRunning
    BY DEF LightInv, AdmittedBound
  <2> QED
    BY <1>12, <1>14, <2>2, <2>3, <2>4 DEF AdmittedBound
<1>20. KeepsPlaces
  <2>1. ASSUME NEW a \in ToSet(Line'), NEW b \in ToSet(Line'), Precedes(Line, a, b)
        PROVE  Precedes(Line', a, b)
    <3>1. a # Line[k] /\ b # Line[k]
      BY <1>5, <1>7, <2>1
    <3> QED
      BY <1>5, <1>6, <2>1, <3>1, RemoveAtKeepsOrder
  <2> QED
    BY <2>1 DEF KeepsPlaces
<1> QED
  BY <1>12, <1>15, <1>16, <1>17, <1>18, <1>19, <1>20 DEF LightInv

\* The output of one request: a new token, the end, or neither.
LEMMA OutputLight ==
    ASSUME LightInv, StepWrites, Output
    PROVE  LightInv' /\ Line' = Line
<1> DEFINE r == Head(batch).req
           E == [req : Requests, num : 1..MaxBatch]
<1>1. /\ pc = "output" /\ batch # <<>> /\ batch' = Tail(batch)
      /\ UNCHANGED <<waiting, pc, fresh, busy, prefill, selected, index, current, budget,
                     preempted, skipped>>
  BY DEF Output, preview
<1>2. /\ batch \in Seq(E) /\ running \in Seq(Requests) /\ waiting \in Seq(Requests)
      /\ status \in [Requests -> {"new", "waiting", "running", "preempted", "finished"}]
      /\ tokens \in [Requests -> Nat] /\ computed \in [Requests -> Nat]
  BY DEF LightInv, PolicyTypes, TablesFit
<1>3. /\ Len(batch) \in Nat /\ Len(batch) >= 1 /\ DOMAIN batch = 1..Len(batch) /\ r = batch[1].req
      /\ r \in Requests
  <2> HIDE DEF E
  <2>1. Len(batch) \in Nat /\ Len(batch) >= 1 /\ DOMAIN batch = 1..Len(batch)
    BY <1>1, <1>2
  <2>2. Head(batch) = batch[1] /\ batch[1] \in E
    BY <1>1, <1>2, <2>1
  <2> QED
    BY <2>1, <2>2 DEF E
<1> HIDE DEF r
<1>4. /\ batch' \in Seq(E) /\ DOMAIN batch' = 1..(Len(batch) - 1)
      /\ \A i \in 1..(Len(batch) - 1) : batch'[i] = batch[i + 1] /\ i + 1 \in DOMAIN batch
  <2> HIDE DEF E
  <2> QED
    BY <1>1, <1>2, <1>3
<1>5. /\ r \in Scheduled
      /\ \A i, j \in DOMAIN batch : i # j => batch[i].req # batch[j].req
      /\ \A q \in Scheduled : status[q] = "running"
  BY <1>3 DEF LightInv, BatchFits, Scheduled, ToSet
<1>6. \A i, j \in DOMAIN batch' : i # j => batch'[i].req # batch'[j].req
  <2> SUFFICES ASSUME NEW i \in DOMAIN batch', NEW j \in DOMAIN batch', i # j
               PROVE  batch'[i].req # batch'[j].req
    OBVIOUS
  <2>1. i + 1 # j + 1 /\ i + 1 \in DOMAIN batch /\ j + 1 \in DOMAIN batch
    BY <1>3, <1>4
  <2>2. batch'[i] = batch[i + 1] /\ batch'[j] = batch[j + 1]
    BY <1>4
  <2> QED
    BY <1>5, <2>1, <2>2
<1>7. Scheduled' = Scheduled \ {r}
  <2>1. ASSUME NEW q \in Scheduled' PROVE q \in Scheduled \ {r}
    <3>1. PICK i \in DOMAIN batch' : q = batch'[i].req
      BY DEF Scheduled, ToSet
    <3>2. q = batch[i + 1].req /\ i + 1 \in DOMAIN batch /\ i + 1 # 1 /\ 1 \in DOMAIN batch
      BY <1>3, <1>4, <3>1
    <3>3. q # r
      BY <1>3, <1>5, <3>2
    <3> QED
      BY <3>2, <3>3 DEF Scheduled, ToSet
  <2>2. ASSUME NEW q \in Scheduled \ {r} PROVE q \in Scheduled'
    <3>1. PICK i \in DOMAIN batch : q = batch[i].req
      BY DEF Scheduled, ToSet
    <3>2. i # 1
      BY <1>3, <3>1
    <3>3. i - 1 \in 1..(Len(batch) - 1) /\ (i - 1) + 1 = i
      BY <1>3, <3>1, <3>2
    <3>4. batch'[i - 1].req = q /\ i - 1 \in DOMAIN batch'
      BY <1>4, <3>1, <3>3
    <3> QED
      BY <3>4 DEF Scheduled, ToSet
  <2> QED
    BY <2>1, <2>2
<1>8. skipped = <<>> /\ Line' = Line /\ Line \in Seq(Requests)
  <2>1. skipped = <<>>
    BY <1>1 DEF LightInv, ListsFit
  <2> QED
    BY <1>1, <1>2, <2>1, ConcatEmptySeq DEF Line
<1>9. /\ IsInjective(running) /\ ToSet(running) = {q \in Requests : status[q] = "running"}
      /\ IsInjective(Line)
      /\ ToSet(Line) = {q \in Requests : status[q] \in {"waiting", "preempted"}}
      /\ Deferred \subseteq ToSet(Line)
  BY DEF LightInv, ListsFit
<1>10. status[r] = "running" /\ r \notin Deferred
  BY <1>5, <1>9
<1>11. /\ computed[r] \in Nat /\ computed[r] <= tokens[r] /\ tokens[r] \in Nat
       /\ tokens[r] >= Prompt[r] /\ tokens[r] < Len(Content[r]) /\ Len(Content[r]) \in Nat
       /\ Prompt[r] \in Nat /\ tokens[r] > 0
  <2>1. computed[r] <= tokens[r] /\ tokens[r] < Len(Content[r])
    BY <1>3, <1>10 DEF LightInv, TokensFit
  <2>2. tokens[r] \in Prompt[r]..Len(Content[r]) /\ Prompt[r] \in Nat /\ Len(Content[r]) \in Nat
        /\ Prompt[r] > 0
    <3>1. tokens[r] \in Prompt[r]..Len(Content[r])
      BY <1>3 DEF LightInv, PolicyTypes
    <3>2. Prompt[r] \in 1..(Len(Content[r]) - 1) /\ Prompt[r] \in Nat
      BY <1>3, PolicyAssumption
    <3>3. Len(Content[r]) \in Nat
      BY <1>3, CacheAssumption
    <3> QED
      BY <3>1, <3>2, <3>3
  <2> QED
    BY <1>2, <1>3, <2>1, <2>2
<1> DEFINE sampled == computed[r] = tokens[r]
           stops == sampled /\ tokens[r] + 1 = Len(Content[r])
<1>12. tokens' = IF sampled THEN [tokens EXCEPT ![r] = @ + 1] ELSE tokens
  BY DEF Output, r
<1>13. /\ tokens' \in [Requests -> Nat] /\ \A q \in Requests : q # r => tokens'[q] = tokens[q]
       /\ tokens'[r] = IF sampled THEN tokens[r] + 1 ELSE tokens[r]
  BY <1>2, <1>3, <1>12
<1>14. /\ \A q \in Requests : tokens'[q] \in Prompt[q]..Len(Content[q])
       /\ tokens'[r] > 0 /\ computed[r] < tokens'[r] /\ (~stops => tokens'[r] < Len(Content[r]))
  <2>1. tokens'[r] \in Prompt[r]..Len(Content[r])
    BY <1>11, <1>13
  <2>2. tokens'[r] > 0 /\ computed[r] < tokens'[r] /\ (~stops => tokens'[r] < Len(Content[r]))
    BY <1>11, <1>13
  <2>3. \A q \in Requests : q # r => tokens'[q] \in Prompt[q]..Len(Content[q])
    BY <1>13 DEF LightInv, PolicyTypes
  <2> QED
    BY <2>1, <2>2, <2>3
<1>15. CASE stops
  <2>1. /\ FreeRequest(r) /\ UpdateEma(r) /\ running' = Without(running, r)
    BY <1>15 DEF Output, r
  <2>2. status' = [status EXCEPT ![r] = "finished"] /\ GivesBack(r)
    BY <2>1 DEF FreeRequest, GivesBack
  <2>3. unreported' \in BOOLEAN
    BY <2>1 DEF FreeRequest
  <2> HIDE DEF stops, sampled
  <2>4. ema' \in Nat /\ ema' >= MinOutput
    <3> DEFINE obs == Largest(tokens'[r] - Prompt[r], MinOutput)
    <3>1. obs \in Int /\ obs >= MinOutput /\ MinOutput \in Nat
      BY <1>3, <1>11, <1>13, PolicyAssumption DEF Largest
    <3>2. ema' \in Smallest(ema, obs)..Largest(ema, obs)
      BY <2>1 DEF UpdateEma
    <3> HIDE DEF obs
    <3>3. ema \in Nat /\ ema >= MinOutput
      BY DEF LightInv, PolicyTypes
    <3> QED
      BY <3>1, <3>2, <3>3 DEF Smallest, Largest
  <2>5. /\ running' \in Seq(Requests) /\ Len(running') <= Len(running)
        /\ ToSet(running') = ToSet(running) \ {r} /\ IsInjective(running')
    BY <1>2, <1>9, <2>1, WithoutProperties, WithoutElements
  <2>6. /\ Own!CacheInv' /\ TablesFit' /\ Deferred' = Deferred \ {r}
        /\ computed' = [computed EXCEPT ![r] = 0]
    <3>1. \A d \in Deferred \ {r} : tokens'[d] = tokens[d]
      BY <1>13 DEF LightInv, TablesFit
    <3> QED
      BY <1>1, <1>3, <2>2, <3>1, GiveBackKeeps DEF LightInv, StepWrites, InStep
  <2>7. PolicyTypes'
    <3>1. status' \in [Requests -> {"new", "waiting", "running", "preempted", "finished"}]
      BY <1>2, <1>3, <2>2
    <3>2. waiting' \in Seq(Requests) /\ skipped' \in Seq(Requests)
      BY <1>1 DEF LightInv, PolicyTypes
    <3> QED
      BY <1>1, <1>4, <1>13, <1>14, <2>3, <2>4, <2>5, <3>1, <3>2 DEF LightInv, PolicyTypes
  <2>8. ListsFit'
    <3>1. ToSet(running') = {q \in Requests : status'[q] = "running"}
      BY <1>2, <1>3, <1>9, <2>2, <2>5
    <3>2. ToSet(Line) = {q \in Requests : status'[q] \in {"waiting", "preempted"}}
      BY <1>2, <1>3, <1>9, <1>10, <2>2
    <3> QED
      BY <1>1, <1>8, <1>9, <2>5, <2>6, <3>1, <3>2 DEF ListsFit
  <2>9. TokensFit'
    <3>1. computed'[r] = 0 /\ status'[r] = "finished"
      BY <1>2, <1>3, <2>2, <2>6
    <3>2. \A q \in Requests : q # r => computed'[q] = computed[q] /\ status'[q] = status[q]
      BY <1>2, <2>2, <2>6
    <3>3. tokens'[r] \in Nat
      BY <1>3, <1>13
    <3> QED
      BY <1>7, <1>13, <1>14, <3>1, <3>2, <3>3 DEF LightInv, TokensFit
  <2>10. BatchFits' /\ LoopFits'
    BY <1>1, <1>2, <1>5, <1>6, <1>7, <2>2 DEF BatchFits, LoopFits
  <2>11. AdmittedBound'
    BY <2>5, <2>6, FewerAdmitted
  <2> QED
    BY <1>8, <2>6, <2>7, <2>8, <2>9, <2>10, <2>11 DEF LightInv
<1>16. CASE ~stops
  <2>1. UNCHANGED <<kv, status, unreported, held, ema, running>>
    BY <1>16 DEF Output, r
  <2>2. Deferred' = Deferred /\ computed' = computed /\ table' = table /\ numCached' = numCached
        /\ assigned' = assigned /\ due' = due
    BY <2>1 DEF Deferred, kv
  <2> HIDE DEF sampled
  <2>3. TablesFit'
    <3>1. \A d \in Deferred : tokens'[d] = tokens[d]
      BY <1>10, <1>13 DEF LightInv, TablesFit
    <3> QED
      BY <2>1, <2>2, <3>1 DEF LightInv, TablesFit, HitTokens, Blocks
  <2>4. PolicyTypes'
    BY <1>1, <1>4, <1>13, <1>14, <2>1 DEF LightInv, PolicyTypes
  <2>5. ListsFit'
    BY <1>1, <1>8, <2>1, <2>2 DEF LightInv, ListsFit
  <2>6. TokensFit'
    <3>1. tokens'[r] < Len(Content[r]) /\ computed[r] < tokens'[r] /\ computed[r] <= tokens'[r]
      <4>1. tokens'[r] \in Nat
        BY <1>3, <1>13
      <4> QED
        BY <1>11, <1>14, <1>16, <4>1
    <3> HIDE DEF stops
    <3> QED
      BY <1>7, <1>13, <2>1, <2>2, <3>1 DEF LightInv, TokensFit
  <2>7. BatchFits' /\ LoopFits'
    BY <1>1, <1>5, <1>6, <1>7, <2>1 DEF BatchFits, LoopFits
  <2>8. AdmittedBound'
    BY <2>1, <2>2 DEF LightInv, AdmittedBound
  <2> QED
    BY <1>8, <2>1, <2>3, <2>4, <2>5, <2>6, <2>7, <2>8, OwnStays DEF LightInv, kv, books
<1> QED
  BY <1>15, <1>16

-----------------------------------------------------------------------------
\* Every step keeps the invariant and the order of the queue.
LEMMA LightStep ==
    ASSUME LightInv, StepWrites, [Next]_vars
    PROVE  LightInv' /\ KeepsPlaces
<1>1. Line' = Line => KeepsPlaces
  BY DEF KeepsPlaces
<1>2. CASE BeginSchedule
  BY <1>1, <1>2, BeginScheduleLight
<1>3. CASE AdmitCandidate
  BY <1>1, <1>3, AdmitCandidateLight
<1>4. CASE EndPreview
  BY <1>1, <1>4, EndPreviewLight
<1>5. CASE SkipRunning \/ PickRunning \/ LeaveRunning \/ LeaveWaiting \/ EndOutput \/ UNCHANGED vars
  BY <1>1, <1>5, LoopLight
<1>6. CASE ScheduleRunning
  BY <1>1, <1>6, ScheduleRunningLight
<1>7. CASE PreemptRunning
  BY <1>7, PreemptRunningLight
<1>8. CASE SkipWaiting
  BY <1>1, <1>8, SkipWaitingLight
<1>9. CASE ScheduleWaiting
  BY <1>9, ScheduleWaitingLight
<1>10. CASE EndSchedule
  BY <1>1, <1>10, EndScheduleLight
<1>11. CASE Output
  BY <1>1, <1>11, OutputLight
<1>12. ASSUME NEW r \in Requests, AddRequest(r) PROVE LightInv' /\ KeepsPlaces
  BY <1>12, AddRequestLight
<1>13. ASSUME NEW r \in Requests, Abort(r) PROVE LightInv' /\ KeepsPlaces
  BY <1>13, AbortLight
<1>14. CASE Idle
  BY <1>5, <1>14 DEF Idle
<1> QED
  BY <1>2, <1>3, <1>4, <1>5, <1>6, <1>7, <1>8, <1>9, <1>10, <1>11, <1>12, <1>13, <1>14
     DEF Next, EngineStep, Schedule, UpdateFromOutput

\* A request that joins the batch is scheduled.
LEMMA BatchAppends ==
    ASSUME NEW X, batch \in Seq(X), NEW e, batch' = Append(batch, e)
    PROVE  Scheduled \subseteq Scheduled' /\ e.req \in Scheduled'
<1>1. /\ Len(batch) \in Nat /\ DOMAIN batch = 1..Len(batch)
      /\ DOMAIN batch' = 1..(Len(batch) + 1)
      /\ \A i \in 1..Len(batch) : batch'[i] = batch[i]
      /\ batch'[Len(batch) + 1] = e
  OBVIOUS
<1>2. e \in ToSet(batch') /\ ToSet(batch) \subseteq ToSet(batch')
  BY <1>1 DEF ToSet
<1> QED
  BY <1>2 DEF Scheduled

\* Slots that are allocated for a request that is scheduled are to be written.
LEMMA SlotsDue ==
    ASSUME LightInv, LightInv', StepWrites, NEW r \in Requests,
           NEW refs, NEW free, NEW hits \in Seq(Blocks), NEW n, AllocateFrom(refs, free, r, hits, n),
           Scheduled \subseteq Scheduled', r \in Scheduled', InStep'
    PROVE  StepWrites'
<1> DEFINE start == Floor(IF table[r] = <<>> THEN Len(hits) * BlockSize ELSE computed[r], BlockSize)
           new == Popped(Touched(free, hits), NewBlockCount(r, hits, n))
           tbl == table[r] \o hits \o new
           written == {tbl[i] : i \in (start + 1)..Len(tbl)}
<1>1. /\ due' = [due EXCEPT ![r] = @ \cup written] /\ blank' = blank \ ToSet(new)
      /\ table' = [table EXCEPT ![r] = tbl]
  BY Zenon DEF AllocateFrom
<1> HIDE DEF new, tbl, start
<1>2. tbl \in Seq(Blocks) /\ Len(tbl) \in Nat
  <2>1. table \in [Requests -> Seq(Blocks)] /\ table' \in [Requests -> Seq(Blocks)]
    BY DEF LightInv, TablesFit, Blocks
  <2> QED
    BY <1>1, <2>1
<1>3. start \in Nat
  <2> DEFINE m == IF table[r] = <<>> THEN Len(hits) * BlockSize ELSE computed[r]
  <2>1. Len(hits) \in Nat /\ computed[r] \in Nat
    BY DEF LightInv, TablesFit
  <2>2. m \in Nat
    BY <2>1, WholeBlocks
  <2> HIDE DEF m
  <2>3. Own!Floor(m, BlockSize) \in Nat
    BY <2>2, OwnAssumptions, Own!Floors
  <2> QED
    BY <2>3 DEF start, m, Own!Floor, Floor
<1>4. written \subseteq Blocks
  BY <1>2, <1>3
<1> HIDE DEF written
<1>5. due' \in [Requests -> SUBSET Blocks] /\ \A q \in Requests \ {r} : due'[q] = due[q]
  BY <1>1, <1>4 DEF StepWrites
<1> QED
  BY <1>1, <1>5 DEF StepWrites, Blocks

\* Every step keeps what the step is to write in order.
LEMMA WritesStep ==
    ASSUME LightInv, LightInv', StepWrites, [Next]_vars
    PROVE  StepWrites'
<1>1. ASSUME UNCHANGED <<due, blank>>, InStep => InStep' /\ batch' = batch PROVE StepWrites'
  BY <1>1 DEF StepWrites, Scheduled, Blocks
<1>2. CASE \/ BeginSchedule \/ EndPreview \/ SkipRunning \/ PickRunning \/ LeaveRunning
           \/ SkipWaiting \/ LeaveWaiting \/ EndOutput \/ UNCHANGED vars
           \/ \E r \in Requests : AddRequest(r)
  <2>1. UNCHANGED kv
    BY <1>2 DEF BeginSchedule, EndPreview, SkipRunning, PickRunning, LeaveRunning, SkipWaiting,
                LeaveWaiting, EndOutput, vars, AddRequest
  <2>2. InStep => InStep' /\ batch' = batch
    BY <1>2 DEF InStep, BeginSchedule, EndPreview, SkipRunning, PickRunning, LeaveRunning,
                SkipWaiting, LeaveWaiting, EndOutput, vars, step, AddRequest
  <2> QED
    BY <1>1, <2>1, <2>2 DEF kv
<1>3. CASE AdmitCandidate
  BY <1>1, <1>3 DEF AdmitCandidate, Reserve, InStep
<1>4. CASE ScheduleRunning
  <2>1. /\ pc = "alloc" /\ pc' = "running" /\ AllocateSlots(current, <<>>, Slots(current))
        /\ batch' = Append(batch, [req |-> current, num |-> NewTokens(current, computed[current])])
    BY <1>4 DEF ScheduleRunning
  <2>2. current \in Requests
    BY <2>1 DEF LightInv, LoopFits, PolicyTypes
  <2>3. Scheduled \subseteq Scheduled' /\ current \in Scheduled'
    <3> DEFINE e == [req |-> current, num |-> NewTokens(current, computed[current])]
    <3>1. e.req = current /\ batch' = Append(batch, e)
      BY <2>1
    <3> HIDE DEF e
    <3> QED
      BY <3>1, BatchAppends DEF LightInv, PolicyTypes
  <2>4. InStep'
    BY <2>1 DEF InStep
  <2>5. <<>> \in Seq(Blocks)
    OBVIOUS
  <2> QED
    BY <2>1, <2>2, <2>3, <2>4, <2>5, SlotsDue DEF AllocateSlots
<1>5. CASE ScheduleWaiting
  <2> DEFINE r == Head(waiting)
  <2>1. /\ pc = "waiting" /\ pc' = pc /\ waiting # <<>>
        /\ AllocateFrom(ReleasedRefs(r), ReleasedQueue(r), r, held[r], FirstSlots(r))
        /\ batch' = Append(batch, [req |-> r, num |-> NewTokens(r, HitTokens(r))])
        /\ r \in Deferred
    BY <1>5 DEF ScheduleWaiting, MayAdmit
  <2>2. r \in Requests /\ held[r] \in Seq(Blocks)
    BY <2>1 DEF LightInv, TablesFit
  <2> HIDE DEF r
  <2>3. Scheduled \subseteq Scheduled' /\ r \in Scheduled'
    <3> DEFINE e == [req |-> r, num |-> NewTokens(r, HitTokens(r))]
    <3>1. e.req = r /\ batch' = Append(batch, e)
      BY <2>1
    <3> HIDE DEF e
    <3> QED
      BY <3>1, BatchAppends DEF LightInv, PolicyTypes
  <2>4. InStep'
    BY <2>1 DEF InStep
  <2> QED
    BY <2>1, <2>2, <2>3, <2>4, SlotsDue
<1>6. CASE PreemptRunning
  <2> DEFINE v == Last(running)
  <2>1. /\ pc = "alloc" /\ pc' \in {"commit", "alloc"} /\ Free(v) /\ batch' = batch
    BY <1>6 DEF PreemptRunning, OutOfBlocks
  <2>2. v \in Requests /\ v \notin Scheduled
    <3>1. index \in DOMAIN running /\ running \in Seq(Requests) /\ index \in Nat
      BY <2>1 DEF LightInv, LoopFits, PolicyTypes
    <3>2. Len(running) \in DOMAIN running /\ Len(running) >= index
      BY <3>1
    <3> QED
      BY <2>1, <3>1, <3>2 DEF Last, LightInv, LoopFits
  <2> HIDE DEF v
  <2>3. due' = [due EXCEPT ![v] = {}] /\ blank' = blank \cup due[v]
    BY <2>1 DEF Free
  <2>4. due[v] = {} /\ due' = due /\ blank' = blank
    BY <2>2, <2>3 DEF StepWrites
  <2> QED
    BY <1>1, <2>1, <2>4 DEF InStep
<1>7. CASE EndSchedule
  <2>1. due' = [r \in Requests |-> {}] /\ blank' = blank
    BY <1>7 DEF EndSchedule, WriteBatch
  <2> QED
    BY <2>1 DEF StepWrites
<1>8. CASE Output \/ \E r \in Requests : Abort(r)
  <2>1. pc \in {"input", "output"} /\ \A r \in Requests : due[r] = {}
    BY <1>8 DEF Output, Abort, StepWrites, InStep
  <2>2. ASSUME NEW r \in Requests, FreeRequest(r) PROVE UNCHANGED <<due, blank>>
    <3>1. \/ UNCHANGED <<due, blank>>
          \/ due' = [due EXCEPT ![r] = {}] /\ blank' = blank \cup due[r]
      BY <2>2 DEF FreeRequest, DropDeferred, Free, kv
    <3> QED
      BY <2>1, <3>1 DEF StepWrites
  <2>3. batch # <<>> => Head(batch).req \in Requests
    <3> DEFINE E == [req : Requests, num : 1..MaxBatch]
    <3>1. batch \in Seq(E)
      BY DEF LightInv, PolicyTypes
    <3>2. \A e \in E : e.req \in Requests
      OBVIOUS
    <3> HIDE DEF E
    <3> QED
      BY <3>1, <3>2
  <2>4. UNCHANGED <<due, blank>>
    BY <1>8, <2>2, <2>3 DEF Output, Abort, kv
  <2> QED
    BY <1>1, <2>1, <2>4 DEF InStep
<1> QED
  BY <1>2, <1>3, <1>4, <1>5, <1>6, <1>7, <1>8
     DEF Next, EngineStep, Schedule, UpdateFromOutput, Idle

\* The invariant holds in every state.
LEMMA LightInvariance == Spec => [](LightInv /\ StepWrites)
<1>1. LightInv /\ StepWrites /\ [Next]_vars => (LightInv /\ StepWrites)'
  BY LightStep, WritesStep
<1> QED
  BY LightInitHolds, <1>1, PTL DEF Spec

\* The types of the policy and of its cache.
LEMMA LightTypes ==
    ASSUME LightInv, StepWrites
    PROVE  TypeOK
<1>1. CacheTypeOK
  <2>1. BooksTypeOK
    BY OwnFacts DEF LightInv, TablesFit, BooksTypeOK
  <2> QED
    BY <2>1 DEF CacheTypeOK, StepWrites
<1>2. Deferred \subseteq Requests /\ \A r \in Deferred : held[r] \in Seq(Blocks)
  BY DEF LightInv, TablesFit
<1>3. {busy, prefill, unreported, preempted} \subseteq BOOLEAN
  BY Zenon DEF LightInv, PolicyTypes
<1>4. PolicyTypes
  BY DEF LightInv
<1> QED
  BY <1>1, <1>2, <1>3, <1>4 DEF TypeOK, PolicyTypes

\* A reference is one of a table or one of a hold, and those who hold wait.
LEMMA LightBooks ==
    ASSUME LightInv
    PROVE  HoldsExact
<1>1. Own!CacheInv /\ TablesFit
  BY DEF LightInv
<1>2. ASSUME NEW b \in Blocks
      PROVE  refCnt[b] = Cardinality({r \in Requests : Contains(table[r], b)})
                           + Cardinality({r \in Deferred : Contains(held[r], b)})
  <2> DEFINE A == {r \in Requests : Contains(Owned[r], b)}
             T == {r \in Requests : Contains(table[r], b)}
             H == {r \in Deferred : Contains(held[r], b)}
  <2>1. refCnt[b] = Cardinality(A)
    BY <1>1, OwnFacts
  <2>2. \A r \in Requests : ~Contains(<<>>, b)
    BY DEF Contains
  <2>3. \A r \in Deferred : table[r] = <<>> /\ r \in Requests
    BY <1>1 DEF TablesFit
  <2>4. \A r \in Requests : Owned[r] = IF r \in Deferred THEN held[r] ELSE table[r]
    BY DEF Owned
  <2>5. A = T \cup H /\ T \cap H = {}
    BY <2>2, <2>3, <2>4
  <2>6. IsFiniteSet(T) /\ IsFiniteSet(H)
    <3>1. T \subseteq Requests /\ H \subseteq Requests
      BY <2>3
    <3> HIDE DEF T, H
    <3> QED
      BY <3>1, CacheAssumption, FS_Subset
  <2> HIDE DEF A, T, H
  <2>7. Cardinality(A) = Cardinality(T) + Cardinality(H)
    BY <2>5, <2>6, DisjointUnion
  <2> QED
    BY <2>1, <2>7 DEF T, H
<1>3. /\ ToSet(freeQueue) = {b \in Blocks : refCnt[b] = 0}
      /\ \A i, j \in DOMAIN freeQueue : i # j => freeQueue[i] # freeQueue[j]
  BY <1>1, OwnFacts DEF IsInjective
<1>4. Deferred \subseteq ToSet(waiting) \cup ToSet(skipped)
  <2>1. ToSet(Line) = ToSet(skipped) \cup ToSet(waiting)
    BY ConcatElements DEF Line, LightInv, PolicyTypes
  <2> QED
    BY <2>1 DEF LightInv, ListsFit
<1>5. ASSUME NEW r \in Requests PROVE table[r] # <<>> <=> Contains(running, r)
  <2>1. Contains(running, r) <=> r \in ToSet(running)
    <3>1. DOMAIN running = 1..Len(running)
      BY DEF LightInv, PolicyTypes
    <3> QED
      BY <3>1 DEF Contains, ToSet
  <2>2. r \in ToSet(running) <=> computed[r] > 0
    BY DEF LightInv, ListsFit, TokensFit
  <2>3. computed[r] \in Nat
    BY <1>1 DEF TablesFit
  <2>4. CASE r \in Deferred
    <3>1. table[r] = <<>> /\ computed[r] = 0
      BY <1>1, <2>4 DEF TablesFit
    <3> QED
      BY <2>1, <2>2, <3>1
  <2>5. CASE r \notin Deferred
    <3>1. table[r] = <<>> <=> computed[r] = 0
      BY <1>1, <2>5, NoBlocksNoTokens
    <3> QED
      BY <2>1, <2>2, <2>3, <3>1
  <2> QED
    BY <2>4, <2>5
<1> QED
  BY <1>2, <1>3, <1>4, <1>5 DEF HoldsExact

\* A hold is made of full blocks of its own request.
LEMMA LightPrefixes ==
    ASSUME LightInv, StepWrites
    PROVE  HeldPrefixIntact
<1> SUFFICES ASSUME NEW r \in Deferred, NEW i \in DOMAIN held[r]
             PROVE  /\ blockHash[held[r][i]] = HashOf(r, i)
                    /\ assigned[held[r][i]] = HashOf(r, i)
  BY DEF HeldPrefixIntact, StepWrites
<1>1. r \in Requests /\ held[r] \in Seq(Blocks)
  BY DEF LightInv, TablesFit
<1>2. Owned[r] = held[r] /\ OwnedFull[r] = Len(held[r])
  BY <1>1, NoBlocksNoTokens DEF LightInv
<1>3. i \in Nat /\ i > 0 /\ i <= Len(held[r]) /\ held[r][i] \in Blocks
  BY <1>1
<1>4. Own!CacheMapConsistent
  BY DEF LightInv, Own!CacheInv
<1>5. blockHash[held[r][i]] = HashOf(r, i)
  <2>1. blockHash[Owned[r][i]] = IF i <= OwnedFull[r] THEN Own!HashOf(r, i) ELSE Own!NoHash
    BY <1>1, <1>2, <1>4 DEF Own!CacheMapConsistent
  <2> QED
    BY <1>2, <1>3, <2>1 DEF Own!HashOf, HashOf
<1>6. HashOf(r, i) # NoHash
  <2>1. i * BlockSize \in Nat /\ i * BlockSize > 0
    BY <1>3, WholeBlocks
  <2> DEFINE n == i * BlockSize
  <2> HIDE DEF n
  <2> DEFINE h == SubSeq(Content[r], 1, n)
  <2>2. n \in Nat /\ n > 0 /\ HashOf(r, i) = h
    BY <2>1 DEF HashOf, n
  <2>3. Len(h) = n
    BY <1>1, <2>2, CacheAssumption
  <2> HIDE DEF h
  <2>4. h # <<>>
    BY <2>2, <2>3
  <2> QED
    BY <2>2, <2>4 DEF NoHash
<1>7. assigned[held[r][i]] = blockHash[held[r][i]]
  BY <1>3, <1>4, <1>5, <1>6 DEF Own!CacheMapConsistent, Own!Blocks, Blocks, Own!NoHash, NoHash
<1> QED
  BY <1>5, <1>7

\* Under the LightLLM policy every reference of a block is one of a table or of
\* a hold, whatever is deferred, preempted, aborted and finished in between; a
\* held prefix hit stays what the preview found; and those who hold count
\* against the limit on running requests (_lightllm_reserve_prefix_blocks,
\* _lightllm_release_prefix_blocks, _lightllm_drop_deferred, schedule()).
THEOREM HoldsCorrect == Spec => []HoldsSound
<1>1. LightInv /\ StepWrites => HoldsSound
  BY LightTypes, LightBooks, LightPrefixes DEF HoldsSound, LightInv
<1> QED
  BY LightInvariance, <1>1, PTL

\* Requests that wait before and after a step wait in the same order: neither
\* scanning past a deferred request nor restoring it costs it its place
\* (skipped_waiting_requests, prepend_requests).
THEOREM OrderKept == Spec => KeepsFCFS
<1>1. LightInv /\ StepWrites /\ [Next]_vars =>
        [LET old == skipped \o waiting
             new == skipped' \o waiting'
         IN  \A q, r \in ToSet(old) \cap ToSet(new) :
                Precedes(old, q, r) => Precedes(new, q, r)]_vars
  BY LightStep DEF KeepsPlaces, Line
<1> QED
  BY LightInvariance, <1>1, PTL DEF Spec, KeepsFCFS
=============================================================================
