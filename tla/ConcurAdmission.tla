--------------------------- MODULE ConcurAdmission ---------------------------
(***************************************************************************)
(* The Concur admission controller of run_task_workload.py, the thread     *)
(* pool that runs one agent per admitted task, and the gate file at which  *)
(* an agent's backend proxy (backend_proxy.py) waits before each model     *)
(* request.                                                                *)
(*                                                                         *)
(* The driver is one thread; stage says where in its loop it is.  The      *)
(* agents run beside it and share with it the gate files and the futures.  *)
(***************************************************************************)
EXTENDS QueueOrder

CONSTANTS
    NumTasks,         \* the tasks are 1..NumTasks, in order of arrival
    Workers,          \* effective_max_workers
    MaxActive,        \* concur_max_active_agents; 0 means no limit of its own
    WindowInit,       \* concur_window_init
    Increase,         \* concur_additive_increase
    DecreaseNum,      \* concur_multiplicative_decrease is
    DecreaseDen,      \*     DecreaseNum / DecreaseDen
    Turns             \* model requests an agent makes

ASSUME ConcurAssumption ==
    /\ NumTasks \in Nat
    /\ Workers \in Nat \ {0}
    /\ MaxActive \in Nat
    /\ WindowInit \in Nat \ {0}
    /\ Increase \in Nat
    /\ DecreaseNum \in Nat /\ DecreaseDen \in Nat \ {0} /\ DecreaseNum <= DecreaseDen
    /\ Turns \in Nat \ {0}

VARIABLES
    stage,       \* the driver: "poll", "emit", "control", "reconcile", "check",
                 \* "completed" or "stopped"
    emitted,     \* next_index: tasks 1..emitted have arrived
    backlog,     \* backlog
    active,      \* concur_active_agents
    paused,      \* concur_paused_agents
    activeOrder, \* concur_active_order
    pausedOrder, \* concur_paused_order
    window,      \* concur_active_limit
    gates,       \* the tasks whose gate file exists
    futures,     \* submitted tasks whose result is not collected
    agent,       \* what a task's worker does: see AgentStates
    turns        \* model requests the agent still has to make

driver == <<emitted, backlog>>
concur == <<active, paused, activeOrder, pausedOrder>>
agents == <<agent, turns>>
controller == <<stage, driver, concur, window, gates, futures, agents>>

Tasks == 1..NumTasks
\* none: not submitted; queued: no thread yet; ready: between model requests;
\* calling: a model request is in flight; done: the worker has returned.
AgentStates == {"none", "queued", "ready", "calling", "done"}

Lesser(a, b) == IF a <= b THEN a ELSE b
Greater(a, b) == IF a >= b THEN a ELSE b

\* concur_window_max and the initial concur_active_limit
WindowMax == Greater(1, Lesser(Workers, IF MaxActive > 0 THEN MaxActive ELSE Workers))
InitialWindow == Greater(1, Lesser(WindowInit, WindowMax))

ConcurInit ==
    /\ stage = "poll"
    /\ emitted = 0 /\ backlog = <<>>
    /\ active = {} /\ paused = {} /\ activeOrder = <<>> /\ pausedOrder = <<>>
    /\ window = InitialWindow
    /\ gates = {} /\ futures = {}
    /\ agent = [t \in Tasks |-> "none"]
    /\ turns = [t \in Tasks |-> Turns]

-----------------------------------------------------------------------------
\* Mutant: the gate file of a finished task stays.
CompleteKeepGate(t) ==
    /\ futures' = futures \ {t}
    /\ active' = active \ {t}
    /\ paused' = paused \ {t}
    /\ activeOrder' = Without(activeOrder, t)
    /\ pausedOrder' = Without(pausedOrder, t)
    /\ UNCHANGED gates

\* _collect_completed_requests and _concur_complete for one finished task.
Complete(t) ==
    /\ futures' = futures \ {t}
    /\ active' = active \ {t}
    /\ paused' = paused \ {t}
    /\ activeOrder' = Without(activeOrder, t)
    /\ pausedOrder' = Without(pausedOrder, t)
    /\ gates' = gates \ {t}

\* _poll_runtime_state: every future that is done is collected.
Collect(t) ==
    /\ stage = "poll"
    /\ t \in futures
    /\ agent[t] = "done"
    /\ Complete(t)
    /\ UNCHANGED <<stage, driver, window, agents>>

LeavePoll ==
    /\ stage = "poll"
    /\ \A t \in futures : agent[t] # "done"
    /\ stage' = "emit"
    /\ UNCHANGED <<driver, concur, window, gates, futures, agents>>

\* SIGTERM: the loop is left and nothing more is admitted.
StopRequested ==
    /\ stage = "emit"
    /\ stage' = "stopped"
    /\ UNCHANGED <<driver, concur, window, gates, futures, agents>>

\* A task's arrival time has passed.
Emit ==
    /\ stage = "emit"
    /\ emitted < NumTasks
    /\ emitted' = emitted + 1
    /\ backlog' = Append(backlog, emitted + 1)
    /\ UNCHANGED <<stage, concur, window, gates, futures, agents>>

LeaveEmit ==
    /\ stage = "emit"
    /\ stage' = "control"
    /\ UNCHANGED <<driver, concur, window, gates, futures, agents>>

-----------------------------------------------------------------------------
\* _next_concur_window: the AIMD law.  Without telemetry, without a hit rate,
\* and between the watermarks the window holds.
Grow(w) == Lesser(WindowMax, Greater(1, Lesser(w, WindowMax)) + Increase)
Shrink(w) == Greater(1, (Greater(1, Lesser(w, WindowMax)) * DecreaseNum) \div DecreaseDen)
NextWindows == {window, Grow(window), Shrink(window)}

Control ==
    /\ stage = "control"
    /\ window' \in NextWindows
    /\ stage' = "reconcile"
    /\ UNCHANGED <<driver, concur, gates, futures, agents>>

\* Mutant: the oldest agent is paused.
OldestIndex == 1
\* concur_active_order.pop(): the newest agent.
PauseIndex == Len(activeOrder)

\* _concur_reconcile, first loop: pause while there are too many.
MustPause == Cardinality(active) > window /\ activeOrder # <<>>
Pause ==
    /\ stage = "reconcile"
    /\ MustPause
    /\ LET t == activeOrder[PauseIndex]
       IN  /\ activeOrder' = RemoveAt(activeOrder, PauseIndex)
           /\ IF t \in active
                 THEN /\ active' = active \ {t}
                      /\ paused' = paused \cup {t}
                      /\ pausedOrder' = Append(pausedOrder, t)
                      /\ gates' = gates \ {t}
                 ELSE UNCHANGED <<active, paused, pausedOrder, gates>>
    /\ UNCHANGED <<stage, driver, window, futures, agents>>

\* Mutant: a paused agent counts against the window it waits for.
MayResumeBeside == Cardinality(active) + Cardinality(paused) < window /\ pausedOrder # <<>>

\* Second loop: resume the agent paused first.
MayResume == Cardinality(active) < window /\ pausedOrder # <<>>
Resume ==
    /\ stage = "reconcile"
    /\ MayResume
    /\ LET t == Head(pausedOrder)
       IN  /\ pausedOrder' = Tail(pausedOrder)
           /\ IF t \in paused
                 THEN /\ paused' = paused \ {t}
                      /\ active' = active \cup {t}
                      /\ activeOrder' = Append(activeOrder, t)
                      /\ gates' = gates \cup {t}
                 ELSE UNCHANGED <<active, paused, activeOrder, gates>>
    /\ UNCHANGED <<stage, driver, window, futures, agents>>

\* Mutant: new tasks are admitted past the paused agents.
MayEnterPast == Cardinality(active) < window /\ backlog # <<>>

\* With nobody left to resume, admit the oldest task of the backlog.
MayEnter == Cardinality(active) < window /\ pausedOrder = <<>> /\ backlog # <<>>
Admit ==
    /\ stage = "reconcile"
    /\ MayEnter
    /\ LET t == Head(backlog)
       IN  /\ backlog' = Tail(backlog)
           /\ active' = active \cup {t}
           /\ activeOrder' = Append(activeOrder, t)
           /\ gates' = gates \cup {t}
           /\ futures' = futures \cup {t}
           /\ agent' = [agent EXCEPT ![t] = "queued"]
    /\ UNCHANGED <<stage, emitted, paused, pausedOrder, window, turns>>

LeaveReconcile ==
    /\ stage = "reconcile"
    /\ ~MustPause /\ ~MayResume /\ ~MayEnter
    /\ stage' = "check"
    /\ UNCHANGED <<driver, concur, window, gates, futures, agents>>

\* The end of the loop body.
Check ==
    /\ stage = "check"
    /\ stage' = IF emitted = NumTasks /\ backlog = <<>> /\ futures = {} THEN "completed" ELSE "poll"
    /\ UNCHANGED <<driver, concur, window, gates, futures, agents>>

-----------------------------------------------------------------------------
\* The thread pool gives a submitted task one of its threads.
Busy == {t \in Tasks : agent[t] \in {"ready", "calling"}}
StartWorker(t) ==
    /\ agent[t] = "queued"
    /\ Cardinality(Busy) < Workers
    /\ agent' = [agent EXCEPT ![t] = "ready"]
    /\ UNCHANGED <<stage, driver, concur, window, gates, futures, turns>>

\* _wait_for_admission_gate: a model request leaves only through an open gate.
StartModelRequest(t) ==
    /\ agent[t] = "ready"
    /\ turns[t] > 0
    /\ t \in gates
    /\ agent' = [agent EXCEPT ![t] = "calling"]
    /\ turns' = [turns EXCEPT ![t] = @ - 1]
    /\ UNCHANGED <<stage, driver, concur, window, gates, futures>>

EndModelRequest(t) ==
    /\ agent[t] = "calling"
    /\ agent' = [agent EXCEPT ![t] = "ready"]
    /\ UNCHANGED <<stage, driver, concur, window, gates, futures, turns>>

EndWorker(t) ==
    /\ agent[t] = "ready"
    /\ turns[t] = 0
    /\ agent' = [agent EXCEPT ![t] = "done"]
    /\ UNCHANGED <<stage, driver, concur, window, gates, futures, turns>>

\* The worker fails, is killed or exceeds its time: while it waits at its gate,
\* in a model request or between two of them.
WorkerFails(t) ==
    /\ t \in Busy
    /\ agent' = [agent EXCEPT ![t] = "done"]
    /\ UNCHANGED <<stage, driver, concur, window, gates, futures, turns>>

-----------------------------------------------------------------------------
Reconcile == Pause \/ Resume \/ Admit \/ LeaveReconcile
Driver ==
    \/ \E t \in Tasks : Collect(t)
    \/ LeavePoll \/ Emit \/ LeaveEmit \/ Control \/ Reconcile \/ Check
Agent(t) == StartWorker(t) \/ StartModelRequest(t) \/ EndModelRequest(t) \/ EndWorker(t)
Over == stage \in {"completed", "stopped"} /\ UNCHANGED controller

ConcurNext ==
    \/ Driver \/ StopRequested
    \/ \E t \in Tasks : Agent(t) \/ WorkerFails(t)
    \/ Over

ConcurSpec == ConcurInit /\ [][ConcurNext]_controller

\* The driver loops, tasks arrive in time, threads start and workers whose
\* gate is open get on; nothing is assumed about the telemetry, and no worker
\* has to fail.
FairSpec ==
    /\ ConcurSpec
    /\ WF_controller(Driver) /\ SF_controller(Emit)
    /\ \A t \in Tasks : WF_controller(Agent(t))

-----------------------------------------------------------------------------
ConcurTypeOK ==
    /\ stage \in {"poll", "emit", "control", "reconcile", "check", "completed", "stopped"}
    /\ emitted \in 0..NumTasks
    /\ backlog \in Seq(Tasks)
    /\ active \subseteq Tasks /\ paused \subseteq Tasks
    /\ activeOrder \in Seq(Tasks) /\ pausedOrder \in Seq(Tasks)
    /\ window \in 1..WindowMax
    /\ gates \subseteq Tasks /\ futures \subseteq Tasks
    /\ agent \in [Tasks -> AgentStates]
    /\ turns \in [Tasks -> Nat]

\* The controller's sets, its two order lists, the gate files on disk and the
\* outstanding futures tell one story: every submitted task is active or
\* paused, its gate is open exactly when it is active, and the lists have
\* every agent once.
OneStory ==
    /\ active \cap paused = {}
    /\ active \cup paused = futures
    /\ gates = active
    /\ ToSet(activeOrder) = active /\ IsInjective(activeOrder)
    /\ ToSet(pausedOrder) = paused /\ IsInjective(pausedOrder)

\* However the window moves, the admitted agents never outnumber the largest
\* window, so each of them has a thread of the pool and a paused agent never
\* keeps an active one from starting.
AgentsFitPool ==
    /\ Cardinality(active \cup paused) <= WindowMax
    /\ WindowMax <= Workers

\* The agent at the head of the active list is never paused: however small the
\* window becomes, somebody makes progress.
OldestKeepsRunning ==
    [][activeOrder # <<>> => Head(activeOrder) \notin paused']_controller

\* Unless it is stopped, the run ends with every task's result collected.
RunEnds == <>(stage \in {"completed", "stopped"})
=============================================================================
