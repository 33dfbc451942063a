------------------------------- MODULE ToolPool -------------------------------
(***************************************************************************)
(* The CPU tool pool of the replay driver                                  *)
(* (experiments/replay/vllm_tool_baseline/tool_pool.py) and the requests   *)
(* that use it (run_one_request_async of run_experiment.py), which take    *)
(* turns between the engine and a tool.                                    *)
(*                                                                         *)
(* Without thread_pool, worker processes share a queue of tasks; with it,  *)
(* every task is a process of its own with a thread that waits for it.     *)
(* Either way a collector thread takes the results and answers the one     *)
(* who waits for that task, who gives up after an hour.  The collector's   *)
(* averages are left out: it looks for times under names that no result    *)
(* has, so there never are any.                                            *)
(*                                                                         *)
(* ReplayAdmission composes the pool with the driver that launches the     *)
(* requests and shuts the pool down.                                       *)
(***************************************************************************)
EXTENDS Integers, Sequences, FiniteSets, SequencesExt

CONSTANTS
    Requests,
    Rounds,       \* max_rounds
    Workers,      \* the worker processes, one per core
    Crashable,    \* the workers that may be killed while they run a tool
    Stop, Idle, Gone

Calls == Requests \X (1..Rounds)   \* the tasks: one per call of a tool

ASSUME PoolAssumption ==
    /\ Rounds \in Nat \ {0}
    /\ IsFiniteSet(Requests) /\ IsFiniteSet(Workers) /\ Crashable \subseteq Workers
    /\ {Stop, Idle, Gone} \cap Calls = {} /\ Idle # Gone

VARIABLES
    threadPool, \* cfg.thread_pool
    turn,      \* of a request: "new", then "gpu" and "tool" in turn, "done"
    round,     \* the last round of a request that has ended in an action
    futures,   \* _futures: the tasks nobody has answered
    inbox,     \* the tasks whose answer lies in its queue
    taskQ,     \* _task_q
    worker,    \* what a worker process does: a task, Idle or Gone
    procs,     \* _procs: the tasks that run in a process of their own
    resultQ,   \* _result_q
    collector, \* is the collector thread running
    down       \* shutdown(): "up", "join", "stop", "down"

clients == <<turn, round>>
pool == <<threadPool, futures, inbox, taskQ, worker, procs, resultQ, collector, down>>
poolVars == <<clients, pool>>

PoolInit ==
    /\ threadPool \in BOOLEAN
    /\ turn = [r \in Requests |-> "new"]
    /\ round = [r \in Requests |-> 0]
    /\ futures = {} /\ inbox = {}
    /\ taskQ = <<>> /\ procs = {} /\ resultQ = <<>>
    /\ worker = [w \in Workers |-> Idle]
    /\ collector = TRUE
    /\ down = "up"

TaskOf(r) == <<r, round[r]>>

-----------------------------------------------------------------------------
(* Requests.  Their coroutines stand still once shutdown() has begun. *)

\* A coroutine is started for every request of a set.
Launch(rs) ==
    /\ down = "up"
    /\ turn' = [r \in Requests |-> IF r \in rs THEN "gpu" ELSE turn[r]]
    /\ UNCHANGED <<round, pool>>

\* Mutant: one round more than max_rounds.
RoundPastLast(r) == round[r] <= Rounds
RoundLeft(r) == round[r] < Rounds

\* A task gets a process of its own; starting it may fail, and the failure is
\* the result.
Spawn(t) ==
    \/ procs' = procs \cup {t} /\ UNCHANGED resultQ
    \/ resultQ' = Append(resultQ, t) /\ UNCHANGED procs

\* The model's answer is a tool call: submit().
Submit(r) ==
    /\ down = "up"
    /\ turn[r] = "gpu"
    /\ RoundLeft(r)
    /\ round' = [round EXCEPT ![r] = @ + 1]
    /\ turn' = [turn EXCEPT ![r] = "tool"]
    /\ \E t \in {<<r, round[r] + 1>>} :
          /\ futures' = futures \cup {t}
          /\ \/ ~threadPool /\ taskQ' = Append(taskQ, t) /\ UNCHANGED <<procs, resultQ>>
             \/ threadPool /\ Spawn(t) /\ UNCHANGED taskQ
    /\ UNCHANGED <<threadPool, inbox, worker, collector, down>>

\* The model's answer is no action, and the request tells it so.
Feedback(r) ==
    /\ down = "up"
    /\ turn[r] = "gpu"
    /\ RoundLeft(r)
    /\ round' = [round EXCEPT ![r] = @ + 1]
    /\ UNCHANGED <<turn, pool>>

\* The model's answer is final, the engine fails, or it was the last round.
EndRequest(r) ==
    /\ down = "up"
    /\ turn[r] = "gpu"
    /\ turn' = [turn EXCEPT ![r] = "done"]
    /\ UNCHANGED <<round, pool>>

Answer(r) ==
    /\ down = "up"
    /\ turn[r] = "tool" /\ TaskOf(r) \in inbox
    /\ inbox' = inbox \ {TaskOf(r)}
    /\ turn' = [turn EXCEPT ![r] = "gpu"]
    /\ UNCHANGED <<threadPool, round, futures, taskQ, worker, procs, resultQ, collector, down>>

\* Mutant: a request whose time is up waits once more.
WaitAgain(r) == "tool"
AfterTimeout(r) == "gpu"

\* res_q.get(timeout=3600.0) gives up, and the request goes on without a result.
Timeout(r) ==
    /\ down = "up"
    /\ turn[r] = "tool" /\ TaskOf(r) \notin inbox
    /\ turn' = [turn EXCEPT ![r] = AfterTimeout(r)]
    /\ UNCHANGED <<round, pool>>

-----------------------------------------------------------------------------
(* Workers *)

WorkerTake(w) ==
    /\ worker[w] = Idle
    /\ taskQ # <<>>
    /\ worker' = [worker EXCEPT ![w] = IF Head(taskQ) = Stop THEN Gone ELSE Head(taskQ)]
    /\ taskQ' = Tail(taskQ)
    /\ UNCHANGED <<threadPool, clients, futures, inbox, procs, resultQ, collector, down>>

\* Whatever the tool does, its worker has a result for it.
WorkerFinish(w) ==
    /\ worker[w] \in Calls
    /\ resultQ' = Append(resultQ, worker[w])
    /\ worker' = [worker EXCEPT ![w] = Idle]
    /\ UNCHANGED <<threadPool, clients, futures, inbox, taskQ, procs, collector, down>>

\* The operating system kills a worker in the middle of a tool.
WorkerCrash(w) ==
    /\ w \in Crashable
    /\ worker[w] \in Calls
    /\ worker' = [worker EXCEPT ![w] = Gone]
    /\ UNCHANGED <<threadPool, clients, futures, inbox, taskQ, procs, resultQ, collector, down>>

\* The subprocess prints a result whatever the tool does; the thread that waits
\* for it takes an error for the result of one that was killed.
ResultOf(t) == resultQ' = Append(resultQ, t)

\* The process of a task ends, normally or not.
ProcExit(t) ==
    /\ t \in procs
    /\ procs' = procs \ {t}
    /\ ResultOf(t)
    /\ UNCHANGED <<threadPool, clients, futures, inbox, taskQ, worker, collector, down>>

-----------------------------------------------------------------------------
(* The collector thread *)

\* Mutant: the future of an answered task is kept.
KeepFuture(t) == futures
TakeFuture(t) == futures \ {t}

Deliver(t) == IF t \in futures THEN inbox \cup {t} ELSE inbox

Collect ==
    /\ collector
    /\ resultQ # <<>>
    /\ \E t \in {Head(resultQ)} :
          /\ inbox' = Deliver(t)
          /\ futures' = TakeFuture(t)
    /\ resultQ' = Tail(resultQ)
    /\ UNCHANGED <<threadPool, clients, taskQ, worker, procs, collector, down>>

-----------------------------------------------------------------------------
(* shutdown(), from the driver's finally clause *)

\* Every worker is told to stop after the tasks that are queued already; the
\* processes of a thread pool are terminated.
BeginShutdown ==
    /\ down = "up"
    /\ down' = "join"
    /\ taskQ' = IF threadPool THEN taskQ ELSE taskQ \o [i \in 1..Cardinality(Workers) |-> Stop]
    /\ UNCHANGED <<threadPool, clients, futures, inbox, worker, procs, resultQ, collector>>

\* The workers are gone, or the time is up and the rest are terminated.
EndJoin ==
    /\ down = "join"
    /\ worker' = [w \in Workers |-> IF threadPool THEN worker[w] ELSE Gone]
    /\ down' = "stop"
    /\ UNCHANGED <<threadPool, clients, futures, inbox, taskQ, procs, resultQ, collector>>

StopCollector ==
    /\ down = "stop"
    /\ collector' = FALSE
    /\ down' = "down"
    /\ UNCHANGED <<threadPool, clients, futures, inbox, taskQ, worker, procs, resultQ>>

-----------------------------------------------------------------------------
Coroutine(r) == Submit(r) \/ Feedback(r) \/ EndRequest(r) \/ Answer(r)
Worker(w) == WorkerTake(w) \/ WorkerFinish(w)
ShutDown == BeginShutdown \/ EndJoin \/ StopCollector
PoolStep ==
    \/ \E r \in Requests : Coroutine(r) \/ Timeout(r)
    \/ \E w \in Workers : Worker(w) \/ WorkerCrash(w)
    \/ \E t \in Calls : ProcExit(t)
    \/ Collect

-----------------------------------------------------------------------------
PoolTypeOK ==
    /\ turn \in [Requests -> {"new", "gpu", "tool", "done"}]
    /\ round \in [Requests -> 0..Rounds]
    /\ futures \subseteq Calls /\ inbox \subseteq Calls /\ procs \subseteq Calls
    /\ taskQ \in Seq(Calls \cup {Stop}) /\ resultQ \in Seq(Calls)
    /\ worker \in [Workers -> Calls \cup {Idle, Gone}]
    /\ down \in {"up", "join", "stop", "down"}
    /\ threadPool \in BOOLEAN /\ collector = (down # "down")

Executing == {worker[w] : w \in Workers} \cap Calls
UnderWay == (ToSet(taskQ) \ {Stop}) \cup Executing \cup procs \cup ToSet(resultQ)
GoneWorkers == {w \in Workers : worker[w] = Gone}

\* The load that the driver's admission sees (inflight in stats()) is what the
\* pool has to do: a task is in one place until it is answered, whether its
\* requester still waits or not, and only a killed worker takes one with it.
InflightExact ==
    /\ UnderWay \subseteq futures
    /\ futures \cap inbox = {}
    /\ Cardinality(UnderWay) = Cardinality({i \in DOMAIN taskQ : taskQ[i] # Stop}) + Cardinality(procs)
           + Cardinality({w \in Workers : worker[w] \in Calls}) + Len(resultQ)
    /\ down = "up" => Cardinality(futures \ UnderWay) <= Cardinality(GoneWorkers)

\* The pool's load is exact in both of its modes.
PoolSound == PoolTypeOK /\ InflightExact
=============================================================================
