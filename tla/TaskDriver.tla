------------------------------ MODULE TaskDriver ------------------------------
(***************************************************************************)
(* The driver loop of run_task_workload.py around its worker processes:    *)
(* every task runs in a thread of the pool, which supervises one worker    *)
(* process (the leader of its own group) and waits for its output to be    *)
(* closed.  A worker that exceeds the time-out is terminated in two        *)
(* stages, its descendants with it if they are of its group; a stop signal *)
(* or an exception ends the loop and leads to the shutdown.                *)
(* Admission control is left to MarsAdmission and ConcurAdmission.         *)
(***************************************************************************)
EXTENDS Integers, FiniteSets, Functions

CONSTANTS
    NumTasks,
    MaxWorkers,  \* effective_max_workers
    MayFail,     \* writing a record may fail once
    Descendants  \* the kinds of descendants that a worker may have, by cases

Tasks == 1..NumTasks

\* Descendants of a worker are of its process group or have a session of their
\* own, and have inherited its standard output or had theirs redirected.
Kinds == {"piped", "silent", "session", "daemon"}
InGroup == {"piped", "silent"}
WithOutput == {"piped", "session"}

ASSUME DriverAssumption ==
    /\ NumTasks \in Nat \ {0} /\ MaxWorkers \in Nat \ {0}
    /\ MayFail \in BOOLEAN
    /\ Descendants \subseteq SUBSET Kinds

VARIABLES
    emitted,  \* next_index
    future,   \* state of each task's future, "collected" when it left `futures`
    stage,    \* where the thread of each task is in _run_request_subprocess
    leader,   \* the worker process
    child,    \* the kinds of descendants of it that run
    records,  \* records of each task in traces
    phase,    \* where the main thread is
    stop,     \* signal_state["requested"]
    fatal,    \* fatal_exc
    completed,\* run_completed
    summary   \* [count, all]: completed_requests, completed_all_requests

threads == <<stage, leader, child>>
run == <<stop, fatal, completed, summary>>
vars == <<emitted, future, threads, records, phase, run>>

None == [count |-> 0, all |-> FALSE]

Init ==
    /\ emitted = 0
    /\ future = [t \in Tasks |-> "none"]
    /\ stage = [t \in Tasks |-> "idle"]
    /\ leader = [t \in Tasks |-> "none"]
    /\ child = [t \in Tasks |-> {}]
    /\ records = [t \in Tasks |-> 0]
    /\ phase = "poll"
    /\ stop = FALSE /\ fatal = FALSE /\ completed = FALSE
    /\ summary = None

-----------------------------------------------------------------------------
(* The threads of the pool *)

Busy == {t \in Tasks : future[t] = "running"}
Queued == {t \in Tasks : future[t] = "queued"}

\* A thread takes the oldest future and starts a worker, which may have
\* descendants.
StartWorker(t) ==
    /\ t \in Queued /\ \A q \in Queued : t <= q
    /\ Cardinality(Busy) < MaxWorkers
    /\ future' = [future EXCEPT ![t] = "running"]
    /\ stage' = [stage EXCEPT ![t] = "communicate"]
    /\ leader' = [leader EXCEPT ![t] = "alive"]
    /\ \E ds \in Descendants : child' = [child EXCEPT ![t] = ds]
    /\ UNCHANGED <<emitted, records, phase, run>>

\* The task is rejected by policy, or its worker cannot be started.
EndAtOnce(t) ==
    /\ t \in Queued /\ \A q \in Queued : t <= q
    /\ Cardinality(Busy) < MaxWorkers
    /\ future' = [future EXCEPT ![t] = "done"]
    /\ UNCHANGED <<emitted, threads, records, phase, run>>

\* The worker ends, well, badly or because it heeds SIGTERM; descendants may go
\* on.  Nothing says that it ends: its agent may wait at a closed gate, and the
\* signal may be ignored.  Nothing says that its descendants do.
WorkerEnds(t) ==
    /\ leader[t] = "alive"
    /\ leader' = [leader EXCEPT ![t] = "exited"]
    /\ UNCHANGED <<emitted, future, stage, child, records, phase, run>>
ChildEnds(t) ==
    /\ \E c \in child[t] : child' = [child EXCEPT ![t] = @ \ {c}]
    /\ UNCHANGED <<emitted, future, stage, leader, records, phase, run>>

Return(t) ==
    /\ future' = [future EXCEPT ![t] = "done"]
    /\ stage' = [stage EXCEPT ![t] = "idle"]

\* communicate() returns when the worker has ended and its output is closed.
OutputHeld(t) == child[t] \cap WithOutput # {}
OutputClosed(t) == leader[t] # "alive" /\ ~OutputHeld(t)

Communicated(t) ==
    /\ stage[t] \in {"communicate", "reap"}
    /\ OutputClosed(t)
    /\ Return(t)
    /\ UNCHANGED <<emitted, leader, child, records, phase, run>>

\* The time-out: SIGTERM goes to the group, if its leader still runs.
TimeoutExpires(t) ==
    /\ stage[t] = "communicate"
    /\ ~OutputClosed(t)
    /\ stage' = [stage EXCEPT ![t] = IF leader[t] = "alive" THEN "grace" ELSE "reap"]
    /\ UNCHANGED <<emitted, future, leader, child, records, phase, run>>

\* Mutant: the second stage signals the worker with SIGTERM again.
TermAgain(t) == UNCHANGED <<leader, child>>
Kill(t) ==
    /\ leader' = [leader EXCEPT ![t] = "exited"]
    /\ child' = [child EXCEPT ![t] = @ \ InGroup]

\* After the grace period the group is killed if the leader still runs, and
\* left alone if it has ended.
GraceExpires(t) ==
    /\ stage[t] = "grace"
    /\ stage' = [stage EXCEPT ![t] = "reap"]
    /\ IF leader[t] = "alive" THEN Kill(t) ELSE UNCHANGED <<leader, child>>
    /\ UNCHANGED <<emitted, future, records, phase, run>>

-----------------------------------------------------------------------------
(* The main thread *)

Done == {t \in Tasks : future[t] = "done"}
Outstanding == {t \in Tasks : future[t] \notin {"none", "collected"}}

\* Mutant: a future that raised leaves no record.
RecordedRuns(ts) ==
    [t \in Tasks |-> IF t \in ts /\ leader[t] # "none" THEN records[t] + 1 ELSE records[t]]
Recorded(ts) == [t \in Tasks |-> IF t \in ts THEN records[t] + 1 ELSE records[t]]
\* Mutant: what was collected stays among the futures.
Keep(ts) == future
Forget(ts) == [t \in Tasks |-> IF t \in ts THEN "collected" ELSE future[t]]

\* _poll_runtime_state at the top of the loop, or after a wait: record what is
\* done.
Poll ==
    /\ phase = "poll"
    /\ records' = Recorded(Done)
    /\ future' = Forget(Done)
    /\ phase' = "check"
    /\ UNCHANGED <<emitted, threads, run>>

\* An exception while records are written: some are, and all the futures stay.
\* In the loop it leads to the shutdown; in the last poll it is passed over.
CollectFails ==
    /\ phase \in {"poll", "final"}
    /\ MayFail /\ ~fatal
    /\ \E some \in SUBSET Done \ {{}} : records' = Recorded(some)
    /\ fatal' = TRUE
    /\ phase' = IF phase = "poll" THEN "final" ELSE "shutdown"
    /\ UNCHANGED <<emitted, future, threads, stop, completed, summary>>

CheckStop ==
    /\ phase = "check"
    /\ phase' = IF stop THEN "final" ELSE "emit"
    /\ UNCHANGED <<emitted, future, threads, records, run>>

\* A task whose time has come is submitted.
Emit ==
    /\ phase = "emit"
    /\ emitted < NumTasks
    /\ emitted' = emitted + 1
    /\ future' = [future EXCEPT ![emitted + 1] = "queued"]
    /\ UNCHANGED <<threads, records, phase, run>>

AllOver == emitted = NumTasks /\ Outstanding = {}

EndIteration ==
    /\ phase = "emit"
    /\ completed' = AllOver
    /\ phase' = IF AllOver THEN "final" ELSE "poll"
    /\ UNCHANGED <<emitted, future, threads, records, stop, fatal, summary>>

\* SIGINT, SIGTERM or SIGHUP, as long as the driver's handlers are installed.
Signal ==
    /\ phase \notin {"exit", "over", "killed"}
    /\ ~stop
    /\ stop' = TRUE
    /\ UNCHANGED <<emitted, future, threads, records, phase, fatal, completed, summary>>

\* The handlers are restored before the threads are joined: a signal then ends
\* the driver, and workers, which have sessions of their own, go on without it.
SignalAtExit ==
    /\ phase = "exit"
    /\ phase' = "killed"
    /\ UNCHANGED <<emitted, future, threads, records, run>>

\* The last poll.
FinalPoll ==
    /\ phase = "final"
    /\ records' = Recorded(Done)
    /\ future' = Forget(Done)
    /\ phase' = "shutdown"
    /\ UNCHANGED <<emitted, threads, run>>

\* After a signal or an exception what has not started is cancelled, and nobody
\* waits; otherwise the pool has nothing left to do.
Shutdown ==
    /\ phase = "shutdown"
    /\ IF stop \/ fatal
       THEN future' = [t \in Tasks |-> IF t \in Queued THEN "cancelled" ELSE future[t]]
       ELSE Busy \cup Queued = {} /\ UNCHANGED future
    /\ phase' = "summary"
    /\ UNCHANGED <<emitted, threads, records, run>>

CompletedCount == FoldFunction(+, 0, records)

CompletedAll == completed /\ ~stop /\ ~fatal /\ AllOver

WriteSummary ==
    /\ phase = "summary"
    /\ summary' = [count |-> CompletedCount, all |-> CompletedAll]
    /\ phase' = "exit"
    /\ UNCHANGED <<emitted, future, threads, records, stop, fatal, completed>>

\* The interpreter joins the threads of the pool before the process ends.
ThreadsJoined == Busy = {}

Exit ==
    /\ phase = "exit"
    /\ ThreadsJoined
    /\ phase' = "over"
    /\ UNCHANGED <<emitted, future, threads, records, run>>

-----------------------------------------------------------------------------
Driver == \/ Poll \/ CheckStop \/ Emit \/ EndIteration
          \/ FinalPoll \/ Shutdown \/ WriteSummary \/ Exit
Supervisor(t) ==
    /\ phase # "killed"
    /\ Communicated(t) \/ TimeoutExpires(t) \/ GraceExpires(t)

\* The run is over.
Over == phase \in {"over", "killed"} /\ UNCHANGED vars

Next ==
    \/ Driver \/ CollectFails \/ Signal \/ SignalAtExit \/ Over
    \/ \E t \in Tasks : StartWorker(t) \/ EndAtOnce(t) \/ WorkerEnds(t) \/ ChildEnds(t)
                         \/ Supervisor(t)

\* The main thread and the threads of the pool run, and clocks advance, so tasks
\* become due and time-outs expire.  Nothing makes a worker end but its
\* supervisor, and nothing makes a descendant end whose worker has gone.
Fairness ==
    /\ WF_vars(Driver) /\ SF_vars(Emit)
    /\ WF_vars(\E t \in Tasks : StartWorker(t) \/ EndAtOnce(t))
    /\ \A t \in Tasks : WF_vars(Supervisor(t))

Spec == Init /\ [][Next]_vars /\ Fairness

-----------------------------------------------------------------------------
TypeOK ==
    /\ emitted \in 0..NumTasks
    /\ future \in [Tasks -> {"none", "queued", "running", "done", "cancelled", "collected"}]
    /\ stage \in [Tasks -> {"idle", "communicate", "grace", "reap"}]
    /\ leader \in [Tasks -> {"none", "alive", "exited"}]
    /\ child \in [Tasks -> SUBSET Kinds]
    /\ records \in [Tasks -> 0..2]
    /\ phase \in {"poll", "check", "emit", "final", "shutdown", "summary", "exit",
                  "over", "killed"}
    /\ {stop, fatal, completed} \subseteq BOOLEAN
    /\ summary \in [count : 0..(2 * NumTasks), all : BOOLEAN]

\* A summary that claims completion is true, and nothing changes that
\* afterwards: each task has exactly one record, none is outstanding, and no
\* signal or exception has cut the run short.
SummaryHonest ==
    summary.all =>
        /\ \A t \in Tasks : records[t] = 1 /\ future[t] = "collected"
        /\ summary.count = NumTasks /\ ~fatal

\* Traces and summary are sound: no task is recorded more often than a failing
\* write explains, and a claim of completion is true.
RecordsSound == TypeOK /\ SummaryHonest

\* A time-out ends what it can: unless a descendant keeps the output of a worker
\* that has ended, every run ends, completed or stopped, even if no worker ever
\* ends by itself and the agents of a stopped run are paused.
Orphaned(t) == leader[t] = "exited" /\ OutputHeld(t)
RunEnds ==
    \/ <>[](phase \in {"over", "killed"})
    \/ \E t \in Tasks : <>[]Orphaned(t)

\* "Hard per-request worker timeout" (--gpu-timeout-s): a request whose time has
\* expired ends.  Violated: once the leader has ended nobody signals the group,
\* and communicate() then waits without a time-out for the output to be closed.
TimeoutIsHard ==
    \A t \in Tasks : stage[t] \in {"grace", "reap"} ~> stage[t] = "idle" \/ phase = "killed"

\* "a request timeout can terminate the worker and every descendant it spawned"
\* (_agent_request_backend).  Violated: a leader that heeds SIGTERM within the
\* grace period spares a descendant that does not.
DescendantsEnd ==
    [][\A t \in Tasks : stage[t] \in {"grace", "reap"} /\ stage'[t] = "idle"
                           => child'[t] = {}]_vars
=============================================================================
