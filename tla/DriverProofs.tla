----------------------------- MODULE DriverProofs -----------------------------
(***************************************************************************)
(* The two workload drivers.                                               *)
(*                                                                         *)
(* Of the task driver, for every number of tasks and threads and whatever  *)
(* descendants the workers have: traces and summary tell the truth.        *)
(*                                                                         *)
(* Of the replay driver, for every workload, pool and configuration: the   *)
(* load that its admission reads is the load of the tool pool, and its     *)
(* books are right.                                                        *)
(***************************************************************************)
EXTENDS TaskDriver, ReplayAdmission, CollectionLemmas

\* What the proof needs of the types.
Types ==
    /\ emitted \in Int
    /\ future \in [Tasks -> {"none", "queued", "running", "done", "cancelled", "collected"}]
    /\ stage \in [Tasks -> {"idle", "communicate", "grace", "reap"}]
    /\ leader \in [Tasks -> {"none", "alive", "exited"}]
    /\ child \in [Tasks -> SUBSET Kinds]

\* A thread that supervises a worker is one of the pool.
Supervised == \A t \in Tasks : stage[t] # "idle" => future[t] = "running"

\* A task that has not been submitted has no future.
Fresh == \A t \in Tasks : t > emitted => future[t] = "none"

IInv == Types /\ Supervised /\ Fresh

\* Before the first poll no task has been submitted and no process started.
LEMMA InitIInv == Init => IInv
  BY DEF Init, IInv, Types, Supervised, Fresh

\* The steps of a task's thread and of its processes keep the invariant.
LEMMA ThreadKeeps ==
    ASSUME IInv, NEW t \in Tasks,
           \/ StartWorker(t) \/ EndAtOnce(t) \/ WorkerEnds(t) \/ ChildEnds(t)
           \/ Supervisor(t)
    PROVE  IInv'
<1> USE DEF IInv, Types, run, threads
<1>1. CASE StartWorker(t)
  <2>1. PICK ds \in Descendants : child' = [child EXCEPT ![t] = ds]
    BY <1>1 DEF StartWorker
  <2>2. ds \subseteq Kinds
    BY <2>1, DriverAssumption
  <2>3. Types'
    BY <1>1, <2>1, <2>2 DEF StartWorker
  <2>4. Supervised'
    BY <1>1 DEF StartWorker, Supervised
  <2>5. Fresh'
    BY <1>1 DEF StartWorker, Fresh, Queued
  <2> QED
    BY <2>3, <2>4, <2>5
<1>2. CASE EndAtOnce(t)
  <2>1. Types'
    BY <1>2 DEF EndAtOnce
  <2>2. Supervised'
    BY <1>2 DEF EndAtOnce, Supervised, Queued
  <2>3. Fresh'
    BY <1>2 DEF EndAtOnce, Fresh, Queued
  <2> QED
    BY <2>1, <2>2, <2>3
<1>3. CASE WorkerEnds(t) \/ ChildEnds(t)
  <2>1. Types'
    BY <1>3 DEF WorkerEnds, ChildEnds
  <2>2. Supervised' /\ Fresh'
    BY <1>3 DEF WorkerEnds, ChildEnds, Supervised, Fresh
  <2> QED
    BY <2>1, <2>2
<1>4. CASE Communicated(t)
  <2>1. Types'
    BY <1>4 DEF Communicated, Return
  <2>2. Supervised'
    BY <1>4 DEF Communicated, Return, Supervised
  <2>3. future[t] = "running"
    BY <1>4 DEF Communicated, Supervised
  <2>4. Fresh'
    BY <1>4, <2>3 DEF Communicated, Return, Fresh
  <2> QED
    BY <2>1, <2>2, <2>4
<1>5. CASE TimeoutExpires(t) \/ GraceExpires(t)
  <2>1. Types'
    BY <1>5 DEF TimeoutExpires, GraceExpires, Kill
  <2>2. Supervised'
    BY <1>5 DEF TimeoutExpires, GraceExpires, Supervised
  <2>3. Fresh'
    BY <1>5 DEF TimeoutExpires, GraceExpires, Fresh
  <2> QED
    BY <2>1, <2>2, <2>3
<1> QED
  BY <1>1, <1>2, <1>3, <1>4, <1>5 DEF Supervisor

\* The steps of the main thread keep the invariant: it starts and ends no
\* process, submits only what is fresh, and cancels only what is queued.
LEMMA DriverKeeps == ASSUME IInv, Driver PROVE IInv'
<1> USE DEF IInv, Types, run, threads
<1>1. CASE Poll \/ FinalPoll
  <2>1. Types'
    BY <1>1 DEF Poll, FinalPoll, Forget
  <2>2. Supervised' /\ Fresh'
    BY <1>1 DEF Poll, FinalPoll, Forget, Done, Supervised, Fresh
  <2> QED
    BY <2>1, <2>2
<1>2. CASE CheckStop \/ EndIteration \/ WriteSummary \/ Exit
  BY <1>2 DEF CheckStop, EndIteration, WriteSummary, Exit, Supervised, Fresh
<1>3. CASE Emit
  <2>1. emitted + 1 \in Tasks => future[emitted + 1] = "none"
    BY DEF Fresh
  <2>2. Types'
    <3>1. UNCHANGED <<stage, leader, child>> /\ emitted' = emitted + 1
      BY <1>3 DEF Emit
    <3>2. future' = [future EXCEPT ![emitted + 1] = "queued"]
      BY <1>3 DEF Emit
    <3>3. emitted' \in Int
      BY <3>1
    <3>4. future' \in [Tasks -> {"none", "queued", "running", "done", "cancelled", "collected"}]
      BY <3>2
    <3> QED
      BY <3>1, <3>3, <3>4
  <2>3. Supervised'
    BY <1>3, <2>1 DEF Emit, Supervised
  <2>4. Fresh'
    BY <1>3 DEF Emit, Fresh, Tasks
  <2> QED
    BY <2>2, <2>3, <2>4
<1>4. CASE Shutdown
  <2>1. Types'
    BY <1>4 DEF Shutdown
  <2>2. Supervised' /\ Fresh'
    BY <1>4 DEF Shutdown, Queued, Supervised, Fresh
  <2> QED
    BY <2>1, <2>2
<1> QED
  BY <1>1, <1>2, <1>3, <1>4 DEF Driver

\* Every step keeps the invariant.
LEMMA NextKeeps == IInv /\ [Next]_vars => IInv'
<1> SUFFICES ASSUME IInv, [Next]_vars PROVE IInv'
  OBVIOUS
<1>1. CASE CollectFails \/ Signal \/ SignalAtExit \/ Over \/ UNCHANGED vars
  <2>1. UNCHANGED <<emitted, future, stage, leader, child>>
    BY <1>1 DEF CollectFails, Signal, SignalAtExit, Over, vars, threads
  <2> QED
    BY <2>1 DEF IInv, Types, Supervised, Fresh
<1> QED
  BY <1>1, ThreadKeeps, DriverKeeps DEF Next

-----------------------------------------------------------------------------
(* Traces and summary. *)

\* The rest of the types.
BookTypes ==
    /\ emitted \in 0..NumTasks
    /\ phase \in {"poll", "check", "emit", "final", "shutdown", "summary", "exit",
                  "over", "killed"}
    /\ stop \in BOOLEAN /\ fatal \in BOOLEAN /\ completed \in BOOLEAN
    /\ summary \in [count : 0..(2 * NumTasks), all : BOOLEAN]
    /\ records \in [Tasks -> 0..2]

\* Until a write fails a task has a record exactly when it has been collected; the
\* failing write may add one, and the last poll is the only one that can follow it.
RecordedOnce ==
    /\ ~fatal => \A t \in Tasks : records[t] = IF future[t] = "collected" THEN 1 ELSE 0
    /\ \A t \in Tasks : future[t] # "collected" => records[t] <= 1
    /\ fatal => phase \notin {"poll", "check", "emit"}

\* What has been submitted has a future.
Submitted == \A t \in Tasks : t <= emitted => future[t] # "none"

\* A claim of completion is made at the end of the run only.
ClaimedLast == summary.all => phase \in {"exit", "over", "killed"} /\ SummaryHonest

Books == BookTypes /\ RecordedOnce /\ Submitted /\ ClaimedLast

\* The number of records is bounded, and is the number of tasks when each has one.
LEMMA CountRecords ==
    ASSUME records \in [Tasks -> 0..2]
    PROVE  /\ CompletedCount \in 0..(2 * NumTasks)
           /\ (\A t \in Tasks : records[t] = 1) => CompletedCount = NumTasks
<1>1. IsFiniteSet(Tasks) /\ Cardinality(Tasks) = NumTasks /\ NumTasks \in Nat
  BY SegmentCardinality, DriverAssumption DEF Tasks
<1> DEFINE two == [t \in Tasks |-> 2]
           F == FoldFunction(+, 0, records)
<1>2. /\ records \in [Tasks -> Nat] /\ records \in [Tasks -> Int] /\ two \in [Tasks -> Int]
      /\ \A t \in Tasks : two[t] = 2 /\ records[t] <= two[t]
  <2>1. records \in [Tasks -> Nat] /\ two \in [Tasks -> Int]
    OBVIOUS
  <2>2. records \in [Tasks -> Int]
    BY <2>1
  <2> QED
    BY <2>1, <2>2
<1> HIDE DEF two
<1>3. F \in Nat
  BY <1>1, <1>2, TotalNat
<1>4. F <= FoldFunction(+, 0, two)
  BY <1>1, <1>2, TotalMonotone
<1>5. FoldFunction(+, 0, two) = 2 * Cardinality(Tasks)
  <2>1. 2 \in Int /\ \A t \in Tasks : two[t] = 2
    BY <1>2
  <2> QED
    BY <1>1, <1>2, <2>1, TotalConstant, Zenon
<1>6. F <= 2 * NumTasks
  BY <1>1, <1>4, <1>5
<1>7. ASSUME \A t \in Tasks : records[t] = 1 PROVE F = NumTasks
  <2>1. F = 1 * Cardinality(Tasks)
    <3>1. ASSUME NEW c \in Int, \A t \in Tasks : records[t] = c
          PROVE  F = c * Cardinality(Tasks)
      BY <1>1, <1>2, <3>1, TotalConstant, ZenonT(60)
    <3> HIDE DEF F
    <3> QED
      BY <1>7, <3>1
  <2> HIDE DEF F
  <2> QED
    BY <1>1, <2>1
<1>8. CompletedCount = F
  BY DEF CompletedCount
<1> HIDE DEF F
<1> QED
  BY <1>1, <1>3, <1>6, <1>7, <1>8

\* Nothing is recorded before the first poll.
LEMMA InitBooks == Init => Books
<1> SUFFICES ASSUME Init PROVE Books
  OBVIOUS
<1>1. summary \in [count : 0..(2 * NumTasks), all : BOOLEAN] /\ ~summary.all
  <2>1. 0 \in 0..(2 * NumTasks)
    BY DriverAssumption
  <2> QED
    BY <2>1 DEF Init, None
<1>2. BookTypes
  <2>1. emitted \in 0..NumTasks /\ records \in [Tasks -> 0..2]
    BY DriverAssumption DEF Init
  <2>2. stop \in BOOLEAN /\ fatal \in BOOLEAN /\ completed \in BOOLEAN
    BY DEF Init
  <2> QED
    BY <1>1, <2>1, <2>2 DEF Init, BookTypes
<1>3. RecordedOnce /\ Submitted
  BY DEF Init, RecordedOnce, Submitted, Tasks
<1>4. ClaimedLast
  BY <1>1 DEF ClaimedLast
<1> QED
  BY <1>2, <1>3, <1>4 DEF Books

\* A step of a task's thread writes no record, and moves no future that has been
\* collected.
LEMMA ThreadBooks ==
    ASSUME IInv, Books, NEW t \in Tasks,
           UNCHANGED <<emitted, records, phase, run>>,
           \/ UNCHANGED future
           \/ /\ future[t] \in {"queued", "running"}
              /\ future' \in {[future EXCEPT ![t] = "running"], [future EXCEPT ![t] = "done"]}
    PROVE  Books'
<1>1. UNCHANGED <<emitted, records, phase, stop, fatal, completed, summary>>
  BY DEF run
<1>2. /\ \A q \in Tasks : future'[q] = "collected" <=> future[q] = "collected"
      /\ \A q \in Tasks : future'[q] = "none" <=> future[q] = "none"
  BY DEF IInv, Types
<1>3. BookTypes' /\ Submitted'
  BY <1>1, <1>2 DEF Books, BookTypes, Submitted
<1>4. RecordedOnce'
  BY <1>1, <1>2 DEF Books, RecordedOnce
<1>5. ClaimedLast'
  BY <1>1, <1>2 DEF Books, ClaimedLast, SummaryHonest
<1> QED
  BY <1>3, <1>4, <1>5 DEF Books

\* A poll turns what is done into records, once.
LEMMA PollBooks ==
    ASSUME IInv, Books, Poll \/ FinalPoll
    PROVE  Books'
<1>1. /\ records' = Recorded(Done) /\ future' = Forget(Done)
      /\ phase \in {"poll", "final"} /\ phase' \in {"check", "shutdown"}
      /\ phase' = "check" => phase = "poll"
      /\ UNCHANGED <<emitted, stop, fatal, completed, summary>>
  BY DEF Poll, FinalPoll, run
<1>2. \A t \in Tasks : /\ records'[t] = IF future[t] = "done" THEN records[t] + 1 ELSE records[t]
                       /\ future'[t] = IF future[t] = "done" THEN "collected" ELSE future[t]
  BY <1>1 DEF Recorded, Forget, Done
<1>3. \A t \in Tasks : records[t] \in 0..2 /\ (future[t] # "collected" => records[t] <= 1)
  BY DEF Books, BookTypes, RecordedOnce
<1>4. records' \in [Tasks -> 0..2]
  <2>1. \A t \in Tasks : records'[t] \in 0..2
    BY <1>2, <1>3
  <2> QED
    BY <1>1, <2>1 DEF Recorded
<1>5. BookTypes'
  BY <1>1, <1>4 DEF Books, BookTypes
<1>6. RecordedOnce'
  <2>1. ~fatal' => \A t \in Tasks : records'[t] = IF future'[t] = "collected" THEN 1 ELSE 0
    BY <1>1, <1>2 DEF Books, RecordedOnce
  <2>2. \A t \in Tasks : future'[t] # "collected" => records'[t] <= 1
    BY <1>2, <1>3
  <2>3. fatal' => phase' \notin {"poll", "check", "emit"}
    BY <1>1 DEF Books, RecordedOnce
  <2> QED
    BY <2>1, <2>2, <2>3 DEF RecordedOnce
<1>7. Submitted' /\ ClaimedLast'
  BY <1>1, <1>2 DEF Books, Submitted, ClaimedLast
<1> QED
  BY <1>5, <1>6, <1>7 DEF Books

\* The summary counts the records; a claim of completion rests on every future
\* having been collected without a failing write.
LEMMA SummaryBooks == ASSUME IInv, Books, WriteSummary PROVE Books'
<1>1. /\ phase = "summary" /\ phase' = "exit"
      /\ summary' = [count |-> CompletedCount, all |-> CompletedAll]
      /\ UNCHANGED <<emitted, future, records, stop, fatal, completed>>
  BY DEF WriteSummary
<1>2. /\ records \in [Tasks -> 0..2] /\ summary'.count = CompletedCount
      /\ summary'.all = CompletedAll
  BY <1>1 DEF Books, BookTypes
<1>3. CompletedAll \in BOOLEAN
  BY DEF CompletedAll, AllOver
<1>4. BookTypes'
  <2>1. summary' \in [count : 0..(2 * NumTasks), all : BOOLEAN]
    BY <1>1, <1>2, <1>3, CountRecords
  <2> QED
    BY <1>1, <2>1 DEF Books, BookTypes
<1>5. RecordedOnce' /\ Submitted'
  BY <1>1 DEF Books, RecordedOnce, Submitted
<1>6. ASSUME summary'.all PROVE SummaryHonest'
  <2>1. ~fatal /\ emitted = NumTasks /\ Outstanding = {}
    BY <1>2, <1>6 DEF CompletedAll, AllOver
  <2>2. \A t \in Tasks : future[t] \in {"none", "collected"} /\ t <= emitted
    BY <2>1, DriverAssumption DEF Outstanding, Tasks
  <2>3. \A t \in Tasks : future[t] = "collected"
    BY <2>2 DEF Books, Submitted
  <2>4. \A t \in Tasks : records[t] = 1
    BY <2>1, <2>3 DEF Books, RecordedOnce
  <2>5. CompletedCount = NumTasks
    BY <1>2, <2>4, CountRecords
  <2> QED
    BY <1>1, <1>2, <2>1, <2>3, <2>4, <2>5 DEF SummaryHonest
<1>7. ClaimedLast'
  BY <1>1, <1>6 DEF ClaimedLast
<1> QED
  BY <1>4, <1>5, <1>7 DEF Books

\* Every step keeps traces and summary sound.
LEMMA BooksStep == ASSUME IInv, Books, [Next]_vars PROVE Books'
<1>1. CASE Poll \/ FinalPoll
  BY <1>1, PollBooks
<1>2. CASE WriteSummary
  BY <1>2, SummaryBooks
<1>3. ASSUME NEW t \in Tasks, StartWorker(t) \/ EndAtOnce(t) PROVE Books'
  BY <1>3, ThreadBooks DEF StartWorker, EndAtOnce, Queued
<1>4. ASSUME NEW t \in Tasks, WorkerEnds(t) \/ ChildEnds(t) \/ TimeoutExpires(t) \/ GraceExpires(t)
      PROVE  Books'
  BY <1>4, ThreadBooks DEF WorkerEnds, ChildEnds, TimeoutExpires, GraceExpires
<1>5. ASSUME NEW t \in Tasks, Communicated(t) PROVE Books'
  <2>1. future[t] = "running"
    BY <1>5 DEF Communicated, IInv, Supervised
  <2> QED
    BY <1>5, <2>1, ThreadBooks DEF Communicated, Return
<1>6. CASE CollectFails
  <2>1. /\ ~fatal /\ fatal' = TRUE /\ phase \in {"poll", "final"}
        /\ phase' \in {"final", "shutdown"}
        /\ UNCHANGED <<emitted, future, stop, completed, summary>>
    BY <1>6 DEF CollectFails
  <2>2. PICK some \in SUBSET Done : records' = Recorded(some)
    BY <1>6 DEF CollectFails
  <2>3. \A t \in some : t \in Tasks /\ records[t] = 0 /\ future[t] = "done"
    BY <2>1, <2>2 DEF Done, Books, RecordedOnce
  <2>4. /\ \A t \in Tasks : records'[t] \in 0..2
        /\ \A t \in Tasks : future[t] # "collected" => records'[t] <= 1
    BY <2>2, <2>3 DEF Recorded, Books, BookTypes, RecordedOnce
  <2>5. records' \in [Tasks -> 0..2]
    BY <2>2, <2>4 DEF Recorded
  <2>6. BookTypes'
    BY <2>1, <2>5 DEF Books, BookTypes
  <2>7. RecordedOnce' /\ Submitted' /\ ClaimedLast'
    BY <2>1, <2>4 DEF Books, RecordedOnce, Submitted, ClaimedLast
  <2> QED
    BY <2>6, <2>7 DEF Books
<1>7. CASE CheckStop \/ EndIteration
  <2>1. /\ UNCHANGED <<emitted, future, records, stop, fatal, summary>>
        /\ phase \in {"check", "emit"} /\ phase' \in {"final", "emit", "poll"}
        /\ completed' \in BOOLEAN
    BY <1>7 DEF CheckStop, EndIteration, AllOver, run, Books, BookTypes
  <2>2. BookTypes'
    BY <2>1 DEF Books, BookTypes
  <2>3. RecordedOnce' /\ Submitted' /\ ClaimedLast'
    BY <2>1 DEF Books, RecordedOnce, Submitted, ClaimedLast
  <2> QED
    BY <2>2, <2>3 DEF Books
<1>8. CASE Emit
  <2>1. /\ emitted < NumTasks /\ emitted' = emitted + 1 /\ phase = "emit"
        /\ future' = [future EXCEPT ![emitted + 1] = "queued"]
        /\ UNCHANGED <<records, phase, stop, fatal, completed, summary>>
    BY <1>8 DEF Emit, run
  <2>2. emitted \in Nat /\ emitted + 1 \in Tasks /\ emitted' \in 0..NumTasks
    BY <2>1, DriverAssumption DEF Books, BookTypes, Tasks
  <2>3. future[emitted + 1] = "none"
    BY <2>2 DEF IInv, Fresh
  <2>4. BookTypes'
    BY <2>1, <2>2 DEF Books, BookTypes
  <2>5. RecordedOnce'
    BY <2>1, <2>2, <2>3 DEF Books, RecordedOnce, IInv, Types
  <2>6. Submitted'
    <3> SUFFICES ASSUME NEW t \in Tasks, t <= emitted + 1 PROVE future'[t] # "none"
      BY <2>1 DEF Submitted
    <3>1. CASE t = emitted + 1
      BY <2>1, <2>2, <3>1 DEF IInv, Types
    <3>2. CASE t # emitted + 1
      <4>1. t <= emitted
        BY <2>2, <3>2 DEF Tasks
      <4> QED
        BY <2>1, <3>2, <4>1 DEF Books, Submitted, IInv, Types
    <3> QED
      BY <3>1, <3>2
  <2>7. ClaimedLast'
    BY <2>1 DEF Books, ClaimedLast
  <2> QED
    BY <2>4, <2>5, <2>6, <2>7 DEF Books
<1>9. CASE Shutdown
  <2>1. /\ UNCHANGED <<emitted, records, stop, fatal, completed, summary>>
        /\ phase = "shutdown" /\ phase' = "summary"
    BY <1>9 DEF Shutdown, run
  <2>2. /\ \A q \in Tasks : future'[q] = "collected" <=> future[q] = "collected"
        /\ \A q \in Tasks : future'[q] = "none" <=> future[q] = "none"
    BY <1>9 DEF Shutdown, Queued
  <2>3. BookTypes' /\ Submitted' /\ ClaimedLast'
    BY <2>1, <2>2 DEF Books, BookTypes, Submitted, ClaimedLast
  <2>4. RecordedOnce'
    BY <2>1, <2>2 DEF Books, RecordedOnce
  <2> QED
    BY <2>3, <2>4 DEF Books
<1>10. CASE Signal \/ SignalAtExit \/ Exit \/ UNCHANGED vars
  <2>1. /\ UNCHANGED <<emitted, future, records, fatal, completed, summary>>
        /\ stop' \in BOOLEAN
        /\ \/ phase' = phase
           \/ phase = "exit" /\ phase' \in {"over", "killed"}
    BY <1>10 DEF Signal, SignalAtExit, Exit, vars, run, Books, BookTypes
  <2>2. BookTypes'
    BY <2>1 DEF Books, BookTypes
  <2>3. RecordedOnce' /\ Submitted' /\ ClaimedLast'
    BY <2>1 DEF Books, RecordedOnce, Submitted, ClaimedLast, SummaryHonest
  <2> QED
    BY <2>2, <2>3 DEF Books
<1> QED
  BY <1>1, <1>2, <1>3, <1>4, <1>5, <1>6, <1>7, <1>8, <1>9, <1>10
     DEF Next, Driver, Supervisor, Over

\* For every number of tasks: a summary that claims completion is true, with exactly
\* one record per task, and no task ever has more records than one failing write and
\* the last poll after it explain.
THEOREM RecordsCorrect == Spec => []RecordsSound
<1> DEFINE Inv == IInv /\ Books
<1>1. Init => Inv
  BY InitIInv, InitBooks
<1>2. Inv /\ [Next]_vars => Inv'
  BY NextKeeps, BooksStep
<1>3. Inv => RecordsSound
  <2> SUFFICES ASSUME Inv PROVE RecordsSound
    OBVIOUS
  <2>1. TypeOK
    BY DEF IInv, Types, Books, BookTypes, TypeOK
  <2>2. SummaryHonest
    BY DEF Books, ClaimedLast, SummaryHonest
  <2> QED
    BY <2>1, <2>2 DEF RecordsSound
<1> QED
  BY <1>1, <1>2, <1>3, PTL DEF Spec

-----------------------------------------------------------------------------
(* The tool pool. *)

\* No task is queued twice.
QueuedOnce(q) == \A i, j \in DOMAIN q : q[i] = q[j] /\ q[i] # Stop => i = j

QueuedCalls == ToSet(taskQ) \ {Stop}
BusyWorkers == {w \in Workers : worker[w] \in Calls}

\* A task is in one place of the pool at most.
InOnePlace ==
    /\ QueuedOnce(taskQ) /\ IsInjective(resultQ)
    /\ \A v, w \in BusyWorkers : worker[v] = worker[w] => v = w
    /\ QueuedCalls \cap (Executing \cup procs \cup ToSet(resultQ)) = {}
    /\ Executing \cap (procs \cup ToSet(resultQ)) = {}
    /\ procs \cap ToSet(resultQ) = {}

\* Only tasks of rounds that have begun have been submitted.
CallsBegun == \A t \in futures \cup inbox : t[2] <= round[t[1]]

\* The workers are told to stop by the shutdown only.
NoStopYet == down = "up" => Stop \notin ToSet(taskQ)

\* What is under way has a future, and no answer; what has no place was lost with
\* a worker.
Answerable ==
    /\ UnderWay \subseteq futures
    /\ futures \cap inbox = {}
    /\ down = "up" => Cardinality(futures \ UnderWay) <= Cardinality(GoneWorkers)

PoolInv == PoolTypeOK /\ InOnePlace /\ CallsBegun /\ NoStopYet /\ Answerable

\* There are finitely many tasks and workers.
LEMMA PoolFinite ==
    ASSUME PoolTypeOK
    PROVE  /\ IsFiniteSet(Calls) /\ IsFiniteSet(futures) /\ IsFiniteSet(procs)
           /\ IsFiniteSet(BusyWorkers) /\ IsFiniteSet(GoneWorkers)
           /\ IsFiniteSet(futures \ UnderWay)
<1>1. IsFiniteSet(1..Rounds)
  BY PoolAssumption, FS_Interval
<1>2. IsFiniteSet(Calls)
  BY <1>1, PoolAssumption, FS_Product DEF Calls
<1>3. futures \in SUBSET Calls /\ procs \in SUBSET Calls /\ futures \ UnderWay \in SUBSET Calls
  BY DEF PoolTypeOK
<1>4. BusyWorkers \in SUBSET Workers /\ GoneWorkers \in SUBSET Workers
  BY DEF BusyWorkers, GoneWorkers
<1> QED
  BY <1>2, <1>3, <1>4, PoolAssumption, FS_Subset

\* A pool in which every task is in one place counts its load exactly.
LEMMA LoadCounted ==
    ASSUME PoolTypeOK, InOnePlace
    PROVE  Cardinality(UnderWay) =
               Cardinality({i \in DOMAIN taskQ : taskQ[i] # Stop}) + Cardinality(procs)
                   + Cardinality({w \in Workers : worker[w] \in Calls}) + Len(resultQ)
<1> DEFINE P == {i \in DOMAIN taskQ : taskQ[i] # Stop}
           R == ToSet(resultQ)
<1>1. IsFiniteSet(QueuedCalls) /\ Cardinality(QueuedCalls) = Cardinality(P)
  <2> DEFINE f == [i \in P |-> taskQ[i]]
  <2>1. IsFiniteSet(P)
    <3>1. taskQ \in Seq(Calls \cup {Stop})
      BY DEF PoolTypeOK
    <3>2. Len(taskQ) \in Nat /\ DOMAIN taskQ = 1..Len(taskQ)
      BY <3>1
    <3>3. IsFiniteSet(1..Len(taskQ))
      BY <3>2, FS_Interval
    <3> QED
      BY <3>2, <3>3, FS_Subset
  <2>2. f \in [P -> QueuedCalls]
    BY DEF QueuedCalls, ToSet
  <2>3. \A a, b \in P : f[a] = f[b] => a = b
    BY DEF InOnePlace, QueuedOnce
  <2>4. \A t \in QueuedCalls : \E a \in P : f[a] = t
    BY DEF QueuedCalls, ToSet
  <2> HIDE DEF f, P
  <2> QED
    BY <2>1, <2>2, <2>3, <2>4, CountImage
<1>2. IsFiniteSet(Executing) /\ Cardinality(Executing) = Cardinality(BusyWorkers)
  <2> DEFINE f == [w \in BusyWorkers |-> worker[w]]
  <2>1. f \in [BusyWorkers -> Executing]
    BY DEF BusyWorkers, Executing
  <2>2. \A a, b \in BusyWorkers : f[a] = f[b] => a = b
    BY DEF InOnePlace
  <2>3. \A t \in Executing : \E a \in BusyWorkers : f[a] = t
    BY DEF BusyWorkers, Executing
  <2> HIDE DEF f
  <2> QED
    BY <2>1, <2>2, <2>3, PoolFinite, CountImage
<1>3. IsFiniteSet(R) /\ Cardinality(R) = Len(resultQ)
  BY InjectiveLength DEF PoolTypeOK, InOnePlace
<1>4. IsFiniteSet(procs) /\ Cardinality(procs) \in Nat
  BY PoolFinite, FS_CardinalityType
<1>5. Cardinality(P) \in Nat /\ Cardinality(BusyWorkers) \in Nat /\ Len(resultQ) \in Nat
  BY <1>1, <1>2, <1>3, FS_CardinalityType
<1> HIDE DEF P, R
<1> DEFINE A == procs \cup R
           B == Executing \cup A
<1>6. IsFiniteSet(A) /\ Cardinality(A) = Cardinality(procs) + Len(resultQ)
  <2>1. procs \cap R = {}
    BY DEF InOnePlace, R
  <2> QED
    BY <1>3, <1>4, <2>1, DisjointUnion
<1>7. IsFiniteSet(B) /\ Cardinality(B) = Cardinality(BusyWorkers) + (Cardinality(procs) + Len(resultQ))
  <2>1. Executing \cap A = {}
    BY DEF InOnePlace, R
  <2> HIDE DEF A
  <2> QED
    BY <1>2, <1>6, <2>1, DisjointUnion
<1>8. Cardinality(QueuedCalls \cup B)
          = Cardinality(P) + (Cardinality(BusyWorkers) + (Cardinality(procs) + Len(resultQ)))
  <2>1. QueuedCalls \cap B = {}
    BY DEF InOnePlace, R
  <2> HIDE DEF B
  <2>2. Cardinality(QueuedCalls \cup B) = Cardinality(QueuedCalls) + Cardinality(B)
    BY <1>1, <1>7, <2>1, DisjointUnion
  <2> QED
    BY <1>1, <1>7, <2>2
<1>9. UnderWay = QueuedCalls \cup B
  BY DEF UnderWay, QueuedCalls, R
<1> HIDE DEF B
<1> QED
  BY <1>4, <1>5, <1>8, <1>9 DEF BusyWorkers, P

\* The invariant says what the property asks for.
LEMMA PoolInvSound == PoolInv => PoolSound
  BY LoadCounted DEF PoolInv, PoolSound, InflightExact, Answerable

\* The pool starts empty.
LEMMA PoolStarts == ASSUME PoolInit PROVE PoolInv
<1>1. PoolTypeOK
  <2>1. 0 \in 0..Rounds
    BY PoolAssumption
  <2>2. round \in [Requests -> 0..Rounds] /\ turn \in [Requests -> {"new", "gpu", "tool", "done"}]
    BY <2>1 DEF PoolInit
  <2>3. taskQ \in Seq(Calls \cup {Stop}) /\ resultQ \in Seq(Calls)
    BY DEF PoolInit
  <2> QED
    BY <2>2, <2>3 DEF PoolInit, PoolTypeOK
<1>2. /\ ToSet(taskQ) = {} /\ ToSet(resultQ) = {} /\ procs = {} /\ futures = {} /\ inbox = {}
  BY DEF PoolInit, ToSet
<1>3. Executing = {} /\ BusyWorkers = {}
  BY PoolAssumption DEF PoolInit, Executing, BusyWorkers
<1>4. QueuedOnce(taskQ) /\ IsInjective(resultQ)
  BY DEF PoolInit, QueuedOnce, IsInjective
<1>5. InOnePlace
  BY <1>2, <1>3, <1>4 DEF InOnePlace, QueuedCalls
<1>6. Answerable
  <2>1. UnderWay = {} /\ futures \ UnderWay = {}
    BY <1>2, <1>3 DEF UnderWay
  <2>2. Cardinality(GoneWorkers) \in Nat
    BY <1>1, PoolFinite, FS_CardinalityType
  <2> QED
    BY <1>2, <2>1, <2>2, FS_EmptySet DEF Answerable
<1> QED
  BY <1>1, <1>2, <1>5, <1>6 DEF PoolInv, CallsBegun, NoStopYet

\* Lists of tasks: the head, the tail and one more.
LEMMA QueueHead ==
    ASSUME NEW X, NEW q \in Seq(X), q # <<>>, QueuedOnce(q)
    PROVE  /\ Head(q) \in ToSet(q) /\ Head(q) \in X /\ Tail(q) \in Seq(X)
           /\ QueuedOnce(Tail(q))
           /\ ToSet(Tail(q)) \subseteq ToSet(q)
           /\ Head(q) # Stop => ToSet(Tail(q)) \ {Stop} = (ToSet(q) \ {Stop}) \ {Head(q)}
           /\ Head(q) = Stop => ToSet(Tail(q)) \ {Stop} = ToSet(q) \ {Stop}
<1>1. /\ DOMAIN q = 1..Len(q) /\ Len(q) \in Nat \ {0} /\ Head(q) = q[1]
      /\ DOMAIN Tail(q) = 1..(Len(q) - 1) /\ Tail(q) \in Seq(X)
      /\ \A k \in 1..(Len(q) - 1) : Tail(q)[k] = q[k + 1]
  OBVIOUS
<1>2. /\ \A k \in 1..(Len(q) - 1) : k + 1 \in DOMAIN q
      /\ 1 \in DOMAIN q
  BY <1>1
<1>3. QueuedOnce(Tail(q))
  <2> SUFFICES ASSUME NEW i \in 1..(Len(q) - 1), NEW j \in 1..(Len(q) - 1),
                      Tail(q)[i] = Tail(q)[j], Tail(q)[i] # Stop
               PROVE  i = j
    BY <1>1 DEF QueuedOnce
  <2>1. i + 1 = j + 1
    BY <1>1, <1>2 DEF QueuedOnce
  <2> QED
    BY <2>1
<1>4. ToSet(Tail(q)) = {q[k + 1] : k \in 1..(Len(q) - 1)}
  BY <1>1 DEF ToSet
<1>5. ToSet(q) = ToSet(Tail(q)) \cup {Head(q)}
  <2>1. \A k \in DOMAIN q : k = 1 \/ (k - 1 \in 1..(Len(q) - 1) /\ (k - 1) + 1 = k)
    BY <1>1
  <2>2. \A x \in ToSet(q) : x \in ToSet(Tail(q)) \cup {Head(q)}
    <3> SUFFICES ASSUME NEW k \in DOMAIN q PROVE q[k] \in ToSet(Tail(q)) \cup {Head(q)}
      BY DEF ToSet
    <3> QED
      BY <1>1, <1>4, <2>1
  <2>3. ToSet(Tail(q)) \subseteq ToSet(q) /\ Head(q) \in ToSet(q)
    BY <1>1, <1>2, <1>4 DEF ToSet
  <2> QED
    BY <2>2, <2>3
<1>6. Head(q) # Stop => Head(q) \notin ToSet(Tail(q))
  <2> SUFFICES ASSUME Head(q) # Stop, NEW k \in 1..(Len(q) - 1), q[k + 1] = Head(q) PROVE FALSE
    BY <1>4
  <2>1. k + 1 = 1
    BY <1>1, <1>2 DEF QueuedOnce
  <2> QED
    BY <2>1
<1> QED
  BY <1>1, <1>3, <1>5, <1>6

\* The invariant depends on the variables of the pool only.
LEMMA PoolQuiet ==
    ASSUME PoolInv, UNCHANGED <<round, futures, inbox, taskQ, worker, procs, resultQ, collector, down, threadPool>>,
           turn' \in [Requests -> {"new", "gpu", "tool", "done"}]
    PROVE  PoolInv'
<1>1. PoolTypeOK'
  BY DEF PoolInv, PoolTypeOK
<1>2. UnderWay' = UnderWay /\ GoneWorkers' = GoneWorkers /\ Executing' = Executing
      /\ BusyWorkers' = BusyWorkers /\ QueuedCalls' = QueuedCalls
  BY DEF UnderWay, GoneWorkers, Executing, BusyWorkers, QueuedCalls
<1>3. InOnePlace'
  BY <1>2 DEF PoolInv, InOnePlace
<1>4. CallsBegun' /\ NoStopYet' /\ Answerable'
  BY <1>2 DEF PoolInv, CallsBegun, NoStopYet, Answerable
<1> QED
  BY <1>1, <1>3, <1>4 DEF PoolInv

\* A request calls a tool: the task is new, and goes to the queue, to a process of
\* its own or, when that cannot be started, to the results.
LEMMA SubmitKeeps == ASSUME PoolInv, NEW r \in Requests, Submit(r) PROVE PoolInv'
<1> DEFINE t == <<r, round[r] + 1>>
<1>1. /\ futures \subseteq Calls /\ inbox \subseteq Calls /\ procs \subseteq Calls
      /\ taskQ \in Seq(Calls \cup {Stop}) /\ resultQ \in Seq(Calls)
      /\ round \in [Requests -> 0..Rounds] /\ Rounds \in Nat
  BY PoolAssumption DEF PoolInv, PoolTypeOK
<1>2. t \in Calls /\ t # Stop
  <2>1. round[r] + 1 \in 1..Rounds
    BY <1>1 DEF Submit, RoundLeft
  <2>2. t \in Calls
    BY <2>1 DEF Calls
  <2> QED
    BY <2>2, PoolAssumption
<1>3. t \notin futures /\ t \notin inbox
  <2>1. ~(round[r] + 1 <= round[r])
    BY <1>1
  <2>2. t[1] = r /\ t[2] = round[r] + 1
    OBVIOUS
  <2> HIDE DEF t
  <2> QED
    BY <2>1, <2>2 DEF PoolInv, CallsBegun
<1> HIDE DEF t
<1>4. /\ futures' = futures \cup {t}
      /\ \/ taskQ' = Append(taskQ, t) /\ UNCHANGED <<procs, resultQ>>
         \/ procs' = procs \cup {t} /\ UNCHANGED <<resultQ, taskQ>>
         \/ resultQ' = Append(resultQ, t) /\ UNCHANGED <<procs, taskQ>>
      /\ UNCHANGED <<threadPool, inbox, worker, collector, down>>
  BY DEF Submit, Spawn, t
<1>5. UnderWay \subseteq futures /\ t \notin UnderWay
  BY <1>3 DEF PoolInv, Answerable
<1>6. t \notin ToSet(taskQ) /\ t \notin Executing /\ t \notin procs /\ t \notin ToSet(resultQ)
  BY <1>2, <1>5 DEF UnderWay
<1>7. Executing' = Executing /\ BusyWorkers' = BusyWorkers /\ GoneWorkers' = GoneWorkers
  BY <1>4 DEF Executing, BusyWorkers, GoneWorkers
<1>8. /\ \/ QueuedCalls' = QueuedCalls \cup {t} /\ procs' = procs /\ ToSet(resultQ)' = ToSet(resultQ)
         \/ QueuedCalls' = QueuedCalls /\ procs' = procs \cup {t} /\ ToSet(resultQ)' = ToSet(resultQ)
         \/ QueuedCalls' = QueuedCalls /\ procs' = procs /\ ToSet(resultQ)' = ToSet(resultQ) \cup {t}
      /\ QueuedOnce(taskQ') /\ IsInjective(resultQ')
      /\ taskQ' \in Seq(Calls \cup {Stop}) /\ resultQ' \in Seq(Calls) /\ procs' \subseteq Calls
      /\ Stop \in ToSet(taskQ)' => Stop \in ToSet(taskQ)
  <2>0. QueuedOnce(taskQ) /\ IsInjective(resultQ)
    BY DEF PoolInv, InOnePlace
  <2>1. CASE taskQ' = Append(taskQ, t) /\ UNCHANGED <<procs, resultQ>>
    <3>1. t \in Calls \cup {Stop}
      BY <1>2
    <3>2. ToSet(Append(taskQ, t)) = ToSet(taskQ) \cup {t} /\ Append(taskQ, t) \in Seq(Calls \cup {Stop})
      BY <1>1, <3>1, AppendElements, AppendType
    <3>3. QueuedOnce(Append(taskQ, t))
      <4>1. /\ DOMAIN Append(taskQ, t) = 1..(Len(taskQ) + 1)
            /\ Append(taskQ, t)[Len(taskQ) + 1] = t
            /\ \A k \in 1..Len(taskQ) : Append(taskQ, t)[k] = taskQ[k]
        BY <1>1, <3>1
      <4>2. DOMAIN taskQ = 1..Len(taskQ) /\ Len(taskQ) \in Nat
        BY <1>1
      <4>3. \A k \in 1..Len(taskQ) : taskQ[k] # t
        BY <1>6, <4>2 DEF ToSet
      <4> QED
        BY <2>0, <4>1, <4>2, <4>3 DEF QueuedOnce
    <3> QED
      BY <1>1, <1>2, <2>0, <2>1, <3>2, <3>3 DEF QueuedCalls
  <2>2. CASE procs' = procs \cup {t} /\ UNCHANGED <<resultQ, taskQ>>
    BY <1>1, <1>2, <2>0, <2>2 DEF QueuedCalls
  <2>3. CASE resultQ' = Append(resultQ, t) /\ UNCHANGED <<procs, taskQ>>
    <3>1. /\ ToSet(Append(resultQ, t)) = ToSet(resultQ) \cup {t} /\ IsInjective(Append(resultQ, t))
          /\ Append(resultQ, t) \in Seq(Calls)
      BY <1>1, <1>2, <1>6, <2>0, AppendElements, AppendType
    <3> QED
      BY <1>1, <2>0, <2>3, <3>1 DEF QueuedCalls
  <2> QED
    BY <1>4, <2>1, <2>2, <2>3
<1>9. UnderWay' = UnderWay \cup {t}
  BY <1>7, <1>8 DEF UnderWay, QueuedCalls
<1>10. PoolTypeOK'
  <2>1. /\ turn' \in [Requests -> {"new", "gpu", "tool", "done"}]
        /\ round' \in [Requests -> 0..Rounds]
    BY <1>1 DEF Submit, RoundLeft, PoolInv, PoolTypeOK
  <2>2. futures' \subseteq Calls /\ inbox' \subseteq Calls
    BY <1>1, <1>2, <1>4
  <2> QED
    BY <1>4, <1>8, <2>1, <2>2 DEF PoolInv, PoolTypeOK
<1>11. InOnePlace'
  <2>1. QueuedOnce(taskQ)' /\ IsInjective(resultQ)'
    BY <1>8
  <2>2. (\A v, w \in BusyWorkers : worker[v] = worker[w] => v = w)'
    BY <1>4, <1>7 DEF PoolInv, InOnePlace
  <2>3. t \notin QueuedCalls
    BY <1>6 DEF QueuedCalls
  <2>4. /\ QueuedCalls \cap (Executing \cup procs \cup ToSet(resultQ)) = {}
        /\ Executing \cap (procs \cup ToSet(resultQ)) = {}
        /\ procs \cap ToSet(resultQ) = {}
    BY DEF PoolInv, InOnePlace
  <2>5. /\ QueuedCalls' \cap (Executing' \cup procs' \cup ToSet(resultQ)') = {}
        /\ Executing' \cap (procs' \cup ToSet(resultQ)') = {}
        /\ procs' \cap ToSet(resultQ)' = {}
    BY <1>6, <1>7, <1>8, <2>3, <2>4
  <2> QED
    BY <2>1, <2>2, <2>5 DEF InOnePlace
<1>12. CallsBegun'
  <2>1. \A q \in Requests : round[q] \in Nat /\ round[q] <= round'[q]
    BY <1>1 DEF Submit
  <2>2. \A c \in futures \cup inbox : c[1] \in Requests /\ c[2] \in Nat /\ c[2] <= round[c[1]]
    BY <1>1 DEF PoolInv, CallsBegun, Calls
  <2>3. t[1] = r /\ t[2] = round'[r]
    BY <1>1 DEF t, Submit
  <2>4. \A c \in futures \cup inbox : c[2] <= round'[c[1]]
    <3> SUFFICES ASSUME NEW c \in futures \cup inbox PROVE c[2] <= round'[c[1]]
      OBVIOUS
    <3>1. round'[c[1]] \in Nat
      BY <1>10, <2>2 DEF PoolTypeOK
    <3> QED
      BY <2>1, <2>2, <3>1
  <2>5. t[2] <= round'[t[1]]
    <3>1. round'[r] \in Nat
      BY <1>10 DEF PoolTypeOK
    <3> QED
      BY <2>3, <3>1
  <2> QED
    BY <1>4, <2>4, <2>5 DEF CallsBegun
<1>13. NoStopYet'
  BY <1>4, <1>8 DEF PoolInv, NoStopYet
<1>14. Answerable'
  <2>1. futures' \ UnderWay' = futures \ UnderWay
    BY <1>3, <1>4, <1>9
  <2> QED
    BY <1>3, <1>4, <1>7, <1>9, <2>1 DEF PoolInv, Answerable
<1> QED
  BY <1>10, <1>11, <1>12, <1>13, <1>14 DEF PoolInv

\* The model is told that its answer was no action: another round begins.
LEMMA FeedbackKeeps == ASSUME PoolInv, NEW r \in Requests, Feedback(r) PROVE PoolInv'
<1>1. /\ futures \subseteq Calls /\ inbox \subseteq Calls
      /\ round \in [Requests -> 0..Rounds] /\ Rounds \in Nat
  BY PoolAssumption DEF PoolInv, PoolTypeOK
<1>2. /\ UNCHANGED <<turn, futures, inbox, taskQ, worker, procs, resultQ, collector, down, threadPool>>
      /\ round' \in [Requests -> 0..Rounds]
      /\ \A q \in Requests : round[q] <= round'[q] /\ round[q] \in Nat /\ round'[q] \in Nat
  BY <1>1 DEF Feedback, RoundLeft, pool
<1>3. UnderWay' = UnderWay /\ GoneWorkers' = GoneWorkers /\ Executing' = Executing
      /\ BusyWorkers' = BusyWorkers /\ QueuedCalls' = QueuedCalls
  BY <1>2 DEF UnderWay, GoneWorkers, Executing, BusyWorkers, QueuedCalls
<1>4. PoolTypeOK' /\ InOnePlace' /\ NoStopYet' /\ Answerable'
  BY <1>2, <1>3 DEF PoolInv, PoolTypeOK, InOnePlace, NoStopYet, Answerable
<1>5. CallsBegun'
  <2> SUFFICES ASSUME NEW c \in futures \cup inbox PROVE c[2] <= round'[c[1]]
    BY <1>2 DEF CallsBegun
  <2>1. c[1] \in Requests /\ c[2] \in Nat /\ c[2] <= round[c[1]]
    BY <1>1 DEF PoolInv, CallsBegun, Calls
  <2> QED
    BY <1>2, <2>1
<1> QED
  BY <1>4, <1>5 DEF PoolInv

\* The answer is taken out of its queue.
LEMMA AnswerKeeps == ASSUME PoolInv, NEW r \in Requests, Answer(r) PROVE PoolInv'
<1>1. /\ UNCHANGED <<round, futures, taskQ, worker, procs, resultQ, collector, down, threadPool>>
      /\ inbox' \subseteq inbox
      /\ turn' \in [Requests -> {"new", "gpu", "tool", "done"}]
  BY DEF Answer, PoolInv, PoolTypeOK
<1>2. UnderWay' = UnderWay /\ GoneWorkers' = GoneWorkers /\ Executing' = Executing
      /\ BusyWorkers' = BusyWorkers /\ QueuedCalls' = QueuedCalls
  BY <1>1 DEF UnderWay, GoneWorkers, Executing, BusyWorkers, QueuedCalls
<1>3. PoolTypeOK' /\ InOnePlace' /\ NoStopYet' /\ Answerable' /\ CallsBegun'
  BY <1>1, <1>2 DEF PoolInv, PoolTypeOK, InOnePlace, NoStopYet, Answerable, CallsBegun
<1> QED
  BY <1>3 DEF PoolInv

\* What a worker does changes what is executed by that worker's task only.
LEMMA WorkerChanges ==
    ASSUME PoolInv, NEW w \in Workers, NEW x \in Calls \cup {Idle, Gone},
           worker' = [worker EXCEPT ![w] = x]
    PROVE  /\ worker' \in [Workers -> Calls \cup {Idle, Gone}]
           /\ worker[w] \notin Calls /\ x \in Calls =>
                  Executing' = Executing \cup {x} /\ BusyWorkers' = BusyWorkers \cup {w}
           /\ worker[w] \in Calls /\ x \notin Calls =>
                  /\ Executing' = Executing \ {worker[w]} /\ worker[w] \in Executing
                  /\ BusyWorkers' = BusyWorkers \ {w}
           /\ worker[w] \notin Calls /\ x \notin Calls =>
                  Executing' = Executing /\ BusyWorkers' = BusyWorkers
<1>1. /\ worker \in [Workers -> Calls \cup {Idle, Gone}]
      /\ \A v, u \in Workers : worker[v] \in Calls /\ worker[v] = worker[u] => v = u
  BY DEF PoolInv, PoolTypeOK, InOnePlace, BusyWorkers
<1>2. worker' \in [Workers -> Calls \cup {Idle, Gone}]
  BY <1>1
<1>3. worker'[w] = x /\ \A v \in Workers : v # w => worker'[v] = worker[v]
  BY <1>1
<1>4. ASSUME worker[w] \notin Calls, x \in Calls
      PROVE  Executing' = Executing \cup {x} /\ BusyWorkers' = BusyWorkers \cup {w}
  BY <1>3, <1>4 DEF Executing, BusyWorkers
<1>5. ASSUME worker[w] \in Calls, x \notin Calls
      PROVE  /\ Executing' = Executing \ {worker[w]} /\ worker[w] \in Executing
             /\ BusyWorkers' = BusyWorkers \ {w}
  BY <1>1, <1>3, <1>5 DEF Executing, BusyWorkers
<1>6. ASSUME worker[w] \notin Calls, x \notin Calls
      PROVE  Executing' = Executing /\ BusyWorkers' = BusyWorkers
  BY <1>3, <1>6 DEF Executing, BusyWorkers
<1> QED
  BY <1>2, <1>4, <1>5, <1>6

\* A worker takes the next task or is told to stop.
LEMMA WorkerTakeKeeps == ASSUME PoolInv, NEW w \in Workers, WorkerTake(w) PROVE PoolInv'
<1> DEFINE h == Head(taskQ)
           x == IF h = Stop THEN Gone ELSE h
           X == Calls \cup {Stop}
<1>1. taskQ \in Seq(X) /\ taskQ # <<>> /\ QueuedOnce(taskQ) /\ worker[w] = Idle
  BY DEF PoolInv, PoolTypeOK, InOnePlace, WorkerTake
<1>2. /\ h \in ToSet(taskQ) /\ h \in X /\ Tail(taskQ) \in Seq(X)
      /\ QueuedOnce(Tail(taskQ))
      /\ ToSet(Tail(taskQ)) \subseteq ToSet(taskQ)
      /\ h # Stop => ToSet(Tail(taskQ)) \ {Stop} = (ToSet(taskQ) \ {Stop}) \ {h}
      /\ h = Stop => ToSet(Tail(taskQ)) \ {Stop} = ToSet(taskQ) \ {Stop}
  <2> HIDE DEF X
  <2> QED
    BY <1>1, QueueHead
<1>3. /\ worker' = [worker EXCEPT ![w] = x] /\ taskQ' = Tail(taskQ)
      /\ UNCHANGED <<turn, round, futures, inbox, procs, resultQ, collector, down, threadPool>>
  BY DEF WorkerTake, clients
<1>4. /\ Idle \notin Calls /\ Gone \notin Calls /\ Stop \notin Calls /\ Idle # Gone
  BY PoolAssumption
<1>5. x \in Calls \cup {Idle, Gone}
  BY <1>2
<1> HIDE DEF h, x
<1>6. /\ worker' \in [Workers -> Calls \cup {Idle, Gone}]
      /\ x \in Calls => Executing' = Executing \cup {x} /\ BusyWorkers' = BusyWorkers \cup {w}
      /\ x \notin Calls => Executing' = Executing /\ BusyWorkers' = BusyWorkers
  BY <1>1, <1>3, <1>4, <1>5, WorkerChanges
<1>7. GoneWorkers \subseteq GoneWorkers'
  BY <1>1, <1>3, <1>4 DEF GoneWorkers, PoolInv, PoolTypeOK
<1>8. \/ x \in Calls /\ x = h /\ QueuedCalls' = QueuedCalls \ {x} /\ x \in QueuedCalls
      \/ x \notin Calls /\ h = Stop /\ QueuedCalls' = QueuedCalls
  BY <1>2, <1>3, <1>4 DEF QueuedCalls, x
<1>9. /\ QueuedCalls \cap (Executing \cup procs \cup ToSet(resultQ)) = {}
      /\ Executing \cap (procs \cup ToSet(resultQ)) = {}
      /\ procs \cap ToSet(resultQ) = {}
  BY DEF PoolInv, InOnePlace
<1>10. UnderWay' = UnderWay
  BY <1>3, <1>6, <1>8 DEF UnderWay, QueuedCalls
<1>11. PoolTypeOK'
  BY <1>2, <1>3, <1>6 DEF PoolInv, PoolTypeOK
<1>12. InOnePlace'
  <2>1. (\A v, u \in BusyWorkers : worker[v] = worker[u] => v = u)'
    <3>1. CASE x \notin Calls
      <4>1. \A v \in BusyWorkers : v # w
        BY <1>1, <1>4 DEF BusyWorkers
      <4> QED
        BY <1>3, <1>6, <3>1, <4>1 DEF PoolInv, PoolTypeOK, InOnePlace, BusyWorkers
    <3>2. CASE x \in Calls
      <4>1. \A v \in BusyWorkers : v \in Workers /\ v # w /\ worker[v] \in Executing
        BY <1>1, <1>4 DEF BusyWorkers, Executing
      <4>2. x \notin Executing
        BY <1>8, <1>9, <3>2
      <4>3. worker'[w] = x /\ \A v \in BusyWorkers : worker'[v] = worker[v] /\ worker[v] # x
        BY <1>3, <4>1, <4>2 DEF PoolInv, PoolTypeOK
      <4>4. \A v, u \in BusyWorkers : worker[v] = worker[u] => v = u
        BY DEF PoolInv, InOnePlace
      <4> QED
        BY <1>6, <3>2, <4>3, <4>4
    <3> QED
      BY <3>1, <3>2
  <2>2. QueuedOnce(taskQ)' /\ IsInjective(resultQ)'
    BY <1>2, <1>3 DEF PoolInv, InOnePlace
  <2>3. /\ QueuedCalls' \cap (Executing' \cup procs' \cup ToSet(resultQ)') = {}
        /\ Executing' \cap (procs' \cup ToSet(resultQ)') = {}
        /\ procs' \cap ToSet(resultQ)' = {}
    BY <1>3, <1>6, <1>8, <1>9
  <2> QED
    BY <2>1, <2>2, <2>3 DEF InOnePlace
<1>13. CallsBegun' /\ NoStopYet'
  BY <1>2, <1>3 DEF PoolInv, CallsBegun, NoStopYet
<1>14. Answerable'
  <2>1. Cardinality(GoneWorkers) <= Cardinality(GoneWorkers') /\ Cardinality(GoneWorkers) \in Nat
        /\ Cardinality(GoneWorkers') \in Nat
    <3>1. IsFiniteSet(GoneWorkers')
      BY PoolAssumption, FS_Subset DEF GoneWorkers
    <3> QED
      BY <1>7, <3>1, FS_Subset, FS_CardinalityType
  <2>2. Cardinality(futures \ UnderWay) \in Nat
    BY PoolFinite, FS_CardinalityType DEF PoolInv
  <2> QED
    BY <1>3, <1>10, <2>1, <2>2 DEF PoolInv, Answerable
<1> QED
  BY <1>11, <1>12, <1>13, <1>14 DEF PoolInv

\* A worker has a result for its task.
LEMMA WorkerFinishKeeps == ASSUME PoolInv, NEW w \in Workers, WorkerFinish(w) PROVE PoolInv'
<1> DEFINE t == worker[w]
<1>1. /\ t \in Calls /\ resultQ \in Seq(Calls) /\ IsInjective(resultQ)
      /\ resultQ' = Append(resultQ, t) /\ worker' = [worker EXCEPT ![w] = Idle]
      /\ UNCHANGED <<turn, round, futures, inbox, procs, taskQ, collector, down, threadPool>>
  BY DEF PoolInv, PoolTypeOK, InOnePlace, WorkerFinish, clients
<1>2. Idle \notin Calls /\ Idle \in Calls \cup {Idle, Gone} /\ Idle # Gone /\ Gone \notin Calls
  BY PoolAssumption
<1>3. /\ worker' \in [Workers -> Calls \cup {Idle, Gone}]
      /\ Executing' = Executing \ {t} /\ t \in Executing
      /\ BusyWorkers' = BusyWorkers \ {w}
  BY <1>1, <1>2, WorkerChanges
<1>4. /\ QueuedCalls \cap (Executing \cup procs \cup ToSet(resultQ)) = {}
      /\ Executing \cap (procs \cup ToSet(resultQ)) = {}
      /\ procs \cap ToSet(resultQ) = {}
  BY DEF PoolInv, InOnePlace
<1>5. /\ ToSet(resultQ)' = ToSet(resultQ) \cup {t} /\ IsInjective(resultQ')
      /\ resultQ' \in Seq(Calls)
  <2>1. t \notin ToSet(resultQ)
    BY <1>3, <1>4
  <2> QED
    BY <1>1, <2>1, AppendElements, AppendType
<1>6. QueuedCalls' = QueuedCalls
  BY <1>1 DEF QueuedCalls
<1>7. GoneWorkers' = GoneWorkers
  BY <1>1, <1>2 DEF GoneWorkers, PoolInv, PoolTypeOK
<1> HIDE DEF t
<1>8. UnderWay' = UnderWay
  BY <1>1, <1>3, <1>5, <1>6 DEF UnderWay, QueuedCalls
<1>9. PoolTypeOK'
  BY <1>1, <1>3, <1>5 DEF PoolInv, PoolTypeOK
<1>10. InOnePlace'
  <2>1. (\A v, u \in BusyWorkers : worker[v] = worker[u] => v = u)'
    <3>1. \A v \in BusyWorkers' : v \in BusyWorkers /\ worker'[v] = worker[v]
      BY <1>1, <1>3 DEF PoolInv, PoolTypeOK, BusyWorkers
    <3> QED
      BY <3>1 DEF PoolInv, InOnePlace
  <2>2. QueuedOnce(taskQ)'
    BY <1>1 DEF PoolInv, InOnePlace
  <2>3. /\ QueuedCalls' \cap (Executing' \cup procs' \cup ToSet(resultQ)') = {}
        /\ Executing' \cap (procs' \cup ToSet(resultQ)') = {}
        /\ procs' \cap ToSet(resultQ)' = {}
    BY <1>1, <1>3, <1>4, <1>5, <1>6
  <2> QED
    BY <1>5, <2>1, <2>2, <2>3 DEF InOnePlace
<1>11. CallsBegun' /\ NoStopYet'
  BY <1>1 DEF PoolInv, CallsBegun, NoStopYet
<1>12. Answerable'
  BY <1>1, <1>7, <1>8 DEF PoolInv, Answerable
<1> QED
  BY <1>9, <1>10, <1>11, <1>12 DEF PoolInv

\* A killed worker takes its task with it, and is gone.
LEMMA WorkerCrashKeeps == ASSUME PoolInv, NEW w \in Workers, WorkerCrash(w) PROVE PoolInv'
<1> DEFINE t == worker[w]
<1>1. /\ t \in Calls /\ worker' = [worker EXCEPT ![w] = Gone]
      /\ UNCHANGED <<turn, round, futures, inbox, procs, taskQ, resultQ, collector, down, threadPool>>
  BY DEF WorkerCrash, clients
<1>2. Gone \notin Calls /\ Gone \in Calls \cup {Idle, Gone}
  BY PoolAssumption
<1>3. /\ worker' \in [Workers -> Calls \cup {Idle, Gone}]
      /\ Executing' = Executing \ {t} /\ t \in Executing
      /\ BusyWorkers' = BusyWorkers \ {w}
  BY <1>1, <1>2, WorkerChanges
<1>4. /\ QueuedCalls \cap (Executing \cup procs \cup ToSet(resultQ)) = {}
      /\ Executing \cap (procs \cup ToSet(resultQ)) = {}
      /\ procs \cap ToSet(resultQ) = {}
  BY DEF PoolInv, InOnePlace
<1>5. QueuedCalls' = QueuedCalls
  BY <1>1 DEF QueuedCalls
<1>6. GoneWorkers' = GoneWorkers \cup {w} /\ w \notin GoneWorkers
  BY <1>1, <1>2 DEF GoneWorkers, PoolInv, PoolTypeOK
<1> HIDE DEF t
<1>7. UnderWay' = UnderWay \ {t} /\ t \in UnderWay
  BY <1>1, <1>3, <1>4, <1>5 DEF UnderWay, QueuedCalls
<1>8. PoolTypeOK'
  BY <1>1, <1>3 DEF PoolInv, PoolTypeOK
<1>9. InOnePlace'
  <2>1. (\A v, u \in BusyWorkers : worker[v] = worker[u] => v = u)'
    <3>1. \A v \in BusyWorkers' : v \in BusyWorkers /\ worker'[v] = worker[v]
      BY <1>1, <1>3 DEF PoolInv, PoolTypeOK, BusyWorkers
    <3> QED
      BY <3>1 DEF PoolInv, InOnePlace
  <2>2. QueuedOnce(taskQ)' /\ IsInjective(resultQ)'
    BY <1>1 DEF PoolInv, InOnePlace
  <2>3. /\ QueuedCalls' \cap (Executing' \cup procs' \cup ToSet(resultQ)') = {}
        /\ Executing' \cap (procs' \cup ToSet(resultQ)') = {}
        /\ procs' \cap ToSet(resultQ)' = {}
    BY <1>1, <1>3, <1>4, <1>5
  <2> QED
    BY <2>1, <2>2, <2>3 DEF InOnePlace
<1>10. CallsBegun' /\ NoStopYet'
  BY <1>1 DEF PoolInv, CallsBegun, NoStopYet
<1>11. Answerable'
  <2>1. UnderWay \subseteq futures /\ futures \cap inbox = {}
    BY DEF PoolInv, Answerable
  <2>2. futures' \ UnderWay' = (futures \ UnderWay) \cup {t}
    BY <1>1, <1>7, <2>1
  <2>3. Cardinality(futures' \ UnderWay') = Cardinality(futures \ UnderWay) + 1
    BY <1>7, <2>2, PoolFinite, FS_AddElement DEF PoolInv
  <2>4. Cardinality(GoneWorkers') = Cardinality(GoneWorkers) + 1
    BY <1>6, PoolFinite, FS_AddElement DEF PoolInv
  <2>5. Cardinality(GoneWorkers) \in Nat /\ Cardinality(futures \ UnderWay) \in Nat
    BY PoolFinite, FS_CardinalityType DEF PoolInv
  <2>6. UnderWay' \subseteq futures' /\ futures' \cap inbox' = {}
    BY <1>1, <1>7, <2>1
  <2>7. down = "up" => Cardinality(futures \ UnderWay) <= Cardinality(GoneWorkers)
    BY DEF PoolInv, Answerable
  <2>8. down' = "up" => Cardinality(futures' \ UnderWay') <= Cardinality(GoneWorkers')
    BY <1>1, <2>3, <2>4, <2>5, <2>7
  <2> QED
    BY <2>6, <2>8 DEF Answerable
<1> QED
  BY <1>8, <1>9, <1>10, <1>11 DEF PoolInv

\* The process of a task ends, and its result is there.
LEMMA ProcExitKeeps == ASSUME PoolInv, NEW t \in Calls, ProcExit(t) PROVE PoolInv'
<1>1. /\ t \in procs /\ resultQ \in Seq(Calls) /\ IsInjective(resultQ)
      /\ resultQ' = Append(resultQ, t) /\ procs' = procs \ {t}
      /\ UNCHANGED <<turn, round, futures, inbox, worker, taskQ, collector, down, threadPool>>
  BY DEF PoolInv, PoolTypeOK, InOnePlace, ProcExit, ResultOf, clients
<1>2. /\ QueuedCalls \cap (Executing \cup procs \cup ToSet(resultQ)) = {}
      /\ Executing \cap (procs \cup ToSet(resultQ)) = {}
      /\ procs \cap ToSet(resultQ) = {}
  BY DEF PoolInv, InOnePlace
<1>3. /\ ToSet(resultQ)' = ToSet(resultQ) \cup {t} /\ IsInjective(resultQ')
      /\ resultQ' \in Seq(Calls)
  <2>1. t \notin ToSet(resultQ)
    BY <1>1, <1>2
  <2> QED
    BY <1>1, <2>1, AppendElements, AppendType
<1>4. /\ QueuedCalls' = QueuedCalls /\ GoneWorkers' = GoneWorkers
      /\ Executing' = Executing /\ BusyWorkers' = BusyWorkers
  BY <1>1 DEF QueuedCalls, GoneWorkers, Executing, BusyWorkers
<1>5. UnderWay' = UnderWay
  BY <1>1, <1>3, <1>4 DEF UnderWay, QueuedCalls
<1>6. PoolTypeOK'
  BY <1>1, <1>3 DEF PoolInv, PoolTypeOK
<1>7. InOnePlace'
  <2>1. QueuedOnce(taskQ)' /\ (\A v, u \in BusyWorkers : worker[v] = worker[u] => v = u)'
    BY <1>1, <1>4 DEF PoolInv, InOnePlace
  <2>2. /\ QueuedCalls' \cap (Executing' \cup procs' \cup ToSet(resultQ)') = {}
        /\ Executing' \cap (procs' \cup ToSet(resultQ)') = {}
        /\ procs' \cap ToSet(resultQ)' = {}
    BY <1>1, <1>2, <1>3, <1>4
  <2> QED
    BY <1>3, <2>1, <2>2 DEF InOnePlace
<1>8. CallsBegun' /\ NoStopYet' /\ Answerable'
  BY <1>1, <1>4, <1>5 DEF PoolInv, CallsBegun, NoStopYet, Answerable
<1> QED
  BY <1>6, <1>7, <1>8 DEF PoolInv

\* The collector answers a task once: it leaves the results and the futures.
LEMMA CollectKeeps == ASSUME PoolInv, Collect PROVE PoolInv'
<1> DEFINE t == Head(resultQ)
<1>1. resultQ \in Seq(Calls) /\ IsInjective(resultQ) /\ resultQ # <<>>
  BY DEF PoolInv, PoolTypeOK, InOnePlace, Collect
<1>2. /\ t \in ToSet(resultQ) /\ t \in Calls
      /\ ToSet(Tail(resultQ)) = ToSet(resultQ) \ {t}
      /\ IsInjective(Tail(resultQ)) /\ Tail(resultQ) \in Seq(Calls)
  <2>1. t \in Calls /\ Tail(resultQ) \in Seq(Calls)
    BY <1>1
  <2> QED
    BY <1>1, <2>1, TailElements
<1>3. UnderWay \subseteq futures /\ t \in UnderWay
  BY <1>2 DEF PoolInv, Answerable, UnderWay
<1>4. /\ inbox' = inbox \cup {t} /\ futures' = futures \ {t} /\ resultQ' = Tail(resultQ)
      /\ UNCHANGED <<turn, round, procs, worker, taskQ, collector, down, threadPool>>
  BY <1>3 DEF Collect, Deliver, TakeFuture, clients
<1> HIDE DEF t
<1>5. /\ QueuedCalls \cap (Executing \cup procs \cup ToSet(resultQ)) = {}
      /\ Executing \cap (procs \cup ToSet(resultQ)) = {}
      /\ procs \cap ToSet(resultQ) = {}
  BY DEF PoolInv, InOnePlace
<1>6. /\ QueuedCalls' = QueuedCalls /\ GoneWorkers' = GoneWorkers
      /\ Executing' = Executing /\ BusyWorkers' = BusyWorkers
      /\ ToSet(resultQ)' = ToSet(resultQ) \ {t}
  BY <1>2, <1>4 DEF QueuedCalls, GoneWorkers, Executing, BusyWorkers
<1>7. UnderWay' = UnderWay \ {t}
  BY <1>2, <1>4, <1>5, <1>6 DEF UnderWay, QueuedCalls
<1>8. PoolTypeOK'
  BY <1>2, <1>4 DEF PoolInv, PoolTypeOK
<1>9. InOnePlace'
  <2>1. QueuedOnce(taskQ)' /\ (\A v, u \in BusyWorkers : worker[v] = worker[u] => v = u)'
    BY <1>4, <1>6 DEF PoolInv, InOnePlace
  <2>2. /\ QueuedCalls' \cap (Executing' \cup procs' \cup ToSet(resultQ)') = {}
        /\ Executing' \cap (procs' \cup ToSet(resultQ)') = {}
        /\ procs' \cap ToSet(resultQ)' = {}
    BY <1>4, <1>5, <1>6
  <2> QED
    BY <1>2, <1>4, <2>1, <2>2 DEF InOnePlace
<1>10. CallsBegun'
  <2>1. futures' \cup inbox' = futures \cup inbox
    BY <1>3, <1>4
  <2> QED
    BY <1>4, <2>1 DEF PoolInv, CallsBegun
<1>11. NoStopYet'
  BY <1>4 DEF PoolInv, NoStopYet
<1>12. Answerable'
  <2>1. futures' \ UnderWay' = futures \ UnderWay
    BY <1>3, <1>4, <1>7
  <2> QED
    BY <1>4, <1>6, <1>7, <2>1 DEF PoolInv, Answerable
<1> QED
  BY <1>8, <1>9, <1>10, <1>11, <1>12 DEF PoolInv

\* The shutdown queues one Stop per worker behind the tasks.
LEMMA BeginShutdownKeeps == ASSUME PoolInv, BeginShutdown PROVE PoolInv'
<1> DEFINE n == Cardinality(Workers)
           c == [i \in 1..n |-> Stop]
           X == Calls \cup {Stop}
<1>1. n \in Nat
  BY PoolAssumption, FS_CardinalityType
<1>2. /\ taskQ \in Seq(X) /\ QueuedOnce(taskQ)
      /\ taskQ' = taskQ \/ taskQ' = taskQ \o c
      /\ down' = "join" /\ down = "up"
      /\ UNCHANGED <<turn, round, futures, inbox, procs, worker, resultQ, collector, threadPool>>
  BY DEF PoolInv, PoolTypeOK, InOnePlace, BeginShutdown, clients
<1>3. c \in Seq(X) /\ Len(c) = n /\ \A i \in 1..n : c[i] = Stop
  BY <1>1
<1>4. taskQ' \in Seq(X) /\ QueuedOnce(taskQ') /\ QueuedCalls' = QueuedCalls
  <2>1. CASE taskQ' = taskQ
    BY <1>2, <2>1 DEF QueuedCalls
  <2>2. CASE taskQ' = taskQ \o c
    <3> HIDE DEF c, n, X
    <3>1. /\ taskQ' \in Seq(X) /\ DOMAIN taskQ' = 1..(Len(taskQ) + n)
          /\ DOMAIN taskQ = 1..Len(taskQ) /\ Len(taskQ) \in Nat
          /\ \A i \in 1..Len(taskQ) : taskQ'[i] = taskQ[i]
          /\ \A i \in 1..(Len(taskQ) + n) : i > Len(taskQ) => taskQ'[i] = c[i - Len(taskQ)]
      <4> DEFINE s == taskQ \o c
      <4>1. /\ s \in Seq(X) /\ Len(s) = Len(taskQ) + n
            /\ \A i \in 1..Len(s) : s[i] = IF i <= Len(taskQ) THEN taskQ[i] ELSE c[i - Len(taskQ)]
        BY <1>2, <1>3, ConcatProperties
      <4>2. Len(taskQ) \in Nat /\ DOMAIN taskQ = 1..Len(taskQ)
        BY <1>2
      <4>3. DOMAIN s = 1..(Len(taskQ) + n)
        BY <4>1
      <4> HIDE DEF s
      <4>4. \A i \in 1..Len(taskQ) : s[i] = taskQ[i]
        BY <1>1, <4>1, <4>2 DEF n
      <4>5. \A i \in 1..(Len(taskQ) + n) : i > Len(taskQ) => s[i] = c[i - Len(taskQ)]
        BY <1>1, <4>1, <4>2
      <4> QED
        BY <2>2, <4>1, <4>2, <4>3, <4>4, <4>5 DEF s
    <3>2. \A i \in 1..(Len(taskQ) + n) :
              \/ i \in 1..Len(taskQ) /\ taskQ'[i] = taskQ[i]
              \/ taskQ'[i] = Stop
      BY <1>1, <1>3, <3>1
    <3>3. QueuedOnce(taskQ')
      BY <1>2, <3>1, <3>2 DEF QueuedOnce
    <3>4. ToSet(taskQ') = ToSet(taskQ) \cup ToSet(c) /\ ToSet(c) \subseteq {Stop}
      <4>1. ToSet(c) \subseteq {Stop}
        BY <1>3 DEF ToSet, c
      <4> QED
        BY <1>2, <1>3, <2>2, <4>1, ConcatElements
    <3> QED
      BY <3>1, <3>3, <3>4 DEF QueuedCalls
  <2> QED
    BY <1>2, <2>1, <2>2
<1>5. /\ GoneWorkers' = GoneWorkers /\ UnderWay' = UnderWay
      /\ Executing' = Executing /\ BusyWorkers' = BusyWorkers
  BY <1>2, <1>4 DEF QueuedCalls, GoneWorkers, Executing, BusyWorkers, UnderWay
<1>6. PoolTypeOK'
  BY <1>2, <1>4 DEF PoolInv, PoolTypeOK
<1>7. InOnePlace'
  BY <1>2, <1>4, <1>5 DEF PoolInv, InOnePlace
<1>8. CallsBegun' /\ NoStopYet' /\ Answerable'
  BY <1>2, <1>5 DEF PoolInv, CallsBegun, NoStopYet, Answerable
<1> QED
  BY <1>6, <1>7, <1>8 DEF PoolInv

\* Workers that are terminated take their tasks with them; nobody counts any more.
LEMMA EndJoinKeeps == ASSUME PoolInv, EndJoin PROVE PoolInv'
<1>1. /\ down' = "stop" /\ down = "join"
      /\ worker' = [w \in Workers |-> IF threadPool THEN worker[w] ELSE Gone]
      /\ UNCHANGED <<turn, round, futures, inbox, procs, taskQ, resultQ, collector, threadPool>>
  BY DEF EndJoin, clients
<1>2. worker \in [Workers -> Calls \cup {Idle, Gone}] /\ Gone \notin Calls
  BY PoolAssumption DEF PoolInv, PoolTypeOK
<1>3. /\ worker' \in [Workers -> Calls \cup {Idle, Gone}]
      /\ \A w \in Workers : worker'[w] \in Calls => worker'[w] = worker[w]
  BY <1>1, <1>2
<1>4. /\ Executing' \subseteq Executing /\ BusyWorkers' \subseteq BusyWorkers
      /\ \A w \in BusyWorkers' : worker'[w] = worker[w]
  BY <1>3 DEF Executing, BusyWorkers
<1>5. QueuedCalls' = QueuedCalls /\ UnderWay' \subseteq UnderWay
  BY <1>1, <1>4 DEF QueuedCalls, UnderWay
<1>6. PoolTypeOK'
  BY <1>1, <1>3 DEF PoolInv, PoolTypeOK
<1>7. InOnePlace'
  <2>1. QueuedOnce(taskQ)' /\ IsInjective(resultQ)'
    BY <1>1 DEF PoolInv, InOnePlace
  <2>2. (\A v, u \in BusyWorkers : worker[v] = worker[u] => v = u)'
    BY <1>4 DEF PoolInv, InOnePlace
  <2>3. /\ QueuedCalls' \cap (Executing' \cup procs' \cup ToSet(resultQ)') = {}
        /\ Executing' \cap (procs' \cup ToSet(resultQ)') = {}
        /\ procs' \cap ToSet(resultQ)' = {}
    BY <1>1, <1>4, <1>5 DEF PoolInv, InOnePlace
  <2> QED
    BY <2>1, <2>2, <2>3 DEF InOnePlace
<1>8. CallsBegun' /\ NoStopYet' /\ Answerable'
  BY <1>1, <1>5 DEF PoolInv, CallsBegun, NoStopYet, Answerable
<1> QED
  BY <1>6, <1>7, <1>8 DEF PoolInv

\* The collector thread ends.
LEMMA StopCollectorKeeps == ASSUME PoolInv, StopCollector PROVE PoolInv'
<1>1. /\ down' = "down" /\ collector' = FALSE
      /\ UNCHANGED <<turn, round, futures, inbox, procs, taskQ, worker, resultQ, threadPool>>
  BY DEF StopCollector, clients
<1>2. UnderWay' = UnderWay /\ Executing' = Executing /\ BusyWorkers' = BusyWorkers /\ QueuedCalls' = QueuedCalls
  BY <1>1 DEF UnderWay, Executing, BusyWorkers, QueuedCalls
<1>3. PoolTypeOK'
  BY <1>1 DEF PoolInv, PoolTypeOK
<1>4. InOnePlace' /\ CallsBegun' /\ NoStopYet' /\ Answerable'
  BY <1>1, <1>2 DEF PoolInv, InOnePlace, CallsBegun, NoStopYet, Answerable
<1> QED
  BY <1>3, <1>4 DEF PoolInv

\* Every step of the pool and of the requests keeps the invariant.
LEMMA PoolStepKeeps == ASSUME PoolInv, PoolStep \/ ShutDown PROVE PoolInv'
<1>1. ASSUME NEW r \in Requests, Coroutine(r) \/ Timeout(r) PROVE PoolInv'
  <2>1. CASE EndRequest(r)
    BY <2>1, PoolQuiet DEF EndRequest, PoolInv, PoolTypeOK, pool
  <2>2. CASE Timeout(r)
    BY <2>2, PoolQuiet DEF Timeout, AfterTimeout, PoolInv, PoolTypeOK, pool
  <2> QED
    BY <1>1, <2>1, <2>2, SubmitKeeps, FeedbackKeeps, AnswerKeeps DEF Coroutine
<1>2. ASSUME NEW w \in Workers, Worker(w) \/ WorkerCrash(w) PROVE PoolInv'
  BY <1>2, WorkerTakeKeeps, WorkerFinishKeeps, WorkerCrashKeeps DEF Worker
<1>3. CASE \E t \in Calls : ProcExit(t)
  BY <1>3, ProcExitKeeps
<1>4. CASE Collect
  BY <1>4, CollectKeeps
<1>5. CASE ShutDown
  BY <1>5, BeginShutdownKeeps, EndJoinKeeps, StopCollectorKeeps DEF ShutDown
<1> QED
  BY <1>1, <1>2, <1>3, <1>4, <1>5 DEF PoolStep

-----------------------------------------------------------------------------
(* The admission of the replay driver. *)

\* A request that has not arrived has not been launched.
NotArrived == \A r \in Requests : r > arrived => turn[r] = "new"

\* What the books add up to.
BooksTotal(f) == FoldFunction(+, 0, f)

\* The books are about the long requests in flight, and the total is theirs.
KvBooked ==
    /\ kvTotal = BooksTotal(kvOf)
    /\ {r \in Requests : kvOf[r] > 0} \subseteq LongIn(pending)

BooksInv ==
    /\ tokens \in [Requests -> Nat \ {0}]
    /\ ReplayTypeOK /\ PoolTypeOK /\ EveryRequestOnce /\ KvBooked /\ NotArrived

\* The limits that follow from the configuration.
LEMMA ReplayLimits ==
    /\ WindowMin \in 1..PoolSize
    /\ InitialWindow \in WindowMin..PoolSize
    /\ CpuCap \in WindowMin..PoolSize
    /\ UsageHigh \in Nat /\ UsageLow \in Nat /\ UsageLow < UsageHigh
<1>1. WindowMin \in 1..PoolSize
  BY ReplayAssumption DEF WindowMin, Clamp, Higher, Lower
<1>2. InitialWindow \in WindowMin..PoolSize
  BY <1>1, ReplayAssumption DEF InitialWindow, Higher, Lower
<1>3. CpuCap \in WindowMin..PoolSize
  BY <1>1, ReplayAssumption DEF CpuCap, Clamp, Higher, Lower
<1>4. UsageHigh \in Nat /\ UsageLow \in Nat /\ UsageLow < UsageHigh
  BY ReplayAssumption DEF UsageHigh, UsageLow, Higher
<1> QED
  BY <1>1, <1>2, <1>3, <1>4

\* The requests are finitely many, and so is every set of them.
LEMMA RequestSets ==
    /\ IsFiniteSet(Requests)
    /\ Cardinality(Requests) \in Nat
    /\ \A s \in SUBSET Requests : IsFiniteSet(s) /\ Cardinality(s) \in Nat
  BY PoolAssumption, FS_Subset, FS_CardinalityType

\* What the requests cost.
Costs == [r \in Requests |-> Cost(r)]

\* The cost of some requests is a sum of naturals.
LEMMA CostSums ==
    ASSUME tokens \in [Requests -> Nat \ {0}]
    PROVE  /\ Costs \in [Requests -> Nat]
           /\ \A u \in SUBSET Requests : CostOf(u) = SumOf(Costs)[u] /\ CostOf(u) \in Nat
           /\ \A u \in SUBSET Requests : \A v \in SUBSET u : CostOf(v) <= CostOf(u)
<1>1. Costs \in [Requests -> Nat]
  <2>1. ASSUME NEW n \in Nat, NEW b \in Nat \ {0} PROVE (n + b - 1) \div b \in Nat
    BY <2>1, Z3
  <2>2. ASSUME NEW r \in Requests PROVE Cost(r) \in Nat
    <3>1. tokens[r] \in Nat /\ BlockSize \in Nat \ {0}
      BY <2>2, ReplayAssumption
    <3> QED
      BY <2>1, <3>1 DEF Cost, BlocksFor
  <2> QED
    BY <2>2 DEF Costs
<1>2. Costs \in [Requests -> Int] /\ IsFiniteSet(Requests)
  BY <1>1, RequestSets
<1>3. ASSUME NEW u \in SUBSET Requests PROVE CostOf(u) = SumOf(Costs)[u] /\ CostOf(u) \in Nat
  <2>1. CostOf(u) = FoldFunctionOnSet(+, 0, Costs, u)
    BY Zenon DEF CostOf, Costs
  <2>2. FoldFunctionOnSet(+, 0, Costs, u) = SumOf(Costs)[u]
    BY <1>2, <1>3, OnSetIsSum
  <2>3. SumOf(Costs)[u] \in Nat
    BY <1>1, <1>2, <1>3, SumNat
  <2> QED
    BY <2>1, <2>2, <2>3
<1>4. ASSUME NEW u \in SUBSET Requests, NEW v \in SUBSET u PROVE CostOf(v) <= CostOf(u)
  <2>1. v \in SUBSET Requests
    BY <1>4
  <2>2. SumOf(Costs)[v] <= SumOf(Costs)[u]
    BY <1>1, <1>2, <1>4, SumSubset
  <2> QED
    BY <1>3, <2>1, <2>2
<1> QED
  BY <1>1, <1>3, <1>4

\* The cap that the KV usage puts on the window.
LEMMA ReplayKvCap == ASSUME ReplayTypeOK PROVE Usage \in Int /\ KvCap \in WindowMin..PoolSize
<1>1. Usage \in Int
  <2>1. free \in Int /\ NumGpuBlocks - 1 \in Nat \ {0}
    BY ReplayAssumption DEF ReplayTypeOK
  <2>2. 10000 * free \in Int
    BY <2>1
  <2>3. ASSUME NEW a \in Int, NEW d \in Nat \ {0} PROVE a \div d \in Int
    OBVIOUS
  <2>4. (10000 * free) \div (NumGpuBlocks - 1) \in Int
    <3> DEFINE x == 10000 * free
               y == NumGpuBlocks - 1
    <3>1. x \in Int /\ y \in Nat \ {0}
      BY <2>1, <2>2
    <3> HIDE DEF x, y
    <3>2. x \div y \in Int
      BY <2>3, <3>1
    <3> QED
      BY <3>2 DEF x, y
  <2> QED
    BY <2>4 DEF Usage, PoolUsage
<1>2. ASSUME NEW n \in Int, NEW d \in Nat \ {0} PROVE Round(n, d) \in Int
  <2>1. (2 * n + d) \div (2 * d) \in Int
    OBVIOUS
  <2> QED
    BY <2>1 DEF Round
<1> DEFINE d == UsageHigh - UsageLow
           n == PoolSize * d - (Usage - UsageLow) * (PoolSize - WindowMin)
<1>3. d \in Nat \ {0} /\ PoolSize \in Int /\ WindowMin \in Int /\ Usage - UsageLow \in Int
      /\ WindowMin <= PoolSize
  BY <1>1, ReplayLimits, ReplayAssumption
<1>4. n \in Int
  <2> HIDE DEF d
  <2> QED
    BY <1>3
<1>5. Round(n, d) \in Int
  <2> HIDE DEF d, n
  <2> QED
    BY <1>2, <1>3, <1>4
<1>6. KvCap = IF HasStats THEN IF Usage <= UsageLow THEN PoolSize
                               ELSE IF Usage >= UsageHigh THEN WindowMin
                               ELSE Clamp(WindowMin, PoolSize, Round(n, d))
              ELSE PoolSize
  BY DEF KvCap, UsageCap
<1> HIDE DEF d, n
<1> QED
  BY <1>1, <1>3, <1>5, <1>6 DEF Clamp, Higher, Lower

\* The window keeps to its limits, whichever way it is moved and capped.
LEMMA ReplayWindow == ASSUME ReplayTypeOK PROVE NextWindow \in WindowMin..PoolSize
<1>1. window \in Nat /\ DecNum \in Nat /\ DecDen \in Nat \ {0} /\ WindowInc \in Nat
  BY ReplayLimits, ReplayAssumption DEF ReplayTypeOK
<1>2. (window * DecNum) \div DecDen \in Int
  <2>1. window * DecNum \in Nat
    BY <1>1
  <2> QED
    BY <1>1, <2>1
<1>3. TargetWindow \in Int
  BY <1>1, <1>2 DEF TargetWindow
<1>4. WindowMin \in Int /\ PoolSize \in Int /\ CpuCap \in WindowMin..PoolSize
      /\ KvCap \in WindowMin..PoolSize /\ WindowMin <= PoolSize
  BY ReplayLimits, ReplayKvCap, ReplayAssumption
<1> HIDE DEF TargetWindow, KvCap, CpuCap, WindowMin
<1> QED
  BY <1>3, <1>4 DEF NextWindow, Clamp, Higher, Lower

\* In each of the three orders every candidate has a place of its own.
PlacesOwn(place) ==
    /\ place \in [backlog -> Nat]
    /\ \A a, b \in backlog : place[a] = place[b] => a = b

\* The orders are strict and total.
LEMMA OrdersTotal ==
    ASSUME tokens \in [Requests -> Nat \ {0}], backlog \subseteq Requests
    PROVE  PlacesOwn(Places(ByArrival)) /\ PlacesOwn(Places(SmallFirst)) /\ PlacesOwn(Places(LargeFirst))
<1>1. /\ IsFiniteSet(backlog)
      /\ \A r \in backlog : r \in Int /\ tokens[r] \in Int
  BY RequestSets, ReplayAssumption
<1>2. ASSUME NEW R, NEW place,
             \A a, b \in backlog : a # b => <<a, b>> \in R \/ <<b, a>> \in R,
             \A a \in backlog : <<a, a>> \notin R,
             \A a, b, c \in backlog : <<a, b>> \in R /\ <<b, c>> \in R => <<a, c>> \in R,
             place = [r \in backlog |-> Cardinality({q \in backlog : <<q, r>> \in R}) + 1]
      PROVE  PlacesOwn(place)
  <2> DEFINE N(a) == Cardinality({q \in backlog : <<q, a>> \in R})
  <2>1. /\ \A a \in backlog : N(a) \in Nat
        /\ \A a, b \in backlog : N(a) = N(b) => a = b
    BY <1>1, <1>2, RanksDiffer
  <2>2. \A a \in backlog : place[a] = N(a) + 1
    BY <1>2
  <2>3. place = [r \in backlog |-> place[r]]
    BY <1>2
  <2> HIDE DEF N
  <2>4. \A a \in backlog : place[a] \in Nat
    BY <2>1, <2>2
  <2>5. \A a, b \in backlog : place[a] = place[b] => a = b
    BY <2>1, <2>2
  <2> QED
    BY <2>3, <2>4, <2>5 DEF PlacesOwn
<1>3. PlacesOwn(Places(ByArrival))
  <2> DEFINE R == {p \in backlog \X backlog : p[1] < p[2]}
  <2>1. \A a, b \in backlog : <<a, b>> \in R <=> a < b
    OBVIOUS
  <2>2. Places(ByArrival) = [r \in backlog |-> Cardinality({q \in backlog : <<q, r>> \in R}) + 1]
    <3>1. \A r \in backlog : {q \in backlog : ByArrival(q, r)} = {q \in backlog : <<q, r>> \in R}
      BY <2>1 DEF ByArrival
    <3> HIDE DEF R
    <3> QED
      BY <3>1 DEF Places
  <2> HIDE DEF R
  <2>3. \A a, b \in backlog : a # b => <<a, b>> \in R \/ <<b, a>> \in R
    BY <1>1, <2>1
  <2>4. \A a \in backlog : <<a, a>> \notin R
    BY <1>1, <2>1
  <2>5. \A a, b, c \in backlog : <<a, b>> \in R /\ <<b, c>> \in R => <<a, c>> \in R
    BY <1>1, <2>1
  <2> QED
    BY <1>2, <2>2, <2>3, <2>4, <2>5
<1>4. PlacesOwn(Places(SmallFirst))
  <2> DEFINE R == {p \in backlog \X backlog : SmallFirst(p[1], p[2])}
  <2>1. \A a, b \in backlog : <<a, b>> \in R
                                  <=> tokens[a] < tokens[b] \/ (tokens[a] = tokens[b] /\ a < b)
    BY DEF SmallFirst
  <2>2. Places(SmallFirst) = [r \in backlog |-> Cardinality({q \in backlog : <<q, r>> \in R}) + 1]
    <3>1. \A r \in backlog : {q \in backlog : SmallFirst(q, r)} = {q \in backlog : <<q, r>> \in R}
      BY <2>1 DEF SmallFirst
    <3> HIDE DEF R
    <3> QED
      BY <3>1 DEF Places
  <2> HIDE DEF R
  <2>3. \A a, b \in backlog : a # b => <<a, b>> \in R \/ <<b, a>> \in R
    BY <1>1, <2>1
  <2>4. \A a \in backlog : <<a, a>> \notin R
    BY <1>1, <2>1
  <2>5. \A a, b, c \in backlog : <<a, b>> \in R /\ <<b, c>> \in R => <<a, c>> \in R
    BY <1>1, <2>1
  <2> QED
    BY <1>2, <2>2, <2>3, <2>4, <2>5
<1>5. PlacesOwn(Places(LargeFirst))
  <2> DEFINE R == {p \in backlog \X backlog : LargeFirst(p[1], p[2])}
  <2>1. \A a, b \in backlog : <<a, b>> \in R
                                  <=> tokens[a] > tokens[b] \/ (tokens[a] = tokens[b] /\ a < b)
    BY DEF LargeFirst
  <2>2. Places(LargeFirst) = [r \in backlog |-> Cardinality({q \in backlog : <<q, r>> \in R}) + 1]
    <3>1. \A r \in backlog : {q \in backlog : LargeFirst(q, r)} = {q \in backlog : <<q, r>> \in R}
      BY <2>1 DEF LargeFirst
    <3> HIDE DEF R
    <3> QED
      BY <3>1 DEF Places
  <2> HIDE DEF R
  <2>3. \A a, b \in backlog : a # b => <<a, b>> \in R \/ <<b, a>> \in R
    BY <1>1, <2>1
  <2>4. \A a \in backlog : <<a, a>> \notin R
    BY <1>1, <2>1
  <2>5. \A a, b, c \in backlog : <<a, b>> \in R /\ <<b, c>> \in R => <<a, c>> \in R
    BY <1>1, <2>1
  <2> QED
    BY <1>2, <2>2, <2>3, <2>4, <2>5
<1> QED
  BY <1>3, <1>4, <1>5

\* A request fits beside those that are taken already.
FitsBeside(sel, r, slots, longs, blocks) ==
    /\ Cardinality(sel) < slots
    /\ IsLong(r) => Cardinality(LongIn(sel)) < longs
    /\ CostOf(sel \cup {r}) <= blocks

\* What is taken once the first i places have been looked at.
Takes(g, place, slots, longs, blocks) ==
    g = [i \in 0..Cardinality(backlog) |->
            IF i = 0 THEN {}
            ELSE g[i - 1] \cup {r \in backlog : place[r] = i /\ FitsBeside(g[i - 1], r, slots, longs, blocks)}]

\* The recursion that defines the choice.
LEMMA GreedyIsTakes ==
    ASSUME NEW place, NEW slots, NEW longs, NEW blocks
    PROVE  Greedy(place, slots, longs, blocks)
               = (CHOOSE g : Takes(g, place, slots, longs, blocks))[Cardinality(backlog)]
  BY Zenon DEF Greedy, Takes, FitsBeside

\* The recursion has a solution.
LEMMA TakesExists ==
    ASSUME NEW place, NEW slots, NEW longs, NEW blocks, Cardinality(backlog) \in Nat
    PROVE  \E g : Takes(g, place, slots, longs, blocks)
<1> DEFINE n == Cardinality(backlog)
           D == SUBSET backlog
           More(i, s) == {r \in backlog : place[r] = i /\ FitsBeside(s, r, slots, longs, blocks)}
           F == [p \in (1..n) \X D |-> p[2] \cup More(p[1], p[2])]
<1>1. F \in [(1..n) \X D -> D]
  OBVIOUS
<1>2. {} \in D
  OBVIOUS
<1>3. \A i \in 1..n, s \in D : F[<<i, s>>] = s \cup More(i, s)
  OBVIOUS
<1>4. PICK g : Recursion(g, {}, F, n, D)
  <2>1. n \in Nat
    OBVIOUS
  <2> DEFINE c == {}
  <2>2. c \in D
    BY <1>2
  <2> HIDE DEF D, F, n, c
  <2>3. \E g : Recursion(g, c, F, n, D)
    BY <1>1, <2>1, <2>2, RecursionExists
  <2> QED
    BY <2>3 DEF c
<1>5. g \in [0..n -> D] /\ g[0] = {} /\ \A i \in 1..n : g[i] = F[<<i, g[i - 1]>>]
  <2> HIDE DEF D, F, n
  <2> QED
    BY <1>4 DEF Recursion
<1> DEFINE h == [i \in 0..n |-> IF i = 0 THEN {} ELSE g[i - 1] \cup More(i, g[i - 1])]
<1>6. \A i \in 0..n : g[i] = h[i]
  <2> SUFFICES ASSUME NEW i \in 0..n PROVE g[i] = h[i]
    OBVIOUS
  <2>1. CASE i = 0
    BY <1>5, <2>1
  <2>2. CASE i # 0
    <3>1. i \in 1..n /\ i - 1 \in 0..n
      BY <2>2
    <3>2. g[i - 1] \in D
      BY <1>5, <3>1
    <3>3. g[i] = g[i - 1] \cup More(i, g[i - 1])
      <4> HIDE DEF F, D, More
      <4> QED
        BY <1>3, <1>5, <3>1, <3>2
    <3>4. h[i] = g[i - 1] \cup More(i, g[i - 1])
      <4> HIDE DEF More
      <4> QED
        BY <2>2
    <3> QED
      BY <3>3, <3>4
  <2> QED
    BY <2>1, <2>2
<1>7. g = h
  <2>1. g = [i \in 0..n |-> g[i]] /\ h = [i \in 0..n |-> h[i]]
    BY <1>5
  <2> HIDE DEF h
  <2> QED
    BY <1>6, <2>1
<1>8. Takes(g, place, slots, longs, blocks)
  BY <1>7 DEF Takes
<1> QED
  BY <1>8

\* The choice is one of candidates, and within the limits.
LEMMA GreedyFits ==
    ASSUME tokens \in [Requests -> Nat \ {0}], backlog \subseteq Requests,
           NEW place, PlacesOwn(place), NEW slots \in Nat, NEW longs \in Int, NEW blocks \in Int
    PROVE  /\ Greedy(place, slots, longs, blocks) \subseteq backlog
           /\ Cardinality(Greedy(place, slots, longs, blocks)) <= slots
           /\ \/ LongIn(Greedy(place, slots, longs, blocks)) = {}
              \/ Cardinality(LongIn(Greedy(place, slots, longs, blocks))) <= longs
           /\ \/ Greedy(place, slots, longs, blocks) = {}
              \/ CostOf(Greedy(place, slots, longs, blocks)) <= blocks
<1> DEFINE n == Cardinality(backlog)
           g == CHOOSE g : Takes(g, place, slots, longs, blocks)
           More(i) == {r \in backlog : place[r] = i /\ FitsBeside(g[i - 1], r, slots, longs, blocks)}
           Good(s) == /\ s \subseteq backlog
                      /\ Cardinality(s) <= slots
                      /\ LongIn(s) = {} \/ Cardinality(LongIn(s)) <= longs
                      /\ s = {} \/ CostOf(s) <= blocks
           G == {k \in 0..n : Good(g[k])}
<1>1. n \in Nat
  BY RequestSets
<1>2. Takes(g, place, slots, longs, blocks)
  <2>1. \E k : Takes(k, place, slots, longs, blocks)
    BY <1>1, TakesExists
  <2> QED
    BY <2>1
<1> HIDE DEF g
<1>3. g[0] = {} /\ \A i \in 1..n : g[i] = g[i - 1] \cup More(i)
  <2>1. \A i \in 0..n : g[i] = IF i = 0 THEN {} ELSE g[i - 1] \cup More(i)
    BY <1>2 DEF Takes
  <2>2. 0 \in 0..n /\ \A i \in 1..n : i \in 0..n /\ i # 0
    BY <1>1
  <2> HIDE DEF More, n
  <2> QED
    BY <2>1, <2>2
<1>4. 0 \in G
  <2>1. LongIn({}) = {}
    BY DEF LongIn
  <2>2. Good(g[0])
    BY <1>3, <2>1, FS_EmptySet
  <2> HIDE DEF Good
  <2> QED
    BY <1>1, <2>2
<1>5. ASSUME NEW k \in 1..n, k - 1 \in G PROVE k \in G
  <2> DEFINE s == g[k - 1]
  <2>1. Good(s) /\ g[k] = s \cup More(k)
    BY <1>3, <1>5
  <2>2. CASE More(k) = {}
    <3>1. g[k] = s
      BY <2>1, <2>2
    <3> HIDE DEF Good
    <3> QED
      BY <2>1, <3>1
  <2>3. CASE More(k) # {}
    <3>1. PICK r \in More(k) : TRUE
      BY <2>3
    <3>2. r \in backlog /\ r \in Requests /\ FitsBeside(s, r, slots, longs, blocks)
      OBVIOUS
    <3>3. More(k) = {r}
      BY <3>1 DEF PlacesOwn
    <3> DEFINE t == s \cup {r}
    <3>4. g[k] = t
      BY <2>1, <3>3
    <3> HIDE DEF s, More
    <3>5. s \subseteq backlog /\ t \subseteq backlog
      BY <2>1, <3>2
    <3>6. /\ IsFiniteSet(s) /\ IsFiniteSet(LongIn(s))
          /\ Cardinality(s) \in Nat /\ Cardinality(LongIn(s)) \in Nat
      <4>1. s \in SUBSET Requests /\ LongIn(s) \in SUBSET Requests
        BY <3>5 DEF LongIn
      <4> QED
        BY <4>1, RequestSets
    <3>7. Cardinality(t) <= slots
      <4>1. Cardinality(t) = IF r \in s THEN Cardinality(s) ELSE Cardinality(s) + 1
        BY <3>6, FS_AddElement
      <4>2. Cardinality(s) < slots
        BY <3>2 DEF FitsBeside
      <4> HIDE DEF t
      <4> QED
        BY <3>6, <4>1, <4>2
    <3>8. LongIn(t) = {} \/ Cardinality(LongIn(t)) <= longs
      <4>1. CASE IsLong(r)
        <5>1. LongIn(t) = LongIn(s) \cup {r}
          BY <4>1 DEF LongIn
        <5>2. Cardinality(LongIn(s)) < longs
          BY <3>2, <4>1 DEF FitsBeside
        <5>3. \/ Cardinality(LongIn(s) \cup {r}) = Cardinality(LongIn(s))
              \/ Cardinality(LongIn(s) \cup {r}) = Cardinality(LongIn(s)) + 1
          BY <3>6, FS_AddElement
        <5> HIDE DEF t
        <5> QED
          BY <3>6, <5>1, <5>2, <5>3
      <4>2. CASE ~IsLong(r)
        <5>1. LongIn(t) = LongIn(s)
          BY <4>2 DEF LongIn
        <5> QED
          BY <2>1, <5>1
      <4> QED
        BY <4>1, <4>2
    <3>9. CostOf(t) <= blocks
      BY <3>2 DEF FitsBeside
    <3> HIDE DEF t
    <3>10. Good(t)
      BY <3>5, <3>7, <3>8, <3>9
    <3> HIDE DEF Good
    <3> QED
      BY <1>1, <3>4, <3>10
  <2> QED
    BY <2>2, <2>3
<1>6. n \in G
  <2>1. \A k \in 0..n : k \in G
    <3> HIDE DEF G
    <3> QED
      BY <1>1, <1>4, <1>5, SegmentInduction
  <2> QED
    BY <1>1, <2>1
<1>7. Greedy(place, slots, longs, blocks) = g[n]
  BY GreedyIsTakes DEF g
<1>8. Good(g[n])
  BY <1>6
<1> HIDE DEF n
<1> QED
  BY <1>7, <1>8

\* The budgets are numbers.
LEMMA BudgetTypes ==
    ASSUME ReplayTypeOK
    PROVE  /\ Budget \in Nat /\ RatioBlocks \in Nat /\ TailBudgetNow \in Nat
           /\ TailBudgetLeft \in Nat
<1>0. ASSUME NEW a \in Int PROVE a \div 100 \in Int
  OBVIOUS
<1>1. free \in Int /\ LongPct \in Int /\ TargetPct \in Int /\ NumGpuBlocks \in Int
  BY ReplayAssumption DEF ReplayTypeOK
<1>2. free * LongPct \in Int /\ NumGpuBlocks * (100 - TargetPct) + 99 \in Int
  BY <1>1
<1>3. Guard \in Int
  <2> DEFINE x == NumGpuBlocks * (100 - TargetPct) + 99
  <2>1. Guard = x \div 100
    BY DEF Guard, GuardBlocks
  <2> HIDE DEF x
  <2> QED
    BY <1>0, <1>2, <2>1 DEF x
<1>4. RatioBlocks \in Nat
  <2> DEFINE x == free * LongPct
  <2>1. RatioBlocks = Higher(1, x \div 100)
    BY DEF RatioBlocks
  <2>2. x \in Int
    BY <1>2
  <2> HIDE DEF x
  <2>3. x \div 100 \in Int
    BY <1>0, <2>2
  <2> QED
    BY <2>1, <2>3 DEF Higher
<1>5. Budget \in Nat
  BY <1>1, <1>3 DEF Budget, Higher
<1>6. TailBudgetNow \in Nat /\ kvTotal \in Nat
  BY <1>4 DEF TailBudgetNow, ReplayTypeOK
<1> HIDE DEF TailBudgetNow
<1>7. TailBudgetLeft \in Nat
  BY <1>6 DEF TailBudgetLeft, Higher
<1> QED
  BY <1>4, <1>5, <1>6, <1>7

\* What a fill selects waits in the backlog, has room, and is within the limits of
\* the mode that is in force.
LEMMA SelectionFits ==
    ASSUME BooksInv, NEW slots \in Nat, NEW elapsed
    PROVE  /\ Selected(slots, elapsed) \subseteq backlog
           /\ Cardinality(Selected(slots, elapsed)) <= slots
           /\ TailMode => \/ Selected(slots, elapsed) = {}
                          \/ CostOf(Selected(slots, elapsed)) <= TailBudgetLeft
                          \/ kvTotal = 0
           /\ ~TailMode /\ ~cpuOverloaded =>
                  \/ LongIn(Selected(slots, elapsed)) = {}
                  \/ Cardinality(LongIn(Selected(slots, elapsed))) <= LongAllowed(elapsed)
<1>1. /\ tokens \in [Requests -> Nat \ {0}] /\ backlog \subseteq Requests /\ kvTotal \in Nat
      /\ ReplayTypeOK
  BY DEF BooksInv, ReplayTypeOK
<1>2. PlacesOwn(Places(ByArrival)) /\ PlacesOwn(Places(SmallFirst)) /\ PlacesOwn(Places(LargeFirst))
  BY <1>1, OrdersTotal
<1>3. CASE slots = 0
  <2>1. Selected(slots, elapsed) = {} /\ LongIn({}) = {}
    BY <1>3 DEF Selected, LongIn
  <2> QED
    BY <1>3, <2>1, FS_EmptySet
<1>4. CASE slots # 0 /\ ~TailMode
  <2> DEFINE blocks == IF HasBudget THEN Budget ELSE Ample
             all == Cardinality(backlog)
             longs == LongAllowed(elapsed)
  <2>1. blocks \in Int
    <3>1. Requests \in SUBSET Requests
      OBVIOUS
    <3>2. Ample \in Nat
      BY <1>1, <3>1, CostSums DEF Ample
    <3> QED
      BY <1>1, <3>2, BudgetTypes
  <2>2. all \in Int
    BY <1>1, RequestSets
  <2>3. longs \in Int
    <3>1. LongIn(pending) \in SUBSET Requests
      BY <1>1 DEF LongIn, ReplayTypeOK
    <3>2. Cardinality(LongIn(pending)) \in Nat
      BY <3>1, RequestSets
    <3> QED
      BY <3>2, ReplayAssumption DEF LongAllowed, Higher
  <2>4. Selected(slots, elapsed) =
            IF Headroom /\ all <= slots THEN Greedy(Places(ByArrival), slots, longs, blocks)
            ELSE IF cpuOverloaded THEN Greedy(Places(LargeFirst), slots, all, blocks)
            ELSE Greedy(Places(SmallFirst), slots, longs, blocks)
    BY <1>4 DEF Selected, Selection
  <2> HIDE DEF blocks, all, longs
  <2>5. PICK place, lim : /\ PlacesOwn(place) /\ lim \in Int
                          /\ Selected(slots, elapsed) = Greedy(place, slots, lim, blocks)
                          /\ ~cpuOverloaded => lim = longs
    BY <1>2, <2>2, <2>3, <2>4
  <2>6. /\ Selected(slots, elapsed) \subseteq backlog
        /\ Cardinality(Selected(slots, elapsed)) <= slots
        /\ \/ LongIn(Selected(slots, elapsed)) = {}
           \/ Cardinality(LongIn(Selected(slots, elapsed))) <= lim
    BY <1>1, <2>1, <2>5, GreedyFits
  <2> QED
    BY <1>4, <2>5, <2>6 DEF longs
<1>5. CASE slots # 0 /\ TailMode
  <2>1. Selected(slots, elapsed) = TailSelection(slots)
    BY <1>5 DEF Selected
  <2>2. ASSUME NEW place, PlacesOwn(place)
        PROVE  /\ FirstIfNoneTracked(place) \subseteq backlog
               /\ Cardinality(FirstIfNoneTracked(place)) <= slots
               /\ FirstIfNoneTracked(place) # {} => kvTotal = 0
    <3>1. FirstIfNoneTracked(place) \subseteq backlog /\ (FirstIfNoneTracked(place) # {} => kvTotal = 0)
      BY <1>1 DEF FirstIfNoneTracked
    <3>2. FirstIfNoneTracked(place) = {} \/ \E x : FirstIfNoneTracked(place) = {x}
      BY <2>2 DEF FirstIfNoneTracked, PlacesOwn
    <3>3. Cardinality(FirstIfNoneTracked(place)) \in {0, 1}
      BY <3>2, FS_EmptySet, FS_Singleton
    <3> QED
      BY <1>5, <3>1, <3>3
  <2>3. CASE ~HasStats \/ TailBudgetNow = 0
    <3>1. Selected(slots, elapsed) = FirstIfNoneTracked(Places(SmallFirst))
      BY <2>1, <2>3 DEF TailSelection
    <3> QED
      BY <1>2, <1>5, <2>2, <3>1
  <2>4. CASE ~(~HasStats \/ TailBudgetNow = 0)
    <3> DEFINE fit == Greedy(Places(ByArrival), slots, slots, TailBudgetLeft)
    <3>1. Selected(slots, elapsed) = IF fit # {} THEN fit ELSE FirstIfNoneTracked(Places(ByArrival))
      BY <2>1, <2>4 DEF TailSelection
    <3>2. /\ fit \subseteq backlog /\ Cardinality(fit) <= slots
          /\ fit = {} \/ CostOf(fit) <= TailBudgetLeft
      <4>1. TailBudgetLeft \in Int /\ slots \in Int
        BY <1>1, BudgetTypes
      <4> QED
        BY <1>1, <1>2, <4>1, GreedyFits
    <3> HIDE DEF fit
    <3>3. CASE fit # {}
      BY <1>5, <3>1, <3>2, <3>3
    <3>4. CASE fit = {}
      BY <1>2, <1>5, <2>2, <3>1, <3>4
    <3> QED
      BY <3>3, <3>4
  <2> QED
    BY <2>3, <2>4
<1> QED
  BY <1>3, <1>4, <1>5

\* The total of the books is a sum.
LEMMA BooksSum ==
    ASSUME NEW f \in [Requests -> Nat]
    PROVE  BooksTotal(f) = SumOf(f)[Requests] /\ SumOf(f)[Requests] \in Nat
<1>1. DOMAIN f = Requests /\ Requests \in SUBSET Requests /\ IsFiniteSet(Requests)
  BY RequestSets
<1>2. BooksTotal(f) = SumOf(f)[Requests]
  BY <1>1, FoldIsSum DEF SumOf, BooksTotal
<1>3. SumOf(f)[Requests] \in Nat
  BY <1>1, SumNat
<1> QED
  BY <1>2, <1>3

\* Some entries of the books are written, from nothing or to nothing.
LEMMA BooksChange ==
    ASSUME NEW f \in [Requests -> Nat], NEW h \in [Requests -> Nat], NEW u \in SUBSET Requests,
           \A r \in Requests \ u : h[r] = f[r],
           \A r \in u : f[r] = 0
    PROVE  BooksTotal(h) = BooksTotal(f) + SumOf(h)[u]
<1> DEFINE w == Requests \ u
<1>1. /\ f \in [Requests -> Int] /\ h \in [Requests -> Int] /\ IsFiniteSet(Requests)
      /\ w \in SUBSET Requests /\ w \in SUBSET (Requests \ u) /\ u \cup w = Requests
  BY RequestSets
<1>2. \A r \in w : f[r] = h[r]
  OBVIOUS
<1> HIDE DEF w
<1>3. SumOf(f)[w] = SumOf(h)[w]
  BY <1>1, <1>2, SumCongruence
<1>4. SumOf(f)[u \cup w] = SumOf(f)[u] + SumOf(f)[w]
  BY <1>1, SumSplit
<1>5. SumOf(h)[u \cup w] = SumOf(h)[u] + SumOf(h)[w]
  BY <1>1, SumSplit
<1>6. SumOf(f)[u] = 0 /\ SumOf(h)[u] \in Nat /\ SumOf(f)[w] \in Nat
  BY <1>1, SumNat
<1>7. BooksTotal(f) = SumOf(f)[Requests] /\ BooksTotal(h) = SumOf(h)[Requests]
  BY BooksSum
<1> QED
  BY <1>1, <1>3, <1>4, <1>5, <1>6, <1>7

\* The drain takes the finished requests and their blocks off the books.
LEMMA DrainBooks ==
    ASSUME BooksInv, DrainAndReadLoad, UNCHANGED tokens
    PROVE  /\ pending' = pending \ Finished /\ pending' \subseteq Requests
           /\ kvOf' \in [Requests -> Nat] /\ kvTotal' \in Nat /\ kvTotal' <= kvTotal
           /\ KvBooked'
<1>1. /\ kvOf \in [Requests -> Nat] /\ pending \subseteq Requests /\ kvTotal \in Nat
      /\ {r \in Requests : kvOf[r] > 0} \subseteq LongIn(pending)
      /\ kvTotal = BooksTotal(kvOf)
  BY DEF BooksInv, ReplayTypeOK, KvBooked
<1>2. /\ pending' = pending \ Finished
      /\ kvOf' = [r \in Requests |-> IF r \in Finished THEN 0 ELSE kvOf[r]]
  BY DEF DrainAndReadLoad
<1>3. Finished \in SUBSET Requests /\ IsFiniteSet(Requests)
  BY <1>1, RequestSets DEF Finished
<1>4. kvTotal' = kvTotal - SumOf(kvOf)[Finished]
  <2>1. kvOf \in [Requests -> Int]
    BY <1>1
  <2>2. FoldFunctionOnSet(+, 0, kvOf, Finished) = SumOf(kvOf)[Finished]
    BY <1>3, <2>1, OnSetIsSum
  <2>3. kvTotal' = kvTotal - FoldFunctionOnSet(+, 0, kvOf, Finished)
    BY Zenon DEF DrainAndReadLoad, TotalWithout
  <2> QED
    BY <2>2, <2>3, Zenon
<1>5. kvOf' \in [Requests -> Nat]
  BY <1>1, <1>2
<1>6. /\ \A r \in Requests \ Finished : kvOf[r] = kvOf'[r]
      /\ \A r \in Finished : kvOf'[r] = 0
  BY <1>2, <1>3
<1>7. BooksTotal(kvOf) = BooksTotal(kvOf') + SumOf(kvOf)[Finished]
  BY <1>1, <1>3, <1>5, <1>6, BooksChange
<1>8. BooksTotal(kvOf') \in Nat /\ SumOf(kvOf)[Finished] \in Nat
  <2>1. SumOf(kvOf)[Finished] \in Nat
    BY <1>1, <1>3, SumNat
  <2>2. BooksTotal(kvOf') \in Nat
    BY <1>5, BooksSum
  <2> QED
    BY <2>1, <2>2
<1>9. kvTotal' = BooksTotal(kvOf') /\ kvTotal' \in Nat /\ kvTotal' <= kvTotal
  BY <1>1, <1>2, <1>4, <1>7, <1>8
<1>10. {r \in Requests : kvOf'[r] > 0} \subseteq {r \in pending' : IsLong(r)}
  BY <1>1, <1>2, <1>6 DEF LongIn
<1>11. LongIn(pending)' = {r \in pending' : IsLong(r)}
  BY DEF LongIn, IsLong
<1> QED
  <2>1. KvBooked'
    BY <1>9, <1>10, <1>11 DEF KvBooked
  <2>2. pending' \subseteq Requests
    BY <1>1, <1>2
  <2> QED
    BY <1>2, <1>5, <1>9, <2>1, <2>2

\* What remains of the drain, beside the books.
LEMMA DrainRest ==
    ASSUME BooksInv, DrainAndReadLoad
    PROVE  /\ UNCHANGED <<turn, window, free, kvOverloaded, shortEmpty, tailPhase, tailBudget>>
           /\ pc' = "kv" /\ cpuLow' \in BOOLEAN /\ cpuOverloaded' \in BOOLEAN
<1>1. /\ UNCHANGED <<turn, window, free, kvOverloaded, shortEmpty, tailPhase, tailBudget>>
      /\ pc' = "kv"
  BY DEF DrainAndReadLoad, poolVars, clients
<1>2. cpuLow' \in BOOLEAN /\ cpuOverloaded' \in BOOLEAN
  <2>1. Cardinality(futures) \in Nat
    BY PoolFinite, FS_CardinalityType DEF BooksInv
  <2>2. /\ cpuLow' = (Cardinality(futures) <= LowLoad)
        /\ cpuOverloaded' = IF cpuOverloaded THEN Cardinality(futures) > LowLoad
                                             ELSE Cardinality(futures) >= HighLoad
    BY DEF DrainAndReadLoad
  <2>3. /\ (Cardinality(futures) <= LowLoad) \in BOOLEAN
        /\ (Cardinality(futures) > LowLoad) \in BOOLEAN
        /\ (Cardinality(futures) >= HighLoad) \in BOOLEAN
    BY <2>1, ReplayAssumption
  <2> QED
    BY <2>2, <2>3, Zenon
<1> QED
  BY <1>1, <1>2

\* The drain keeps the requests in their places.
LEMMA DrainOnce ==
    ASSUME BooksInv, DrainAndReadLoad, UNCHANGED tokens
    PROVE  /\ Launched' \subseteq pending' /\ (\A r \in pending' : turn'[r] # "new")
           /\ Cardinality(pending') <= PoolSize
<1>1. /\ Launched \subseteq pending /\ (\A r \in pending : turn[r] # "new")
      /\ Cardinality(pending) <= PoolSize /\ pending \in SUBSET Requests
  BY DEF BooksInv, EveryRequestOnce, ReplayTypeOK
<1>2. pending' = pending \ Finished /\ turn' = turn
  BY DrainBooks, DrainRest
<1>3. Launched' = Launched /\ \A r \in Launched : r \notin Finished
  BY <1>2 DEF Launched, Finished
<1>4. Cardinality(pending') <= Cardinality(pending) /\ Cardinality(pending) \in Nat
      /\ Cardinality(pending') \in Nat
  <2>1. pending' \in SUBSET pending /\ IsFiniteSet(pending) /\ pending' \in SUBSET Requests
    BY <1>1, <1>2, RequestSets
  <2> QED
    BY <1>1, <2>1, FS_Subset, RequestSets
<1> QED
  BY <1>1, <1>2, <1>3, <1>4, ReplayAssumption

\* A request arrives; the fill that follows has begun.
LEMMA ArriveKeeps == ASSUME BooksInv, PoolTypeOK', Arrive, UNCHANGED tokens PROVE BooksInv'
<1>1. /\ arrived \in 0..Cardinality(Requests) /\ arrived < Cardinality(Requests)
      /\ arrived' = arrived + 1 /\ backlog' = backlog \cup {arrived + 1}
      /\ DrainAndReadLoad /\ emitDone' = emitDone
      /\ backlog = {r \in 1..arrived : turn[r] = "new"} /\ backlog \subseteq Requests
  BY DEF Arrive, BooksInv, ReplayTypeOK, EveryRequestOnce
<1>2. Requests = 1..Cardinality(Requests) /\ Cardinality(Requests) \in Nat
  BY ReplayAssumption, RequestSets
<1>3. arrived + 1 \in Requests /\ arrived' \in 0..Cardinality(Requests) /\ arrived \in Nat
  BY <1>1, <1>2
<1>4. turn' = turn /\ turn[arrived + 1] = "new"
  <2>1. arrived + 1 > arrived
    BY <1>3
  <2> QED
    BY <1>1, <1>3, <2>1, DrainRest DEF BooksInv, NotArrived
<1>5. ReplayTypeOK'
  <2>1. backlog' \subseteq Requests
    BY <1>1, <1>3
  <2> QED
    BY <1>1, <1>3, <2>1, DrainBooks, DrainRest DEF BooksInv, ReplayTypeOK
<1>6. EveryRequestOnce'
  <2>1. 1..(arrived + 1) = (1..arrived) \cup {arrived + 1}
    BY <1>3
  <2>2. backlog' = {r \in 1..arrived' : turn'[r] = "new"}
    BY <1>1, <1>4, <2>1
  <2>3. /\ Launched' \subseteq pending' /\ (\A r \in pending' : turn'[r] # "new")
        /\ Cardinality(pending') <= PoolSize
    BY <1>1, DrainOnce
  <2> QED
    BY <2>2, <2>3 DEF EveryRequestOnce
<1>7. NotArrived'
  <2> SUFFICES ASSUME NEW r \in Requests, r > arrived + 1 PROVE turn[r] = "new"
    BY <1>1, <1>4 DEF NotArrived
  <2>1. r > arrived
    BY <1>2, <1>3
  <2> QED
    BY <2>1 DEF BooksInv, NotArrived
<1>8. KvBooked'
  BY <1>1, DrainBooks
<1> QED
  BY <1>5, <1>6, <1>7, <1>8 DEF BooksInv

\* The driver's loop begins a fill.
LEMMA LoopKeeps == ASSUME BooksInv, PoolTypeOK', Loop, UNCHANGED tokens PROVE BooksInv'
<1>1. DrainAndReadLoad /\ UNCHANGED <<arrived, emitDone, backlog>>
  BY DEF Loop
<1>2. turn' = turn
  BY <1>1, DrainRest
<1>3. ReplayTypeOK'
  BY <1>1, DrainBooks, DrainRest DEF BooksInv, ReplayTypeOK
<1>4. EveryRequestOnce'
  <2>1. /\ Launched' \subseteq pending' /\ (\A r \in pending' : turn'[r] # "new")
        /\ Cardinality(pending') <= PoolSize
    BY <1>1, DrainOnce
  <2> QED
    BY <1>1, <1>2, <2>1 DEF BooksInv, EveryRequestOnce
<1>5. NotArrived' /\ KvBooked'
  BY <1>1, <1>2, DrainBooks DEF BooksInv, NotArrived
<1> QED
  BY <1>3, <1>4, <1>5 DEF BooksInv

\* Steps that leave the books and the requests alone.
LEMMA BooksQuiet ==
    ASSUME BooksInv, PoolTypeOK', UNCHANGED <<tokens, turn, books, arrived>>, ReplayTypeOK'
    PROVE  BooksInv'
<1>1. EveryRequestOnce' /\ KvBooked' /\ NotArrived'
  BY DEF BooksInv, EveryRequestOnce, KvBooked, NotArrived, books, Launched, LongIn, IsLong
<1> QED
  BY <1>1 DEF BooksInv

\* The other steps of the driver's loop, and the fetch of the statistics.
LEMMA LoopStepsKeep ==
    ASSUME BooksInv, PoolTypeOK', EmitDone \/ LeaveLoop \/ Pause \/ Fetch, UNCHANGED tokens
    PROVE  BooksInv'
<1>1. CASE EmitDone \/ LeaveLoop \/ Pause
  <2>1. /\ UNCHANGED <<turn, books, arrived, control>> /\ pc' \in {"loop", "done"}
        /\ emitDone' \in BOOLEAN
    BY <1>1 DEF EmitDone, LeaveLoop, Pause, poolVars, clients, BooksInv, ReplayTypeOK
  <2>2. ReplayTypeOK'
    BY <2>1 DEF BooksInv, ReplayTypeOK, books, control
  <2> QED
    BY <2>1, <2>2, BooksQuiet
<1>2. CASE Fetch
  <2>1. /\ UNCHANGED <<turn, books, arrived, emitDone, window, cpuLow, cpuOverloaded,
                       kvOverloaded, shortEmpty, tailPhase, tailBudget>>
        /\ pc' = "fetch" /\ free' \in Readings
    BY <1>2 DEF Fetch, poolVars, clients
  <2>2. Readings \subseteq -1..(NumGpuBlocks - 1)
    BY ReplayAssumption DEF Readings
  <2>3. ReplayTypeOK'
    BY <2>1, <2>2 DEF BooksInv, ReplayTypeOK, books
  <2> QED
    BY <2>1, <2>3, BooksQuiet
<1> QED
  BY <1>1, <1>2

\* A request goes from new to launched by the driver only, and never back.
LEMMA TurnsMove ==
    ASSUME PoolTypeOK, PoolStep \/ ShutDown
    PROVE  \A r \in Requests : /\ turn'[r] = "new" <=> turn[r] = "new"
                               /\ turn'[r] \in {"gpu", "tool"} => turn[r] \in {"gpu", "tool"}
<1>1. turn \in [Requests -> {"new", "gpu", "tool", "done"}]
  BY DEF PoolTypeOK
<1>2. ASSUME NEW q \in Requests, Coroutine(q) \/ Timeout(q)
      PROVE  \A r \in Requests : /\ turn'[r] = "new" <=> turn[r] = "new"
                                 /\ turn'[r] \in {"gpu", "tool"} => turn[r] \in {"gpu", "tool"}
  BY <1>1, <1>2 DEF Coroutine, Timeout, Submit, Feedback, EndRequest, Answer, AfterTimeout
<1>3. ASSUME \/ \E w \in Workers : Worker(w) \/ WorkerCrash(w)
             \/ \E t \in Calls : ProcExit(t)
             \/ Collect \/ ShutDown
      PROVE  turn' = turn
  BY <1>3 DEF Worker, WorkerTake, WorkerFinish, WorkerCrash, ProcExit, Collect, ShutDown,
              BeginShutdown, EndJoin, StopCollector, clients
<1> QED
  BY <1>1, <1>2, <1>3 DEF PoolStep

\* The pool and the requests take a turn.
LEMMA PoolTurnKeeps == ASSUME BooksInv, PoolTypeOK', PoolTurn, UNCHANGED tokens PROVE BooksInv'
<1>1. UNCHANGED <<pc, arrived, emitDone, books, control>>
  BY DEF PoolTurn, Beside
<1>2. UNCHANGED <<backlog, pending, kvOf, kvTotal>>
  BY <1>1 DEF books
<1>3. \A r \in Requests : /\ turn'[r] = "new" <=> turn[r] = "new"
                          /\ turn'[r] \in {"gpu", "tool"} => turn[r] \in {"gpu", "tool"}
  BY TurnsMove DEF PoolTurn, BooksInv
<1>4. ReplayTypeOK'
  BY <1>1, <1>2 DEF BooksInv, ReplayTypeOK, control
<1>5. 1..arrived \subseteq Requests
  BY ReplayAssumption, RequestSets DEF BooksInv, ReplayTypeOK
<1>6. EveryRequestOnce'
  <2>1. backlog = {r \in 1..arrived : turn'[r] = "new"}
    BY <1>3, <1>5 DEF BooksInv, EveryRequestOnce
  <2>2. Launched' \subseteq pending
    BY <1>3 DEF BooksInv, EveryRequestOnce, Launched
  <2>3. \A r \in pending : turn'[r] # "new"
    BY <1>3 DEF BooksInv, EveryRequestOnce, ReplayTypeOK
  <2> QED
    BY <1>1, <1>2, <2>1, <2>2, <2>3 DEF BooksInv, EveryRequestOnce
<1>7. NotArrived'
  BY <1>1, <1>3 DEF BooksInv, NotArrived
<1>8. KvBooked'
  BY <1>2 DEF BooksInv, KvBooked, LongIn, IsLong
<1> QED
  BY <1>4, <1>6, <1>7, <1>8 DEF BooksInv

\* A fill admits a selection for which there is room.
LEMMA FillAdmits ==
    ASSUME BooksInv, Fill
    PROVE  \E slots \in Nat, elapsed \in BOOLEAN :
               /\ Admit(Selected(slots, elapsed))
               /\ slots = 0 \/ Cardinality(pending) + slots <= PoolSize
               /\ shortEmpty' = IF slots = 0 THEN shortEmpty ELSE LongIn(backlog) = backlog
               /\ window' \in WindowMin..PoolSize
<1>1. ReplayTypeOK /\ Cardinality(pending) \in Nat /\ PoolSize \in Nat
  BY RequestSets, ReplayAssumption DEF BooksInv, ReplayTypeOK
<1>2. window' \in WindowMin..PoolSize
  BY <1>1, ReplayWindow DEF Fill, ReplayTypeOK
<1>3. KvCap \in WindowMin..PoolSize /\ CpuCap \in WindowMin..PoolSize /\ WindowMin \in 1..PoolSize
  BY <1>1, ReplayKvCap, ReplayLimits
<1>4. PICK slots \in {IF backlog = {} THEN 0 ELSE Slots(window')}, elapsed \in BOOLEAN :
          /\ Admit(Selected(slots, elapsed))
          /\ shortEmpty' = IF slots = 0 THEN shortEmpty ELSE LongIn(backlog) = backlog
  BY DEF Fill
<1>5. ASSUME NEW limit \in Int, limit <= PoolSize
      PROVE  FreeSlots(limit) \in Nat
             /\ (FreeSlots(limit) = 0 \/ Cardinality(pending) + FreeSlots(limit) <= PoolSize)
  BY <1>1, <1>5 DEF FreeSlots, Higher
<1>6. Slots(window') \in Nat
      /\ (Slots(window') = 0 \/ Cardinality(pending) + Slots(window') <= PoolSize)
  <2> DEFINE limit == Lower(window', Lower(CpuCap, KvCap))
  <2>1. limit \in Int /\ limit <= PoolSize
    <3> HIDE DEF KvCap, CpuCap, WindowMin
    <3> QED
      BY <1>1, <1>2, <1>3 DEF Lower
  <2>2. CASE ~TailMode
    <3>1. Slots(window') = FreeSlots(limit)
      BY <2>2 DEF Slots
    <3> HIDE DEF limit
    <3> QED
      BY <1>5, <2>1, <3>1
  <2>3. CASE TailMode
    <3>1. Slots(window') = Lower(FreeSlots(PoolSize), IF Untracked # {} THEN 1 ELSE PoolSize)
      BY <2>3 DEF Slots
    <3>2. FreeSlots(PoolSize) \in Nat
          /\ (FreeSlots(PoolSize) = 0 \/ Cardinality(pending) + FreeSlots(PoolSize) <= PoolSize)
      BY <1>1, <1>5
    <3> QED
      BY <1>1, <3>1, <3>2 DEF Lower
  <2> QED
    BY <2>2, <2>3
<1>7. slots \in Nat /\ (slots = 0 \/ Cardinality(pending) + slots <= PoolSize)
  BY <1>6
<1> QED
  BY <1>2, <1>4, <1>7

\* The launch of some requests of the backlog, and their entry in the books.
LEMMA AdmitBooks ==
    ASSUME BooksInv, NEW sel \in SUBSET backlog, Admit(sel), UNCHANGED tokens
    PROVE  /\ kvOf' \in [Requests -> Nat] /\ kvTotal' \in Nat
           /\ kvTotal' <= kvTotal + CostOf(sel)
           /\ KvBooked'
<1> DEFINE tracked == IF HasStats THEN LongIn(sel) ELSE {}
<1>1. /\ kvOf \in [Requests -> Nat] /\ pending \subseteq Requests /\ kvTotal \in Nat
      /\ backlog \subseteq Requests /\ tokens \in [Requests -> Nat \ {0}]
      /\ {r \in Requests : kvOf[r] > 0} \subseteq LongIn(pending)
      /\ kvTotal = BooksTotal(kvOf)
  BY DEF BooksInv, ReplayTypeOK, KvBooked
<1>2. /\ pending' = pending \cup sel
      /\ kvOf' = [r \in Requests |-> IF r \in tracked THEN Cost(r) ELSE kvOf[r]]
      /\ kvTotal' = kvTotal + CostOf(tracked)
  BY DEF Admit
<1>3. tracked \in SUBSET sel /\ tracked \in SUBSET Requests /\ sel \in SUBSET Requests
      /\ \A r \in tracked : IsLong(r)
  BY <1>1 DEF LongIn
<1>4. \A r \in backlog : r \notin pending /\ kvOf[r] = 0
  <2>1. \A r \in backlog : r \notin pending
    BY DEF BooksInv, EveryRequestOnce
  <2> QED
    BY <1>1, <2>1 DEF LongIn
<1> HIDE DEF tracked
<1>5. Costs \in [Requests -> Nat] /\ \A r \in Requests : Costs[r] = Cost(r)
  BY <1>1, CostSums DEF Costs
<1>6. /\ CostOf(tracked) = SumOf(Costs)[tracked] /\ CostOf(tracked) \in Nat
      /\ CostOf(sel) \in Nat /\ CostOf(tracked) <= CostOf(sel)
  BY <1>1, <1>3, CostSums
<1>7. kvOf' \in [Requests -> Nat]
  BY <1>1, <1>2, <1>5
<1>8. /\ \A r \in Requests \ tracked : kvOf'[r] = kvOf[r]
      /\ \A r \in tracked : kvOf[r] = 0 /\ kvOf'[r] = Costs[r]
  BY <1>2, <1>3, <1>4, <1>5
<1>9. SumOf(kvOf')[tracked] = SumOf(Costs)[tracked]
  <2>1. kvOf' \in [Requests -> Int] /\ Costs \in [Requests -> Int] /\ IsFiniteSet(Requests)
    BY <1>5, <1>7, RequestSets
  <2> QED
    BY <1>3, <1>8, <2>1, SumCongruence
<1>10. BooksTotal(kvOf') = BooksTotal(kvOf) + SumOf(kvOf')[tracked]
  BY <1>1, <1>3, <1>7, <1>8, BooksChange
<1>11. kvTotal' = BooksTotal(kvOf') /\ kvTotal' \in Nat /\ kvTotal' <= kvTotal + CostOf(sel)
  BY <1>1, <1>2, <1>6, <1>9, <1>10
<1>12. {r \in Requests : kvOf'[r] > 0} \subseteq {r \in pending' : IsLong(r)}
  <2> SUFFICES ASSUME NEW r \in Requests, kvOf'[r] > 0 PROVE r \in pending' /\ IsLong(r)
    OBVIOUS
  <2>1. CASE r \in tracked
    BY <1>2, <1>3, <2>1
  <2>2. CASE r \notin tracked
    BY <1>1, <1>2, <1>8, <2>2 DEF LongIn
  <2> QED
    BY <2>1, <2>2
<1>13. LongIn(pending)' = {r \in pending' : IsLong(r)}
  BY DEF LongIn, IsLong
<1>14. KvBooked'
  BY <1>11, <1>12, <1>13 DEF KvBooked
<1> QED
  BY <1>7, <1>11, <1>14

\* The flags that a fill sets are truth values, and its tail budget a number.
LEMMA FillFlags ==
    ASSUME BooksInv, Fill
    PROVE  /\ kvOverloaded' \in BOOLEAN /\ tailPhase' \in BOOLEAN /\ shortEmpty' \in BOOLEAN
           /\ tailBudget' \in Nat
<1>1. ReplayTypeOK /\ shortEmpty \in BOOLEAN /\ kvOverloaded \in BOOLEAN /\ tailBudget \in Nat
  BY DEF BooksInv, ReplayTypeOK
<1>2. (Usage > UsageLow) \in BOOLEAN /\ (Usage >= UsageHigh) \in BOOLEAN
  BY <1>1, ReplayKvCap, ReplayLimits
<1>3. kvOverloaded' \in BOOLEAN
  BY <1>1, <1>2, Zenon DEF Fill, KvOverloadedNow
<1>4. tailPhase' \in BOOLEAN
  BY Zenon DEF Fill
<1>5. shortEmpty' \in BOOLEAN
  <2>1. PICK slots : shortEmpty' = IF slots = 0 THEN shortEmpty ELSE LongIn(backlog) = backlog
    BY Zenon DEF Fill
  <2> QED
    BY <1>1, <2>1, Zenon
<1>6. tailBudget' \in Nat
  <2>1. RatioBlocks \in Nat
    BY <1>1, BudgetTypes
  <2> HIDE DEF RatioBlocks
  <2> QED
    BY <1>1, <2>1 DEF Fill
<1> QED
  BY <1>3, <1>4, <1>5, <1>6

\* A fill launches what it selected.
LEMMA FillKeeps == ASSUME BooksInv, PoolTypeOK', Fill, UNCHANGED tokens PROVE BooksInv'
<1>1. PICK slots \in Nat, elapsed \in BOOLEAN :
          /\ Admit(Selected(slots, elapsed))
          /\ slots = 0 \/ Cardinality(pending) + slots <= PoolSize
          /\ window' \in WindowMin..PoolSize
  BY FillAdmits
<1> DEFINE sel == Selected(slots, elapsed)
<1>2. sel \in SUBSET backlog /\ Cardinality(sel) <= slots
  BY SelectionFits
<1>3. Admit(sel)
  BY <1>1
<1> HIDE DEF sel
<1>4. /\ kvOf' \in [Requests -> Nat] /\ kvTotal' \in Nat /\ KvBooked'
  BY <1>2, <1>3, AdmitBooks
<1>5. /\ turn \in [Requests -> {"new", "gpu", "tool", "done"}]
      /\ turn' = [r \in Requests |-> IF r \in sel THEN "gpu" ELSE turn[r]]
      /\ backlog' = backlog \ sel /\ pending' = pending \cup sel
  BY <1>3 DEF Admit, Launch, BooksInv, PoolTypeOK
<1>6. UNCHANGED <<arrived, emitDone, cpuLow, cpuOverloaded, free>> /\ pc' \in {"pause", "emit"}
  BY DEF Fill
<1>7. /\ backlog \subseteq Requests /\ pending \subseteq Requests /\ ReplayTypeOK
      /\ backlog = {r \in 1..arrived : turn[r] = "new"}
      /\ Launched \subseteq pending /\ (\A r \in pending : turn[r] # "new")
      /\ Cardinality(pending) <= PoolSize /\ NotArrived
      /\ 1..arrived \subseteq Requests
  <2>1. 1..arrived \subseteq Requests
    BY ReplayAssumption, RequestSets DEF BooksInv, ReplayTypeOK
  <2> QED
    BY <2>1 DEF BooksInv, ReplayTypeOK, EveryRequestOnce
<1>8. ReplayTypeOK'
  <2>1. backlog' \subseteq Requests /\ pending' \subseteq Requests
    BY <1>2, <1>5, <1>7
  <2>2. {cpuLow', cpuOverloaded', kvOverloaded', shortEmpty', tailPhase'} \subseteq BOOLEAN
    BY <1>6, <1>7, FillFlags DEF ReplayTypeOK
  <2> QED
    BY <1>1, <1>4, <1>6, <1>7, <2>1, <2>2, FillFlags DEF ReplayTypeOK
<1>9. EveryRequestOnce'
  <2>1. backlog' = {r \in 1..arrived' : turn'[r] = "new"}
    BY <1>2, <1>5, <1>6, <1>7
  <2>2. Launched' \subseteq pending'
    BY <1>5, <1>7 DEF Launched
  <2>3. \A r \in pending' : turn'[r] # "new"
    BY <1>2, <1>5, <1>7
  <2>4. Cardinality(pending') <= PoolSize
    <3>1. IsFiniteSet(pending) /\ IsFiniteSet(sel) /\ pending \cap sel = {}
          /\ Cardinality(pending) \in Nat /\ Cardinality(sel) \in Nat /\ sel \in SUBSET Requests
      BY <1>2, <1>7, RequestSets
    <3>2. Cardinality(pending \cup sel) = Cardinality(pending) + Cardinality(sel)
      BY <3>1, DisjointUnion
    <3> QED
      BY <1>1, <1>2, <1>5, <1>7, <3>1, <3>2, ReplayAssumption
  <2> QED
    BY <2>1, <2>2, <2>3, <2>4 DEF EveryRequestOnce
<1>10. NotArrived'
  <2>1. \A r \in sel : ~(r > arrived)
    BY <1>2, <1>7 DEF ReplayTypeOK
  <2> QED
    BY <1>5, <1>6, <1>7, <2>1 DEF NotArrived
<1> QED
  BY <1>4, <1>8, <1>9, <1>10 DEF BooksInv

\* A driver that has just started.
LEMMA ReplayStarts == ASSUME ReplayInit PROVE PoolInv /\ BooksInv
<1>1. PoolInv
  BY PoolStarts DEF ReplayInit
<1>2. tokens \in [Requests -> Nat \ {0}]
  BY ReplayAssumption DEF ReplayInit
<1>3. kvOf \in [Requests -> Nat] /\ \A r \in Requests : kvOf[r] = 0
  BY DEF ReplayInit
<1>4. ReplayTypeOK
  <2>1. 0 \in 0..Cardinality(Requests)
    BY RequestSets
  <2>2. -1 \in -1..(NumGpuBlocks - 1)
    BY ReplayAssumption
  <2>3. {cpuLow, cpuOverloaded, kvOverloaded, shortEmpty, tailPhase} \subseteq BOOLEAN
    BY DEF ReplayInit
  <2> QED
    BY <1>3, <2>1, <2>2, <2>3, ReplayLimits DEF ReplayInit, ReplayTypeOK
<1>5. turn = [r \in Requests |-> "new"]
  BY DEF ReplayInit, PoolInit
<1>6. EveryRequestOnce
  <2>1. Launched = {} /\ 1..arrived = {}
    BY <1>5 DEF Launched, ReplayInit
  <2> QED
    BY <2>1, FS_EmptySet, ReplayAssumption DEF EveryRequestOnce, ReplayInit
<1>7. KvBooked
  <2>1. SumOf(kvOf)[Requests] = 0
    BY <1>3, RequestSets, SumNat
  <2>2. kvTotal = BooksTotal(kvOf)
    BY <1>3, <2>1, BooksSum DEF ReplayInit
  <2> QED
    BY <1>3, <2>2 DEF KvBooked
<1>8. NotArrived
  BY <1>5 DEF NotArrived
<1> QED
  BY <1>1, <1>2, <1>4, <1>6, <1>7, <1>8 DEF BooksInv, PoolInv

\* The driver leaves the pool to itself: at most it launches requests.
LEMMA DriverLeavesPool ==
    ASSUME PoolInv, ReplayDriver
    PROVE  PoolInv'
<1>1. turn \in [Requests -> {"new", "gpu", "tool", "done"}]
  BY DEF PoolInv, PoolTypeOK
<1>2. /\ UNCHANGED <<round, futures, inbox, taskQ, worker, procs, resultQ, collector, down, threadPool>>
      /\ turn' \in [Requests -> {"new", "gpu", "tool", "done"}]
  <2>1. CASE FillCached \/ FillFetched
    <3>1. PICK rs : Launch(rs)
      BY <2>1 DEF FillCached, FillFetched, Fill, Admit
    <3> QED
      BY <1>1, <3>1 DEF Launch, pool
  <2>2. CASE Arrive \/ EmitDone \/ Loop \/ LeaveLoop \/ Pause \/ Fetch
    <3>1. UNCHANGED poolVars
      BY <2>2 DEF Arrive, EmitDone, Loop, LeaveLoop, Pause, Fetch, DrainAndReadLoad
    <3> QED
      BY <1>1, <3>1 DEF poolVars, clients, pool
  <2> QED
    BY <2>1, <2>2 DEF ReplayDriver
<1> QED
  BY <1>2, PoolQuiet

\* Every step keeps the pool and the books.
LEMMA ReplayStepKeeps ==
    ASSUME PoolInv, BooksInv, [ReplayNext]_replayVars
    PROVE  PoolInv' /\ BooksInv'
<1>1. CASE UNCHANGED replayVars
  <2>1. UNCHANGED <<tokens, turn, books, arrived, pc, emitDone, control>> /\ UNCHANGED poolVars
    BY <1>1 DEF replayVars, poolVars, clients
  <2>2. PoolInv'
    <3>1. turn \in [Requests -> {"new", "gpu", "tool", "done"}]
      BY DEF PoolInv, PoolTypeOK
    <3>2. /\ UNCHANGED <<round, futures, inbox, taskQ, worker, procs, resultQ, collector, down, threadPool>>
          /\ UNCHANGED turn
      BY <2>1 DEF poolVars, clients, pool
    <3> QED
      BY <3>1, <3>2, PoolQuiet
  <2>3. ReplayTypeOK'
    BY <2>1 DEF BooksInv, ReplayTypeOK, books, control
  <2> QED
    BY <2>1, <2>2, <2>3, BooksQuiet DEF PoolInv
<1>2. CASE ReplayDriver /\ UNCHANGED tokens
  <2>1. PoolInv' /\ PoolTypeOK'
    BY <1>2, DriverLeavesPool DEF PoolInv
  <2>2. BooksInv'
    BY <1>2, <2>1, ArriveKeeps, LoopKeeps, LoopStepsKeep, FillKeeps
       DEF ReplayDriver, FillCached, FillFetched
  <2> QED
    BY <2>1, <2>2
<1>3. CASE PoolTurn /\ UNCHANGED tokens
  <2>1. PoolInv' /\ PoolTypeOK'
    BY <1>3, PoolStepKeeps DEF PoolTurn, PoolInv
  <2> QED
    BY <1>3, <2>1, PoolTurnKeeps
<1> QED
  BY <1>1, <1>2, <1>3 DEF ReplayNext, Ended

\* The load that admission sees is what the pool has to do, in both of its modes,
\* for every number of requests, rounds and workers and whichever of them are killed.
THEOREM PoolCorrect == ReplaySpec => []PoolSound
<1>1. ReplayInit => PoolInv /\ BooksInv
  BY ReplayStarts
<1>2. (PoolInv /\ BooksInv) /\ [ReplayNext]_replayVars => (PoolInv /\ BooksInv)'
  BY ReplayStepKeeps
<1>3. PoolInv /\ BooksInv => PoolSound
  BY PoolInvSound
<1> QED
  BY <1>1, <1>2, <1>3, PTL DEF ReplaySpec

\* What the driver keeps about the requests in flight is true at every step, for
\* every workload and whatever the engine reports.
THEOREM BooksCorrect == ReplaySpec => []BooksExact
<1>1. ReplayInit => PoolInv /\ BooksInv
  BY ReplayStarts
<1>2. (PoolInv /\ BooksInv) /\ [ReplayNext]_replayVars => (PoolInv /\ BooksInv)'
  BY ReplayStepKeeps
<1>3. PoolInv /\ BooksInv => BooksExact
  BY Zenon DEF BooksInv, BooksExact, KvBooked, KvTotalExact, BooksTotal
<1> QED
  BY <1>1, <1>2, <1>3, PTL DEF ReplaySpec
=============================================================================
