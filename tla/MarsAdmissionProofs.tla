------------------------- MODULE MarsAdmissionProofs -------------------------
(***************************************************************************)
(* Proofs about the external admission controller of MARS: for any tasks,  *)
(* any limits and ratios, any engine, and whatever its statistics say.     *)
(***************************************************************************)
EXTENDS MarsAdmission, CollectionLemmas

Total(f) == FoldFunction(+, 0, f)

\* What the reservations may add up to.
Bound == Higher(TailBudget, NumGpuBlocks - 1 - Reserve)

\* The steps of a call between the plan and the submissions.
Choosing == pc \in {"select", "fill", "commit"}

\* The reservations as the submissions are going to leave them.
Planned == [t \in Tasks |-> IF t \in LongIn(selected) THEN Cost(t) ELSE pending[t]]

\* A task waits or is in flight, not both, and not before it has arrived.
Arrived == backlog \cup futures \subseteq 1..emitted /\ backlog \cap futures = {}

\* However old they are, statistics never report more blocks than there are.
ReadingsBounded == kv.free <= NumGpuBlocks - 1 /\ lastFull.free <= NumGpuBlocks - 1

\* What has been selected so far in this call comes from the backlog, has slots,
\* and keeps to the limit of long tasks of the mode it was planned in.
ChoiceSound ==
    /\ selected \subseteq backlog /\ remaining \subseteq backlog \ selected
    /\ ~Choosing => selected = {} /\ budget = 0
    /\ Choosing => Cardinality(futures) + slots <= PoolSize /\ Cardinality(selected) <= slots
    /\ Choosing /\ mode = "tail_kv_fit" => LongIn(backlog) = backlog
    /\ LongIn(selected) # {} =>
          Cardinality(LongIn(futures)) + Cardinality(LongIn(selected)) <= MaxLong

\* What is reserved, what is selected and what is left of the budget fit together.
PlanFits == Total(Planned) + budget <= Bound

\* Tasks in flight keep to the limits between two calls.
Inflight ==
    /\ Cardinality(LongIn(futures)) <= Higher(LongMax, TailMax)
    /\ Cardinality(futures) <= PoolSize

IInv == /\ TypeOK /\ Arrived /\ ReadingsBounded /\ ReservationsExact
        /\ ChoiceSound /\ PlanFits /\ Inflight

-----------------------------------------------------------------------------
\* The quotient of a bounded dividend is bounded.
LEMMA QuotientBound ==
    ASSUME NEW a \in Nat, NEW c \in Nat, NEW d \in Nat \ {0}, a <= c * d
    PROVE  a \div d \in 0..c
<1> DEFINE q == a \div d
<1>1. q \in Nat /\ q * d <= a
  BY Z3
<1> HIDE DEF q
<1>2. ASSUME q >= c + 1 PROVE FALSE
  <2>1. q * d >= (c + 1) * d
    BY <1>1, <1>2, Z3
  <2>2. (c + 1) * d = c * d + d /\ c * d \in Nat /\ q * d \in Nat
    BY <1>1, Z3
  <2> QED
    BY <1>1, <2>1, <2>2
<1> QED
  BY <1>1, <1>2 DEF q

\* The limits that follow from the configuration.
LEMMA LimitTypes ==
    /\ WindowMin \in 1..PoolSize
    /\ InitialWindow \in WindowMin..PoolSize
    /\ CpuCap \in WindowMin..PoolSize
    /\ TailBudget \in Nat /\ Reserve \in Nat /\ Bound \in Nat
    /\ UsageHigh \in Nat /\ UsageLow \in Nat /\ UsageLow < UsageHigh
<1>1. WindowMin \in 1..PoolSize
  BY AdmissionAssumption DEF WindowMin, Clamp, Higher, Lower
<1>2. InitialWindow \in WindowMin..PoolSize
  BY <1>1, AdmissionAssumption DEF InitialWindow, Higher, Lower
<1>3. CpuCap \in WindowMin..PoolSize
  BY <1>1, AdmissionAssumption DEF CpuCap, Clamp, Higher, Lower
<1>4. TailBudget \in Nat
  <2>1. NumGpuBlocks * TailPct \in Nat
    BY AdmissionAssumption
  <2> QED
    BY <2>1 DEF TailBudget
<1>5. Reserve \in Nat
  <2>1. NumGpuBlocks * (100 - TargetPct) \in Nat
    BY AdmissionAssumption
  <2> QED
    BY <2>1 DEF Reserve, GuardBlocks
<1>6. Bound \in Nat
  BY <1>4, <1>5, AdmissionAssumption DEF Bound, Higher
<1>7. UsageHigh \in Nat /\ UsageLow \in Nat /\ UsageLow < UsageHigh
  BY AdmissionAssumption DEF UsageHigh, UsageLow, Higher
<1> QED
  BY <1>1, <1>2, <1>3, <1>4, <1>5, <1>6, <1>7

\* A long task needs at least one block.
LEMMA CostType ==
    ASSUME NEW t \in Tasks
    PROVE  Cost(t) \in Nat /\ (IsLong(t) => Cost(t) > 0)
<1>1. Tokens[t] \in Nat /\ BlockSize \in Nat \ {0} /\ LongThreshold \in Nat
  BY AdmissionAssumption
<1>2. ASSUME NEW n \in Nat, NEW b \in Nat \ {0}
      PROVE  (n + b - 1) \div b \in Nat /\ (n > 0 => (n + b - 1) \div b > 0)
  BY <1>2, Z3
<1> QED
  BY <1>1, <1>2 DEF Cost, BlocksFor, IsLong

\* The tasks are finitely many, and so is every set of them.
LEMMA TasksFinite ==
    /\ IsFiniteSet(Tasks)
    /\ \A s \in SUBSET Tasks : IsFiniteSet(s) /\ Cardinality(s) \in Nat
<1>1. IsFiniteSet(Tasks)
  BY AdmissionAssumption, SegmentCardinality DEF Tasks
<1> QED
  BY <1>1, FS_Subset, FS_CardinalityType

\* Usage is between nothing and everything.
LEMMA UsageType == \A f \in FreeReadings : Usage(f) \in Nat /\ f \in Nat /\ f <= NumGpuBlocks - 1
<1> SUFFICES ASSUME NEW f \in FreeReadings
             PROVE  Usage(f) \in Nat /\ f \in Nat /\ f <= NumGpuBlocks - 1
  OBVIOUS
<1> DEFINE d == NumGpuBlocks - 1
           a == 10000 * f
           q == a \div d
<1>1. f \in Nat /\ f <= d /\ d \in Nat \ {0}
  BY AdmissionAssumption
<1>2. a \in Nat /\ a <= 10000 * d
  <2> HIDE DEF d
  <2> QED
    BY <1>1
<1> HIDE DEF d, a
<1>3. q \in 0..10000
  <2> DEFINE c == 10000
  <2>1. c \in Nat /\ a <= c * d
    BY <1>2
  <2> HIDE DEF c
  <2>2. q \in 0..c
    BY <1>1, <1>2, <2>1, QuotientBound
  <2> HIDE DEF q
  <2> QED
    BY <2>2 DEF c
<1>4. Usage(f) = 10000 - q
  BY DEF Usage, PoolUsage, q, a, d
<1> HIDE DEF q
<1>5. Usage(f) \in Nat
  BY <1>3, <1>4
<1> QED
  BY <1>1, <1>5 DEF d

\* The cap that the KV usage puts on the window is a number.
LEMMA KvCapType == ASSUME TypeOK PROVE KvCap \in Int
<1>1. kv.usage \in Nat
  BY DEF TypeOK, Stats
<1>2. CASE ~Reliable
  BY <1>2, AdmissionAssumption DEF KvCap, Higher, Lower
<1>3. ASSUME NEW n \in Int, NEW d \in Nat \ {0} PROVE Round(n, d) \in Int
  <2>1. (2 * n + d) \div (2 * d) \in Int
    OBVIOUS
  <2> QED
    BY <2>1 DEF Round
<1>4. CASE Reliable
  <2> DEFINE d == UsageHigh - UsageLow
             n == PoolSize * d - (kv.usage - UsageLow) * (PoolSize - WindowMin)
  <2>1. d \in Nat \ {0} /\ PoolSize \in Int /\ WindowMin \in Int /\ kv.usage - UsageLow \in Int
    BY <1>1, LimitTypes, AdmissionAssumption
  <2>2. n \in Int
    <3> HIDE DEF d
    <3> QED
      BY <2>1
  <2>3. Round(n, d) \in Int
    <3> HIDE DEF d, n
    <3> QED
      BY <1>3, <2>1, <2>2
  <2>4. KvCap = IF kv.usage <= UsageLow THEN PoolSize
                ELSE IF kv.usage >= UsageHigh THEN WindowMin
                ELSE Clamp(WindowMin, PoolSize, Round(n, d))
    BY <1>4 DEF KvCap, UsageCap
  <2> HIDE DEF d, n
  <2> QED
    BY <2>1, <2>3, <2>4 DEF Clamp, Higher, Lower
<1> QED
  BY <1>2, <1>4

\* The window keeps to its limits, whichever way it is moved and capped.
LEMMA WindowStays == ASSUME TypeOK PROVE NextWindow \in WindowMin..PoolSize
<1>1. window \in Nat /\ DecNum \in Nat /\ DecDen \in Nat \ {0} /\ WindowInc \in Nat
  BY LimitTypes, AdmissionAssumption DEF TypeOK
<1>2. (window * DecNum) \div DecDen \in Int
  <2>1. window * DecNum \in Nat
    BY <1>1
  <2> QED
    BY <1>1, <2>1
<1>3. TargetWindow \in Int
  BY <1>1, <1>2 DEF TargetWindow
<1>4. WindowMin \in Int /\ PoolSize \in Int /\ CpuCap \in Int /\ KvCap \in Int
      /\ WindowMin <= PoolSize /\ WindowMin <= CpuCap
  BY LimitTypes, KvCapType, AdmissionAssumption
<1> HIDE DEF TargetWindow, KvCap, CpuCap, WindowMin
<1> QED
  BY <1>3, <1>4 DEF NextWindow, Clamp, Higher, Lower

\* The candidate is one of the tasks not looked at yet: both orders are total.
LEMMA CandidateIn ==
    ASSUME remaining \subseteq Tasks, remaining # {}, mode \in Modes, cpuOverloaded \in BOOLEAN
    PROVE  Candidate \in remaining
<1> DEFINE R == {p \in Tasks \X Tasks : Goes(p[1], p[2])}
<1>1. \A a, b \in Tasks : <<a, b>> \in R <=> Goes(a, b)
  OBVIOUS
<1>2. \A a \in Tasks : a \in Nat /\ Tokens[a] \in Nat
  BY AdmissionAssumption DEF Tasks
<1>3. \A a, b \in Tasks : Goes(a, b) \/ Goes(b, a)
  BY <1>2 DEF Goes
<1>4. \A a, b, c \in Tasks : Goes(a, b) /\ Goes(b, c) => Goes(a, c)
  BY <1>2 DEF Goes
<1> HIDE DEF R
<1>5. \E a \in remaining : \A b \in remaining : <<a, b>> \in R
  <2>1. IsFiniteSet(remaining)
    BY TasksFinite
  <2>2. /\ \A a, b \in remaining : <<a, b>> \in R \/ <<b, a>> \in R
        /\ \A a, b, c \in remaining : <<a, b>> \in R /\ <<b, c>> \in R => <<a, c>> \in R
    BY <1>1, <1>3, <1>4
  <2> QED
    BY <2>1, <2>2, LeastElement
<1>6. \E a \in remaining : \A b \in remaining : Goes(a, b)
  BY <1>1, <1>5
<1> QED
  BY <1>6 DEF Candidate

\* So is the cheapest one.
LEMMA CheapestIn ==
    ASSUME remaining \subseteq Tasks, remaining # {}
    PROVE  Cheapest \in remaining
<1> DEFINE Before(a, b) == Cost(a) < Cost(b) \/ (Cost(a) = Cost(b) /\ a <= b)
           R == {p \in Tasks \X Tasks : Before(p[1], p[2])}
<1>1. \A a, b \in Tasks : <<a, b>> \in R <=> Before(a, b)
  OBVIOUS
<1>2. \A a \in Tasks : a \in Nat /\ Cost(a) \in Nat
  BY CostType, AdmissionAssumption DEF Tasks
<1>3. \A a, b \in Tasks : Before(a, b) \/ Before(b, a)
  BY <1>2
<1>4. \A a, b, c \in Tasks : Before(a, b) /\ Before(b, c) => Before(a, c)
  BY <1>2
<1> HIDE DEF R
<1>5. \E a \in remaining : \A b \in remaining : <<a, b>> \in R
  <2>1. IsFiniteSet(remaining)
    BY TasksFinite
  <2>2. /\ \A a, b \in remaining : <<a, b>> \in R \/ <<b, a>> \in R
        /\ \A a, b, c \in remaining : <<a, b>> \in R /\ <<b, c>> \in R => <<a, c>> \in R
    <3> HIDE DEF Before
    <3> QED
      BY <1>1, <1>3, <1>4
  <2> QED
    BY <2>1, <2>2, LeastElement
<1>6. \E a \in remaining : \A b \in remaining : Before(a, b)
  <2> HIDE DEF Before
  <2> QED
    BY <1>1, <1>5
<1> QED
  BY <1>6 DEF Cheapest

-----------------------------------------------------------------------------
\* Members of LongIn, and how it follows its argument.
LEMMA LongInFacts ==
    /\ \A s : LongIn(s) \subseteq s
    /\ \A s, u : LongIn(s \cup u) = LongIn(s) \cup LongIn(u)
    /\ \A s, u : LongIn(s \ u) \subseteq LongIn(s)
    /\ LongIn({}) = {}
    /\ \A s, t : t \in LongIn(s) <=> t \in s /\ IsLong(t)
BY DEF LongIn

\* The planned reservations are numbers, and nothing selected means nothing planned.
LEMMA PlannedType ==
    ASSUME TypeOK
    PROVE  /\ Planned \in [Tasks -> Nat] /\ Planned \in [Tasks -> Int]
           /\ Total(Planned) \in Nat
           /\ selected = {} => Planned = pending
<1>1. Planned \in [Tasks -> Nat]
  BY CostType DEF Planned, TypeOK
<1>2. Planned \in [Tasks -> Int]
  BY <1>1
<1>3. Total(Planned) \in Nat
  BY <1>1, TasksFinite, TotalNat DEF Total
<1>4. selected = {} => Planned = pending
  BY LongInFacts DEF Planned, TypeOK
<1> QED
  BY <1>1, <1>2, <1>3, <1>4

\* Initially nothing has arrived.
LEMMA InitInv == Init => IInv
<1> SUFFICES ASSUME Init PROVE IInv
  OBVIOUS
<1>1. TypeOK
  <2>1. NoStats \in Stats
    BY DEF NoStats, Stats
  <2>2. window \in WindowMin..PoolSize
    BY LimitTypes DEF Init
  <2>3. /\ pc \in PCs /\ emitted \in 0..NumTasks /\ mode \in Modes /\ pending \in [Tasks -> Nat]
        /\ slots \in Nat /\ budget \in Nat
    BY AdmissionAssumption DEF Init, PCs, Modes
  <2> QED
    BY <2>1, <2>2, <2>3 DEF Init, TypeOK
<1>2. Arrived
  BY DEF Init, Arrived
<1>3. ReadingsBounded
  BY AdmissionAssumption DEF Init, ReadingsBounded, NoStats
<1>4. ReservationsExact
  BY DEF Init, ReservationsExact, LongIn
<1>5. ChoiceSound
  <2>1. LongIn(selected) = {}
    BY LongInFacts DEF Init
  <2> QED
    BY <2>1 DEF Init, ChoiceSound, Choosing
<1>6. PlanFits
  <2>1. Planned = pending /\ \A t \in Tasks : pending[t] = 0
    BY <1>1, PlannedType DEF Init
  <2>2. Total(Planned) = 0
    BY <1>1, <2>1, PlannedType, TasksFinite, TotalZero DEF Total
  <2> QED
    BY <2>2, LimitTypes DEF PlanFits, Init
<1>7. Inflight
  <2>1. futures = {} /\ LongIn(futures) = {} /\ Cardinality({}) = 0
    BY LongInFacts, FS_EmptySet DEF Init
  <2> QED
    BY <2>1, AdmissionAssumption DEF Inflight, Higher
<1> QED
  BY <1>1, <1>2, <1>3, <1>4, <1>5, <1>6, <1>7 DEF IInv

\* A step that only reads pressure, moves the window or goes on to the next part of
\* the loop changes none of the books.
LEMMA QuietInv ==
    ASSUME IInv, UNCHANGED <<tasks, choice>>, TypeOK', ReadingsBounded', Choosing' = Choosing
    PROVE  IInv'
<1>1. UNCHANGED <<emitted, backlog, futures, done, pending, mode, slots, budget, remaining,
                  selected>>
  BY DEF tasks, choice
<1>2. Arrived' /\ ReservationsExact'
  BY <1>1 DEF IInv, Arrived, ReservationsExact, LongIn
<1>3. LongIn(futures)' = LongIn(futures) /\ LongIn(selected)' = LongIn(selected)
      /\ LongIn(backlog)' = LongIn(backlog) /\ MaxLong' = MaxLong
  BY <1>1 DEF LongIn, MaxLong
<1>4. ChoiceSound'
  BY <1>1, <1>3 DEF IInv, ChoiceSound
<1>5. PlanFits'
  BY <1>1, <1>3 DEF IInv, PlanFits, Planned, Bound
<1>6. Inflight'
  BY <1>1, <1>3 DEF IInv, Inflight
<1> QED
  BY <1>2, <1>4, <1>5, <1>6 DEF IInv

\* Collecting what is done releases its reservation with its slot.
LEMMA PollInv == ASSUME IInv, Poll PROVE IInv'
<1>1. /\ pc = "poll" /\ pc' = "emit" /\ futures' = futures \ done /\ done' = {}
      /\ pending' = [t \in Tasks |-> IF t \in done THEN 0 ELSE pending[t]]
      /\ UNCHANGED <<emitted, backlog, window, cpu, cpuOverloaded, kv, supported, lastFull,
                     kvOverloaded, mode, slots, budget, remaining, selected>>
  BY DEF Poll, Release, pressure, choice
<1>2. TypeOK'
  <2>1. pending' \in [Tasks -> Nat]
    BY <1>1 DEF IInv, TypeOK
  <2>2. pc' \in PCs
    BY <1>1 DEF PCs
  <2> QED
    BY <1>1, <2>1, <2>2 DEF IInv, TypeOK
<1>3. Arrived' /\ ReadingsBounded'
  BY <1>1 DEF IInv, Arrived, ReadingsBounded
<1>4. ReservationsExact'
  <2>1. \A t \in Tasks : pending[t] > 0 <=> t \in futures /\ IsLong(t)
    BY LongInFacts DEF IInv, ReservationsExact, TypeOK
  <2>2. \A t \in Tasks : pending'[t] > 0 <=> t \in futures' /\ IsLong(t)
    BY <1>1, <2>1
  <2> QED
    BY <1>2, <2>2 DEF ReservationsExact, LongIn, TypeOK, IsLong
<1>5. ~Choosing /\ ~Choosing' /\ selected = {} /\ selected' = {} /\ budget = 0 /\ budget' = 0
  BY <1>1 DEF IInv, ChoiceSound, Choosing
<1>6. ChoiceSound'
  BY <1>1, <1>5, LongInFacts DEF IInv, ChoiceSound
<1>7. PlanFits'
  <2>1. Planned = pending /\ Planned' = pending'
    BY <1>2, <1>5, PlannedType DEF IInv, Planned, TypeOK, LongIn
  <2>2. pending \in [Tasks -> Int] /\ pending' \in [Tasks -> Int]
    BY <1>2 DEF IInv, TypeOK
  <2>3. \A t \in Tasks : pending'[t] <= pending[t]
    BY <1>1 DEF IInv, TypeOK
  <2>4. /\ Total(pending) \in Int /\ Total(pending') \in Int
        /\ Total(pending') <= Total(pending)
    BY <2>2, <2>3, TasksFinite, TotalMonotone DEF Total
  <2>5. Total(Planned) <= Bound /\ Bound \in Nat
    BY <1>5, <2>1, <2>4, LimitTypes DEF IInv, PlanFits
  <2>6. PlanFits' <=> Total(Planned') + budget' <= Bound
    BY DEF PlanFits, Bound
  <2> QED
    BY <1>5, <2>1, <2>4, <2>5, <2>6
<1>8. Inflight'
  <2>1. futures' \subseteq futures /\ LongIn(futures') \subseteq LongIn(futures)
        /\ futures \subseteq Tasks /\ LongIn(futures) \subseteq Tasks
    BY <1>1, LongInFacts DEF IInv, TypeOK
  <2>2. /\ Cardinality(futures') <= Cardinality(futures)
        /\ Cardinality(LongIn(futures')) <= Cardinality(LongIn(futures))
    BY <2>1, TasksFinite, FS_Subset
  <2>3. /\ Cardinality(futures') \in Nat /\ Cardinality(futures) \in Nat
        /\ Cardinality(LongIn(futures')) \in Nat /\ Cardinality(LongIn(futures)) \in Nat
    BY <2>1, TasksFinite
  <2>4. LongIn(futures)' = LongIn(futures')
    BY DEF LongIn, IsLong
  <2> QED
    BY <2>2, <2>3, <2>4, AdmissionAssumption DEF IInv, Inflight, Higher
<1> QED
  BY <1>2, <1>3, <1>4, <1>6, <1>7, <1>8 DEF IInv

\* A task that arrives was not in flight before.
LEMMA EmitInv == ASSUME IInv, Emit PROVE IInv'
<1>1. /\ pc = "emit" /\ emitted < NumTasks
      /\ emitted' = emitted + 1 /\ backlog' = backlog \cup {emitted + 1}
      /\ UNCHANGED <<pc, futures, done, pending, window, cpu, cpuOverloaded, kv, supported,
                     lastFull, kvOverloaded, mode, slots, budget, remaining, selected>>
  BY DEF Emit, pressure, choice
<1>2. emitted \in Nat /\ NumTasks \in Nat /\ emitted + 1 \in Tasks /\ emitted' \in 0..NumTasks
  BY <1>1, AdmissionAssumption DEF IInv, TypeOK, Tasks
<1>3. TypeOK'
  BY <1>1, <1>2 DEF IInv, TypeOK
<1>4. Arrived'
  BY <1>1, <1>2 DEF IInv, Arrived
<1>5. ReadingsBounded' /\ ReservationsExact' /\ Inflight'
  BY <1>1 DEF IInv, ReadingsBounded, ReservationsExact, Inflight, LongIn
<1>6. ~Choosing /\ ~Choosing' /\ selected = {} /\ budget = 0
  BY <1>1 DEF IInv, ChoiceSound, Choosing
<1>7. ChoiceSound'
  BY <1>1, <1>6, LongInFacts DEF IInv, ChoiceSound
<1>8. PlanFits'
  BY <1>1 DEF IInv, PlanFits, Planned, Bound, LongIn
<1> QED
  BY <1>3, <1>4, <1>5, <1>7, <1>8 DEF IInv

\* A worker that returns changes nothing the controller has decided.
LEMMA FinishInv == ASSUME IInv, NEW t \in Tasks, Finish(t) PROVE IInv'
<1>1. /\ t \in futures /\ done' = done \cup {t}
      /\ UNCHANGED <<pc, emitted, backlog, futures, pending, window, cpu, cpuOverloaded, kv,
                     supported, lastFull, kvOverloaded, mode, slots, budget, remaining, selected>>
  BY DEF Finish, pressure, choice
<1>2. TypeOK'
  BY <1>1 DEF IInv, TypeOK
<1>3. Arrived' /\ ReadingsBounded' /\ ReservationsExact' /\ Inflight'
  BY <1>1 DEF IInv, Arrived, ReadingsBounded, ReservationsExact, Inflight, LongIn
<1>4. ChoiceSound'
  BY <1>1 DEF IInv, ChoiceSound, Choosing, LongIn, MaxLong
<1>5. PlanFits'
  BY <1>1 DEF IInv, PlanFits, Planned, Bound, LongIn
<1> QED
  BY <1>2, <1>3, <1>4, <1>5 DEF IInv

\* The plan leaves room: its budget is what the larger allowance leaves over the
\* reservations, and its slots are what the pool leaves over the tasks in flight.
LEMMA PlanInv == ASSUME IInv, Plan PROVE IInv'
<1>1. /\ pc = "plan" /\ pc' = "select" /\ Slots > 0 /\ slots' = Slots /\ remaining' = backlog
      /\ mode' = SelectionMode(FreeSlots)
      /\ budget' = Higher(0, (IF TailMode THEN TailBudget ELSE FreeBudget) - Reserved)
      /\ UNCHANGED <<emitted, backlog, futures, done, pending, window, cpu, cpuOverloaded, kv,
                     supported, lastFull, kvOverloaded, selected>>
  BY DEF Plan, tasks, pressure
<1>2. ~Choosing /\ Choosing' /\ selected = {} /\ budget = 0
  BY <1>1 DEF IInv, ChoiceSound, Choosing
<1>3. TypeOK /\ kv.free \in Nat /\ futures \subseteq Tasks
  BY DEF IInv, TypeOK, Stats
<1>4. /\ Cardinality(futures) \in Nat /\ Cardinality(LongIn(futures)) \in Nat
  BY <1>3, TasksFinite, LongInFacts
<1>5. FreeSlots \in Int /\ FreeSlots <= PoolSize - Cardinality(futures)
  <2>1. /\ window \in Int /\ CpuCap \in Int /\ KvCap \in Int /\ PoolSize \in Int
        /\ window <= PoolSize
    BY <1>3, KvCapType, LimitTypes, AdmissionAssumption DEF TypeOK
  <2> HIDE DEF KvCap, CpuCap
  <2> QED
    BY <1>4, <2>1 DEF FreeSlots, ActiveLimit, Lower
<1>6. Slots \in Int /\ Slots <= FreeSlots
  <2> HIDE DEF FreeSlots, TailMode, Untracked
  <2>1. TailMax - Cardinality(LongIn(futures)) \in Int
    BY <1>4, AdmissionAssumption
  <2>2. TailSlots(FreeSlots) \in Int /\ TailSlots(FreeSlots) <= FreeSlots
    BY <1>5, <2>1 DEF TailSlots, Lower
  <2> QED
    BY <1>5, <2>2 DEF Slots
<1>7. slots' \in Nat /\ Cardinality(futures) + slots' <= PoolSize
  <2>1. Slots \in Nat /\ PoolSize \in Int
    BY <1>1, <1>6, AdmissionAssumption
  <2> QED
    BY <1>1, <1>4, <1>5, <1>6, <2>1
<1>8. Reserved = Total(Planned) /\ Reserved \in Nat /\ Reserved <= Bound /\ Bound \in Nat
  <2>1. Reserved = Total(Planned)
    BY <1>2, <1>3, PlannedType DEF Reserved, Total
  <2>2. Total(Planned) \in Nat /\ Bound \in Nat
    BY <1>3, PlannedType, LimitTypes
  <2>3. Total(Planned) <= Bound
    BY <1>2, <2>2 DEF IInv, PlanFits
  <2> QED
    BY <2>1, <2>2, <2>3
<1>9. budget' \in Nat /\ Reserved + budget' <= Bound
  <2> DEFINE X == IF TailMode THEN TailBudget ELSE FreeBudget
  <2>1. X \in Nat /\ X <= Bound
    <3>1. TailBudget \in Nat /\ Reserve \in Nat /\ NumGpuBlocks \in Nat
      BY LimitTypes, AdmissionAssumption
    <3>2. FreeBudget \in Nat /\ FreeBudget <= Bound
      <4> HIDE DEF TailBudget, Reserve
      <4> QED
        BY <1>3, <3>1 DEF IInv, ReadingsBounded, FreeBudget, Bound, Higher
    <3>3. TailBudget <= Bound
      <4> HIDE DEF TailBudget, Reserve
      <4> QED
        BY <3>1 DEF Bound, Higher
    <3> QED
      BY <3>1, <3>2, <3>3
  <2> HIDE DEF X, Reserved, Bound
  <2>2. budget' = Higher(0, X - Reserved)
    BY <1>1 DEF X
  <2> QED
    BY <1>8, <2>1, <2>2 DEF Higher
<1>10. TypeOK'
  <2>1. mode' \in Modes
    BY <1>1 DEF SelectionMode, Modes
  <2>2. pc' \in PCs /\ remaining' \subseteq Tasks
    BY <1>1, <1>3 DEF PCs, TypeOK
  <2> QED
    BY <1>1, <1>7, <1>9, <2>1, <2>2 DEF IInv, TypeOK
<1>11. Arrived' /\ ReadingsBounded' /\ ReservationsExact' /\ Inflight'
  BY <1>1 DEF IInv, Arrived, ReadingsBounded, ReservationsExact, Inflight, LongIn
<1>12. ChoiceSound'
  <2>1. selected' = {} /\ LongIn(selected)' = {} /\ Cardinality({}) = 0
    BY <1>1, <1>2, LongInFacts, FS_EmptySet DEF LongIn
  <2>2. mode' = "tail_kv_fit" => LongIn(backlog) = backlog
    BY <1>1 DEF SelectionMode, TailMode
  <2>3. LongIn(backlog)' = LongIn(backlog) /\ Cardinality(selected') <= slots'
    BY <1>1, <1>7, <2>1 DEF LongIn
  <2> QED
    BY <1>1, <1>2, <1>7, <2>1, <2>2, <2>3 DEF ChoiceSound
<1>13. PlanFits'
  <2>1. Planned' = Planned
    BY <1>1 DEF Planned, LongIn
  <2>2. PlanFits' <=> Total(Planned') + budget' <= Bound
    BY DEF PlanFits, Bound
  <2> QED
    BY <1>8, <1>9, <2>1, <2>2
<1> QED
  BY <1>10, <1>11, <1>12, <1>13 DEF IInv

\* Selecting a task moves its cost from the budget to the planned reservations.
LEMMA TakeInv ==
    ASSUME IInv, Choosing, NEW t \in remaining, Cardinality(selected) < slots, Take(t),
           IsLong(t) => LongRoom /\ Cost(t) <= budget,
           remaining' = remaining \ {t},
           UNCHANGED <<pc, tasks, window, pressure, mode, slots>>
    PROVE  IInv'
<1>1. UNCHANGED <<pc, emitted, backlog, futures, done, pending, window, cpu, cpuOverloaded, kv,
                  supported, lastFull, kvOverloaded, mode, slots>>
  BY DEF tasks, pressure
<1>2. /\ selected' = selected \cup {t}
      /\ budget' = IF IsLong(t) THEN Higher(0, budget - Cost(t)) ELSE budget
  BY DEF Take
<1>3. /\ t \in Tasks /\ t \in backlog /\ t \notin selected /\ t \notin futures
      /\ budget \in Nat /\ slots \in Nat /\ selected \subseteq Tasks /\ futures \subseteq Tasks
  BY DEF IInv, TypeOK, ChoiceSound, Arrived
<1>4. Cost(t) \in Nat
  BY <1>3, CostType
<1>5. budget' \in Nat /\ budget' = IF IsLong(t) THEN budget - Cost(t) ELSE budget
  BY <1>2, <1>3, <1>4 DEF Higher
<1>6. TypeOK'
  BY <1>1, <1>2, <1>3, <1>5 DEF IInv, TypeOK
<1>7. Arrived' /\ ReadingsBounded' /\ ReservationsExact' /\ Inflight'
  BY <1>1 DEF IInv, Arrived, ReadingsBounded, ReservationsExact, Inflight, LongIn
<1>8. LongIn(selected)' = IF IsLong(t) THEN LongIn(selected) \cup {t} ELSE LongIn(selected)
  BY <1>2 DEF LongIn
<1>9. /\ IsFiniteSet(selected) /\ Cardinality(selected) \in Nat
      /\ IsFiniteSet(LongIn(selected)) /\ Cardinality(LongIn(selected)) \in Nat
      /\ Cardinality(LongIn(futures)) \in Nat /\ Cardinality(futures) \in Nat
  BY <1>3, TasksFinite, LongInFacts
<1>10. Cardinality(selected') = Cardinality(selected) + 1
  BY <1>2, <1>3, <1>9, FS_AddElement
<1>11. ChoiceSound'
  <2>1. MaxLong' = MaxLong /\ LongIn(backlog)' = LongIn(backlog)
        /\ LongIn(futures)' = LongIn(futures) /\ Choosing'
    BY <1>1 DEF MaxLong, LongIn, Choosing
  <2>2. MaxLong \in Nat
    BY AdmissionAssumption DEF MaxLong
  <2>3. LongIn(selected)' # {} =>
           Cardinality(LongIn(futures)) + Cardinality(LongIn(selected)') <= MaxLong
    <3>1. CASE IsLong(t)
      <4>1. t \notin LongIn(selected)
        BY <1>3, LongInFacts
      <4>2. Cardinality(LongIn(selected)') = Cardinality(LongIn(selected)) + 1
        BY <1>8, <1>9, <3>1, <4>1, FS_AddElement
      <4>3. Cardinality(LongIn(futures)) + Cardinality(LongIn(selected)) < MaxLong
        BY <3>1 DEF LongRoom
      <4> QED
        BY <1>9, <2>2, <4>2, <4>3
    <3>2. CASE ~IsLong(t)
      BY <1>8, <3>2 DEF IInv, ChoiceSound
    <3> QED
      BY <3>1, <3>2
  <2>4. Cardinality(selected') <= slots'
    BY <1>1, <1>3, <1>9, <1>10
  <2>5. selected' \subseteq backlog' /\ remaining' \subseteq backlog' \ selected'
    BY <1>1, <1>2, <1>3 DEF IInv, ChoiceSound
  <2>6. Cardinality(futures') + slots' <= PoolSize
        /\ (mode' = "tail_kv_fit" => LongIn(backlog)' = backlog')
    BY <1>1, <2>1 DEF IInv, ChoiceSound
  <2> QED
    BY <2>1, <2>3, <2>4, <2>5, <2>6 DEF ChoiceSound
<1>12. PlanFits'
  <2>1. Planned \in [Tasks -> Int] /\ Planned' \in [Tasks -> Int]
    <3>1. Planned' \in [Tasks -> Nat]
      BY <1>1, CostType DEF IInv, Planned, TypeOK
    <3>2. Planned' \in [Tasks -> Int]
      BY <3>1
    <3> QED
      BY <3>2, PlannedType DEF IInv
  <2>2. \A u \in Tasks : u # t => Planned'[u] = Planned[u]
    BY <1>1, <1>8 DEF Planned
  <2>3. Planned[t] = 0
    <3>1. t \notin LongIn(selected) /\ t \notin LongIn(futures)
      BY <1>3, LongInFacts
    <3>2. ~(pending[t] > 0) /\ pending[t] \in Nat
      BY <1>3, <3>1 DEF IInv, ReservationsExact, TypeOK
    <3> QED
      BY <1>3, <3>1, <3>2 DEF Planned
  <2>4. Planned'[t] = IF IsLong(t) THEN Cost(t) ELSE 0
    <3>1. CASE IsLong(t)
      BY <1>3, <1>8, <3>1 DEF Planned
    <3>2. CASE ~IsLong(t)
      <4>1. Planned' = Planned
        BY <1>1, <1>8, <3>2 DEF Planned
      <4> QED
        BY <2>3, <3>2, <4>1
    <3> QED
      BY <3>1, <3>2
  <2>5. Total(Planned) \in Int /\ Total(Planned') = Total(Planned) + (Planned'[t] - Planned[t])
    <3> DEFINE f == Planned
               h == Planned'
    <3>1. f \in [Tasks -> Int] /\ h \in [Tasks -> Int] /\ \A u \in Tasks : u # t => h[u] = f[u]
      BY <2>1, <2>2
    <3> HIDE DEF f, h
    <3>2. Total(f) \in Int /\ Total(h) = Total(f) + (h[t] - f[t])
      <4>1. IsFiniteSet(Tasks) /\ t \in Tasks
        BY <1>3, TasksFinite
      <4>2. /\ FoldFunction(+, 0, f) \in Int
            /\ FoldFunction(+, 0, h) = FoldFunction(+, 0, f) + (h[t] - f[t])
        BY <3>1, <4>1, TotalUpdate
      <4> QED
        BY <4>2 DEF Total
    <3> QED
      BY <3>2 DEF f, h
  <2>6. PlanFits' <=> Total(Planned') + budget' <= Bound
    BY DEF PlanFits, Bound
  <2>7. Total(Planned') + budget' = Total(Planned) + budget
    <3>1. CASE IsLong(t)
      BY <1>3, <1>4, <1>5, <2>3, <2>4, <2>5, <3>1
    <3>2. CASE ~IsLong(t)
      BY <1>3, <1>5, <2>3, <2>4, <2>5, <3>2
    <3> QED
      BY <3>1, <3>2
  <2> QED
    BY <2>6, <2>7 DEF IInv, PlanFits
<1> QED
  BY <1>6, <1>7, <1>11, <1>12 DEF IInv

\* Passing a task over, or starting another pass, changes what is left to look at.
LEMMA SkipInv ==
    ASSUME IInv, Choosing, Choosing', pc' \in PCs, remaining' \subseteq backlog \ selected,
           UNCHANGED <<tasks, window, pressure, mode, slots, budget, selected>>
    PROVE  IInv'
<1>1. UNCHANGED <<emitted, backlog, futures, done, pending, window, cpu, cpuOverloaded, kv,
                  supported, lastFull, kvOverloaded, mode, slots, budget, selected>>
  BY DEF tasks, pressure
<1>2. TypeOK'
  BY <1>1 DEF IInv, TypeOK
<1>3. Arrived' /\ ReadingsBounded' /\ ReservationsExact' /\ Inflight'
  BY <1>1 DEF IInv, Arrived, ReadingsBounded, ReservationsExact, Inflight, LongIn
<1>4. ChoiceSound'
  <2>1. /\ MaxLong' = MaxLong /\ LongIn(backlog)' = LongIn(backlog)
        /\ LongIn(futures)' = LongIn(futures) /\ LongIn(selected)' = LongIn(selected)
    BY <1>1 DEF MaxLong, LongIn
  <2> QED
    BY <1>1, <2>1 DEF IInv, ChoiceSound
<1>5. PlanFits'
  BY <1>1 DEF IInv, PlanFits, Planned, Bound, LongIn
<1> QED
  BY <1>2, <1>3, <1>4, <1>5 DEF IInv

\* One candidate of the selection loop.
LEMMA SelectInv == ASSUME IInv, Select PROVE IInv'
<1>1. /\ pc = "select" /\ remaining # {} /\ Cardinality(selected) < slots
      /\ remaining' = remaining \ {Candidate}
      /\ UNCHANGED <<pc, tasks, window, pressure, mode, slots>>
      /\ IF Fits(Candidate) THEN Take(Candidate) ELSE UNCHANGED <<selected, budget>>
  BY DEF Select
<1>2. Candidate \in remaining
  BY <1>1, CandidateIn DEF IInv, TypeOK
<1>3. Choosing
  BY <1>1 DEF Choosing
<1> HIDE DEF Candidate
<1>4. CASE Fits(Candidate)
  BY <1>1, <1>2, <1>3, <1>4, TakeInv DEF Fits
<1>5. CASE ~Fits(Candidate)
  <2>1. remaining' \subseteq backlog \ selected /\ pc' \in PCs /\ Choosing'
    BY <1>1, <1>3 DEF IInv, ChoiceSound, PCs, Choosing
  <2>2. UNCHANGED <<tasks, window, pressure, mode, slots, budget, selected>>
    BY <1>1, <1>5
  <2> QED
    BY <1>3, <2>1, <2>2, SkipInv
<1> QED
  BY <1>4, <1>5

\* One candidate of the tail-fill pass.
LEMMA FillInv == ASSUME IInv, Fill PROVE IInv'
<1>1. /\ pc = "fill" /\ remaining # {} /\ Cardinality(selected) < slots /\ LongRoom
      /\ remaining' = remaining \ {Cheapest}
      /\ UNCHANGED <<pc, tasks, window, pressure, mode, slots>>
      /\ IF Cost(Cheapest) <= budget THEN Take(Cheapest) ELSE UNCHANGED <<selected, budget>>
  BY DEF Fill
<1>2. Cheapest \in remaining
  BY <1>1, CheapestIn DEF IInv, TypeOK
<1>3. Choosing
  BY <1>1 DEF Choosing
<1> HIDE DEF Cheapest
<1>4. CASE Cost(Cheapest) <= budget
  BY <1>1, <1>2, <1>3, <1>4, TakeInv
<1>5. CASE ~(Cost(Cheapest) <= budget)
  <2>1. remaining' \subseteq backlog \ selected /\ pc' \in PCs /\ Choosing'
    BY <1>1, <1>3 DEF IInv, ChoiceSound, PCs, Choosing
  <2>2. UNCHANGED <<tasks, window, pressure, mode, slots, budget, selected>>
    BY <1>1, <1>5
  <2> QED
    BY <1>3, <2>1, <2>2, SkipInv
<1> QED
  BY <1>4, <1>5

\* The submissions: every planned reservation is made.
LEMMA CommitInv == ASSUME IInv, Commit PROVE IInv'
<1>1. /\ pc = "commit" /\ pc' = "check"
      /\ backlog' = backlog \ selected /\ futures' = futures \cup selected
      /\ mode' = "short_first" /\ slots' = 0 /\ budget' = 0
      /\ remaining' = {} /\ selected' = {}
      /\ UNCHANGED <<emitted, done, window, cpu, cpuOverloaded, kv, supported, lastFull,
                     kvOverloaded>>
  BY DEF Commit, ResetChoice, pressure
<1>2. pending' = Planned
  BY DEF Commit, Planned
<1>3. Choosing /\ ~Choosing'
  BY <1>1 DEF Choosing
<1>4. /\ TypeOK /\ selected \subseteq backlog /\ selected \subseteq Tasks /\ futures \subseteq Tasks
      /\ selected \cap futures = {}
  BY DEF IInv, TypeOK, ChoiceSound, Arrived
<1>5. TypeOK'
  <2>1. pending' \in [Tasks -> Nat]
    BY <1>2, <1>4, PlannedType
  <2>2. pc' \in PCs /\ mode' \in Modes
    BY <1>1 DEF PCs, Modes
  <2> QED
    BY <1>1, <1>4, <2>1, <2>2 DEF TypeOK
<1>6. Arrived' /\ ReadingsBounded'
  BY <1>1, <1>4 DEF IInv, Arrived, ReadingsBounded
<1>7. ReservationsExact'
  <2>1. \A t \in Tasks : pending[t] > 0 <=> t \in futures /\ IsLong(t)
    BY <1>4, LongInFacts DEF IInv, ReservationsExact
  <2>2. \A t \in Tasks : t \in LongIn(selected) <=> t \in selected /\ IsLong(t)
    BY LongInFacts
  <2>3. \A t \in Tasks : pending'[t] > 0 <=> t \in futures' /\ IsLong(t)
    <3> SUFFICES ASSUME NEW t \in Tasks
                 PROVE  pending'[t] > 0 <=> t \in futures' /\ IsLong(t)
      OBVIOUS
    <3>1. pending'[t] = IF t \in LongIn(selected) THEN Cost(t) ELSE pending[t]
      BY <1>2 DEF Planned
    <3>2. IsLong(t) => Cost(t) > 0
      BY CostType
    <3> QED
      BY <1>1, <2>1, <2>2, <3>1, <3>2
  <2> QED
    BY <1>5, <2>3 DEF ReservationsExact, LongIn, TypeOK, IsLong
<1>8. ChoiceSound'
  BY <1>1, <1>3, LongInFacts DEF ChoiceSound
<1>9. PlanFits'
  <2>1. Planned' = Planned
    <3>1. Planned' = pending'
      BY <1>1, <1>5 DEF Planned, TypeOK, LongIn
    <3> QED
      BY <1>2, <3>1
  <2>2. PlanFits' <=> Total(Planned') + budget' <= Bound
    BY DEF PlanFits, Bound
  <2>3. Total(Planned) \in Nat /\ Bound \in Nat /\ budget \in Nat
    BY <1>4, PlannedType, LimitTypes DEF TypeOK
  <2>4. Total(Planned) + budget <= Bound
    BY DEF IInv, PlanFits
  <2> QED
    BY <1>1, <2>1, <2>2, <2>3, <2>4
<1>10. Inflight'
  <2>1. /\ IsFiniteSet(futures) /\ IsFiniteSet(selected)
        /\ Cardinality(futures) \in Nat /\ Cardinality(selected) \in Nat /\ slots \in Nat
    BY <1>4, TasksFinite DEF TypeOK
  <2>2. Cardinality(futures \cup selected) = Cardinality(futures) + Cardinality(selected)
    BY <1>4, <2>1, DisjointUnion
  <2>3. Cardinality(futures') <= PoolSize
    BY <1>1, <1>3, <2>1, <2>2, AdmissionAssumption DEF IInv, ChoiceSound
  <2>4. LongIn(futures)' = LongIn(futures) \cup LongIn(selected)
    BY <1>1 DEF LongIn, IsLong
  <2>5. CASE LongIn(selected) = {}
    BY <2>3, <2>4, <2>5 DEF IInv, Inflight
  <2>6. CASE LongIn(selected) # {}
    <3>1. Cardinality(LongIn(futures)) + Cardinality(LongIn(selected)) <= MaxLong
      BY <2>6 DEF IInv, ChoiceSound
    <3>2. MaxLong <= Higher(LongMax, TailMax) /\ MaxLong \in Nat /\ Higher(LongMax, TailMax) \in Nat
      BY AdmissionAssumption DEF MaxLong, Higher
    <3>3. /\ IsFiniteSet(LongIn(futures)) /\ IsFiniteSet(LongIn(selected))
          /\ Cardinality(LongIn(futures)) \in Nat /\ Cardinality(LongIn(selected)) \in Nat
          /\ LongIn(futures) \cap LongIn(selected) = {}
      BY <1>4, TasksFinite, LongInFacts
    <3>4. Cardinality(LongIn(futures) \cup LongIn(selected))
             = Cardinality(LongIn(futures)) + Cardinality(LongIn(selected))
      BY <3>3, DisjointUnion
    <3>5. Cardinality(LongIn(futures)') <= Higher(LongMax, TailMax)
      <4> HIDE DEF MaxLong
      <4> QED
        BY <2>4, <3>1, <3>2, <3>3, <3>4
    <3> QED
      BY <2>3, <3>5 DEF Inflight
  <2> QED
    BY <2>5, <2>6
<1> QED
  BY <1>5, <1>6, <1>7, <1>8, <1>9, <1>10 DEF IInv

\* The steps outside the selection: arrivals, pressure, statistics, the window.
LEMMA LoopInv ==
    ASSUME IInv,
           StopRequested \/ LeaveEmit \/ ObserveCpu \/ Telemetry \/ ControlWindow \/ NoSlots \/ Check
    PROVE  IInv'
<1>0. TypeOK /\ ReadingsBounded
  BY DEF IInv
<1>1. ASSUME UNCHANGED <<tasks, window, pressure, choice>>, pc' \in PCs, Choosing' = Choosing
      PROVE  IInv'
  <2>1. TypeOK' /\ ReadingsBounded'
    BY <1>0, <1>1 DEF TypeOK, ReadingsBounded, tasks, pressure, choice
  <2> QED
    BY <1>1, <2>1, QuietInv
<1>2. CASE StopRequested \/ LeaveEmit \/ NoSlots \/ Check \/ KeepTelemetry
  <2>1. /\ UNCHANGED <<tasks, window, pressure, choice>>
        /\ pc \in {"emit", "plan", "check", "telemetry"}
        /\ pc' \in {"stopped", "check", "cpu", "completed", "poll", "window"}
    BY <1>2 DEF StopRequested, LeaveEmit, NoSlots, Check, KeepTelemetry
  <2>2. pc' \in PCs /\ Choosing' = Choosing
    BY <2>1 DEF PCs, Choosing
  <2> QED
    BY <1>1, <2>1, <2>2
<1>3. CASE ObserveCpu
  <2>1. /\ UNCHANGED <<tasks, window, kv, supported, lastFull, kvOverloaded, choice>>
        /\ pc = "cpu" /\ pc' = "telemetry" /\ cpu' \in {"low", "mid", "high"}
        /\ cpuOverloaded' \in BOOLEAN
    BY <1>0, <1>3 DEF ObserveCpu, TypeOK
  <2>2. TypeOK' /\ ReadingsBounded'
    BY <1>0, <2>1 DEF TypeOK, ReadingsBounded, tasks, choice, PCs
  <2>3. Choosing' = Choosing
    BY <2>1 DEF Choosing
  <2> QED
    BY <2>1, <2>2, <2>3, QuietInv
<1>4. ASSUME UNCHANGED <<tasks, window, cpu, cpuOverloaded, kvOverloaded, choice>>,
             pc = "telemetry", pc' = "window", supported' \in BOOLEAN,
             kv' \in Stats, lastFull' \in Stats,
             kv'.free <= NumGpuBlocks - 1, lastFull'.free <= NumGpuBlocks - 1
      PROVE  IInv'
  <2>1. TypeOK' /\ ReadingsBounded'
    BY <1>0, <1>4 DEF TypeOK, ReadingsBounded, tasks, choice, PCs
  <2>2. Choosing' = Choosing
    BY <1>4 DEF Choosing
  <2> QED
    BY <1>4, <2>1, <2>2, QuietInv
<1>5. /\ lastFull \in Stats /\ NoStats \in Stats /\ Partial \in Stats
      /\ lastFull.free <= NumGpuBlocks - 1 /\ NoStats.free <= NumGpuBlocks - 1
      /\ Partial.free <= NumGpuBlocks - 1
  BY <1>0, AdmissionAssumption DEF TypeOK, ReadingsBounded, NoStats, Partial, Stats
<1>6. CASE FetchStats
  <2>1. PICK f \in FreeReadings : kv' = Full(f, Usage(f)) /\ lastFull' = kv'
    BY <1>6 DEF FetchStats
  <2>2. Usage(f) \in Nat /\ f \in Nat /\ f <= NumGpuBlocks - 1
    BY UsageType
  <2>3. kv' \in Stats /\ kv'.free = f
    BY <2>1, <2>2 DEF Full, Stats
  <2> QED
    BY <1>0, <1>4, <1>6, <2>1, <2>2, <2>3 DEF FetchStats, TypeOK
<1>7. CASE FetchError
  BY <1>0, <1>4, <1>5, <1>7 DEF FetchError, TypeOK
<1>8. CASE FetchMetrics
  <2>1. PICK f \in FreeReadings, known \in StillFresh :
          /\ kv' = IF known = NoStats THEN Partial
                   ELSE [known EXCEPT !.usage = FromGauge(Usage(f))]
          /\ lastFull' = known
    BY <1>8 DEF FetchMetrics
  <2>2. known \in Stats /\ known.free <= NumGpuBlocks - 1
    BY <1>5 DEF StillFresh
  <2>3. FromGauge(Usage(f)) \in Nat
    BY UsageType DEF FromGauge
  <2>4. kv' \in Stats /\ kv'.free <= NumGpuBlocks - 1
    BY <1>5, <2>1, <2>2, <2>3 DEF Stats
  <2>5. supported' \in BOOLEAN
    BY <1>0, <1>8 DEF FetchMetrics, NoAnswer, TypeOK
  <2> QED
    BY <1>4, <1>8, <2>1, <2>2, <2>4, <2>5 DEF FetchMetrics
<1>9. CASE FetchNothing
  <2>1. PICK known \in StillFresh : kv' = known /\ lastFull' = known
    BY <1>9 DEF FetchNothing
  <2>2. known \in Stats /\ known.free <= NumGpuBlocks - 1
    BY <1>5 DEF StillFresh
  <2>3. supported' \in BOOLEAN
    BY <1>0, <1>9 DEF FetchNothing, NoAnswer, TypeOK
  <2> QED
    BY <1>4, <1>9, <2>1, <2>2, <2>3 DEF FetchNothing
<1>10. CASE ControlWindow
  <2>1. /\ UNCHANGED <<tasks, cpu, cpuOverloaded, kv, supported, lastFull, choice>>
        /\ pc = "window" /\ pc' = "plan" /\ window' \in {window, NextWindow}
        /\ kvOverloaded' = KvOverloadedNow
    BY <1>10 DEF ControlWindow
  <2>2. window' \in WindowMin..PoolSize
    BY <1>0, <2>1, WindowStays DEF TypeOK
  <2>3. kvOverloaded' \in BOOLEAN
    BY <2>1 DEF KvOverloadedNow
  <2>4. TypeOK' /\ ReadingsBounded'
    BY <1>0, <2>1, <2>2, <2>3 DEF TypeOK, ReadingsBounded, tasks, choice, PCs
  <2>5. Choosing' = Choosing
    BY <2>1 DEF Choosing
  <2> QED
    BY <2>1, <2>4, <2>5, QuietInv
<1> QED
  BY <1>2, <1>3, <1>6, <1>7, <1>8, <1>9, <1>10 DEF Telemetry

\* Every step keeps the books.
LEMMA StepInv == IInv /\ [Next]_vars => IInv'
<1> SUFFICES ASSUME IInv, [Next]_vars PROVE IInv'
  OBVIOUS
<1>1. CASE StopRequested \/ LeaveEmit \/ ObserveCpu \/ Telemetry \/ ControlWindow \/ NoSlots \/ Check
  BY <1>1, LoopInv
<1>2. CASE Poll
  BY <1>2, PollInv
<1>3. CASE Emit
  BY <1>3, EmitInv
<1>4. CASE Plan
  BY <1>4, PlanInv
<1>5. CASE Select
  BY <1>5, SelectInv
<1>6. CASE Fill
  BY <1>6, FillInv
<1>7. CASE LeaveSelect
  <2>1. /\ Choosing /\ Choosing' /\ pc' \in PCs /\ remaining' \subseteq backlog \ selected
        /\ UNCHANGED <<tasks, window, pressure, mode, slots, budget, selected>>
    BY <1>7 DEF LeaveSelect, Choosing, PCs
  <2> QED
    BY <2>1, SkipInv
<1>8. CASE LeaveFill
  <2>1. /\ Choosing /\ Choosing' /\ pc' \in PCs /\ remaining' = remaining
        /\ UNCHANGED <<tasks, window, pressure, mode, slots, budget, selected>>
    BY <1>8 DEF LeaveFill, Choosing, PCs, choice
  <2>2. remaining' \subseteq backlog \ selected
    BY <2>1 DEF IInv, ChoiceSound
  <2> QED
    BY <2>1, <2>2, SkipInv
<1>9. CASE Commit
  BY <1>9, CommitInv
<1>10. ASSUME NEW t \in Tasks, Finish(t) PROVE IInv'
  BY <1>10, FinishInv
<1>11. CASE UNCHANGED vars
  <2>1. UNCHANGED <<pc, tasks, window, pressure, choice>>
    BY <1>11 DEF vars
  <2>2. TypeOK' /\ ReadingsBounded' /\ Choosing' = Choosing
    BY <2>1 DEF IInv, TypeOK, ReadingsBounded, Choosing, tasks, pressure, choice
  <2> QED
    BY <2>1, <2>2, QuietInv
<1> QED
  BY <1>1, <1>2, <1>3, <1>4, <1>5, <1>6, <1>7, <1>8, <1>9, <1>10, <1>11 DEF Next, Driver, Over

\* The inductive invariant holds in every reachable state.
LEMMA Invariance == Spec => []IInv
BY InitInv, StepInv, PTL DEF Spec

\* A reservation stands exactly while its long task is in flight, and all of them
\* stay within the larger of the two budgets: for any tasks, ratios and limits, and
\* however stale the statistics are that a budget is computed from.
THEOREM ReservationsCorrect == Spec => []ReservationsSound
<1>1. IInv => ReservationsSound
  <2> SUFFICES ASSUME IInv PROVE ReservationsFit
    BY DEF IInv, ReservationsSound
  <2>1. TypeOK /\ pending \in [Tasks -> Int]
    <3>1. pending \in [Tasks -> Nat]
      BY DEF IInv, TypeOK
    <3> QED
      BY <3>1 DEF IInv
  <2>2. \A t \in Tasks : pending[t] <= Planned[t]
    <3> SUFFICES ASSUME NEW t \in Tasks PROVE pending[t] <= Planned[t]
      OBVIOUS
    <3>1. pending[t] \in Nat /\ Cost(t) \in Nat
      BY CostType DEF IInv, TypeOK
    <3>2. t \in LongIn(selected) => ~(pending[t] > 0)
      BY LongInFacts DEF IInv, ReservationsExact, ChoiceSound, Arrived
    <3> QED
      BY <3>1, <3>2 DEF Planned
  <2>3. Total(pending) \in Int /\ Total(Planned) \in Nat /\ Total(pending) <= Total(Planned)
    <3> DEFINE h == Planned
    <3>1. h \in [Tasks -> Int] /\ Total(h) \in Nat /\ IsFiniteSet(Tasks)
          /\ \A t \in Tasks : pending[t] <= h[t]
      BY <2>1, <2>2, PlannedType, TasksFinite
    <3> HIDE DEF h
    <3>2. Total(pending) \in Int /\ Total(h) \in Int /\ Total(pending) <= Total(h)
      <4>1. /\ FoldFunction(+, 0, pending) \in Int /\ FoldFunction(+, 0, h) \in Int
            /\ FoldFunction(+, 0, pending) <= FoldFunction(+, 0, h)
        BY <2>1, <3>1, TotalMonotone
      <4> QED
        BY <4>1 DEF Total
    <3> QED
      BY <3>1, <3>2 DEF h
  <2>4. Total(Planned) + budget <= Bound /\ budget \in Nat /\ Bound \in Nat
    BY LimitTypes DEF IInv, PlanFits, TypeOK
  <2>5. Total(pending) <= Bound
    <3> HIDE DEF Bound
    <3> QED
      BY <2>3, <2>4
  <2>6. Reserved = Total(pending)
    BY DEF Reserved, Total
  <2> QED
    BY <2>5, <2>6 DEF ReservationsFit, Bound
<1> QED
  BY <1>1, Invariance, PTL

\* The tasks in flight stay within the pool and the long ones within their limits,
\* in every configuration, whichever modes the calls before went through.
THEOREM InflightCorrect == Spec => []InflightBounds
<1>1. IInv => InflightBounds
  <2> SUFFICES ASSUME IInv, pc = "commit", backlog # LongIn(backlog), LongIn(selected) # {}
               PROVE  Cardinality(LongIn(futures \cup selected)) <= LongMax
    BY DEF IInv, Inflight, InflightBounds
  <2>1. mode # "tail_kv_fit"
    BY DEF IInv, ChoiceSound, Choosing
  <2>2. Cardinality(LongIn(futures)) + Cardinality(LongIn(selected)) <= LongMax
    BY <2>1 DEF IInv, ChoiceSound, MaxLong
  <2>3. LongIn(futures \cup selected) = LongIn(futures) \cup LongIn(selected)
    BY LongInFacts
  <2>4. /\ futures \subseteq Tasks /\ selected \subseteq Tasks /\ futures \cap selected = {}
    BY DEF IInv, TypeOK, ChoiceSound, Arrived
  <2>5. /\ IsFiniteSet(LongIn(futures)) /\ IsFiniteSet(LongIn(selected))
        /\ LongIn(futures) \cap LongIn(selected) = {}
    BY <2>4, TasksFinite, LongInFacts
  <2>6. Cardinality(LongIn(futures) \cup LongIn(selected))
           = Cardinality(LongIn(futures)) + Cardinality(LongIn(selected))
    BY <2>5, DisjointUnion
  <2> QED
    BY <2>2, <2>3, <2>6
<1> QED
  BY <1>1, Invariance, PTL
=============================================================================
