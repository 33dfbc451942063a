------------------------------- MODULE DPWaves -------------------------------
(***************************************************************************)
(* The request waves of data parallel serving: DPEngineCoreProc            *)
(* (vllm/v1/engine/core.py), DPCoordinatorProc (coordinator.py) and the    *)
(* front ends' DPAsyncMPClient (core_client.py).                           *)
(*                                                                         *)
(* The model's forward pass is a collective of all engines.  Engines       *)
(* therefore run and pause together: an engine that has nothing to do      *)
(* joins with a dummy batch while the wave lasts, and must be woken up     *)
(* when another one gets a request while all are paused.                   *)
(*                                                                         *)
(* Every connection keeps its messages in order; those of different        *)
(* connections may arrive in any order, however late.  The load statistics *)
(* only choose the engine of a request, which may be any.                  *)
(***************************************************************************)
EXTENDS Integers, Sequences, FiniteSets

CONSTANTS
    Engines,    \* data parallel ranks
    Rank0,      \* the engine that reports the end of a wave
    FrontEnds,  \* API server processes
    Requests,
    Steps,      \* forward passes a request needs
    SyncEvery,  \* forward passes from one finish-sync to the next (32)
    Abortable,  \* requests that their clients may abort
    None        \* no engine

ASSUME WavesAssumption ==
    /\ IsFiniteSet(Engines) /\ Rank0 \in Engines /\ None \notin Engines
    /\ Steps \in Nat \ {0} /\ SyncEvery \in Nat \ {0}
    /\ Abortable \subseteq Requests

VARIABLES
    \* Front ends
    status,    \* of a request: "new", "sent", "aborting", "done"
    home,      \* reqs_in_flight: front end and engine of a request that was sent
    feWave,    \* DPAsyncMPClient.current_wave
    feRunning, \* DPAsyncMPClient.engines_running
    firstReq,  \* FIRST_REQ messages to the front end's own update task
    \* Coordinator
    coWave,    \* current_wave
    coRunning, \* engines_running
    \* Engines
    wave,      \* DPEngineCoreProc.current_wave
    running,   \* engines_running
    counter,   \* step_counter
    left,      \* forward passes left for each unfinished request of the engine
    reported,  \* has_finished_requests is FALSE
    pc,        \* "input", or the collective the engine waits in
    \* Connections
    toEngine,  \* front end to engine: ADD and ABORT
    toCoord,   \* front end to coordinator: the wave of a first request
    toFront,   \* coordinator to front end: wave and running state
    start,     \* coordinator to engine: START_DP_WAVE
    notify     \* engine to coordinator: wave_complete and start_wave

front == <<feWave, feRunning, firstReq>>
coord == <<coWave, coRunning>>
engine == <<wave, running, counter, left, reported, pc>>
channels == <<toEngine, toCoord, toFront, start, notify>>
vars == <<status, home, front, coord, engine, channels>>

Init ==
    /\ status = [r \in Requests |-> "new"]
    /\ home = [r \in Requests |-> <<None, None>>]
    /\ feWave = [f \in FrontEnds |-> 0]
    /\ feRunning = [f \in FrontEnds |-> FALSE]
    /\ firstReq = [f \in FrontEnds |-> 0]
    /\ coWave = 0 /\ coRunning = FALSE
    /\ wave = [e \in Engines |-> 0]
    /\ running = [e \in Engines |-> FALSE]
    /\ counter = [e \in Engines |-> 0]
    /\ left = [e \in Engines |-> <<>>]
    /\ reported = [e \in Engines |-> TRUE]
    /\ pc = [e \in Engines |-> "input"]
    /\ toEngine = [f \in FrontEnds |-> [e \in Engines |-> <<>>]]
    /\ toCoord = [f \in FrontEnds |-> <<>>]
    /\ toFront = [f \in FrontEnds |-> <<>>]
    /\ start = [e \in Engines |-> <<>>]
    /\ notify = [e \in Engines |-> <<>>]

-----------------------------------------------------------------------------
(* Front ends *)

\* Mutant: the coordinator is not told of a request while the engines pause.
TellsNobody(f) == FALSE
\* The coordinator is told of a request if the engines are thought to be paused.
TellsCoordinator(f) == ~feRunning[f]

\* add_request_async
AddRequest(f, e, r) ==
    /\ status[r] = "new"
    /\ status' = [status EXCEPT ![r] = "sent"]
    /\ home' = [home EXCEPT ![r] = <<f, e>>]
    /\ toEngine' = [toEngine EXCEPT ![f][e] =
                        Append(@, [type |-> "add", req |-> r, wave |-> feWave[f]])]
    /\ firstReq' = [firstReq EXCEPT ![f] = IF TellsCoordinator(f) THEN @ + 1 ELSE @]
    /\ UNCHANGED <<feWave, feRunning, coord, engine, toCoord, toFront, start, notify>>

\* abort_requests_async goes to the engine that has the request.
AbortRequest(f, e, r) ==
    /\ r \in Abortable
    /\ status[r] = "sent"
    /\ home[r] = <<f, e>>
    /\ status' = [status EXCEPT ![r] = "aborting"]
    /\ toEngine' = [toEngine EXCEPT ![f][e] =
                        Append(@, [type |-> "abort", req |-> r, wave |-> 0])]
    /\ UNCHANGED <<home, front, coord, engine, toCoord, toFront, start, notify>>

\* The update task passes a first request on, with the wave known by then.
SendFirstReq(f) ==
    /\ firstReq[f] > 0
    /\ firstReq' = [firstReq EXCEPT ![f] = @ - 1]
    /\ feRunning' = [feRunning EXCEPT ![f] = TRUE]
    /\ toCoord' = [toCoord EXCEPT ![f] = Append(@, feWave[f])]
    /\ UNCHANGED <<status, home, feWave, coord, engine, toEngine, toFront, start, notify>>

\* The update task takes the wave and the running state from the coordinator.
UpdateFront(f) ==
    /\ toFront[f] # <<>>
    /\ feWave' = [feWave EXCEPT ![f] = Head(toFront[f]).wave]
    /\ feRunning' = [feRunning EXCEPT ![f] = Head(toFront[f]).running]
    /\ toFront' = [toFront EXCEPT ![f] = Tail(@)]
    /\ UNCHANGED <<status, home, firstReq, coord, engine, toEngine, toCoord, start, notify>>

-----------------------------------------------------------------------------
(* Coordinator *)

\* Mutant: every notification starts its wave, a late one too.
StartsAlways(w) == TRUE
\* A start_wave notification is stale if that wave is over or runs already.
StartsWave(w) == w > coWave \/ (w = coWave /\ ~coRunning)

CompletesWave(w) == coWave <= w
\* Mutant: the end of a wave is counted twice.
WaveAfterNext(w) == w + 2
NextWave(w) == w + 1

Publish(w, run) ==
    /\ coWave' = w /\ coRunning' = run
    /\ toFront' = [f \in FrontEnds |-> Append(toFront[f], [wave |-> w, running |-> run])]

\* _send_start_wave
SendStartWave(w, excluded) ==
    start' = [e \in Engines |-> Append(start[e], [wave |-> w, exclude |-> excluded])]

\* A front end has sent a request while it thought that the engines pause.  The
\* engine it names is not excluded, whatever the wave: the front end names it by
\* its socket identity, which never equals the index that an engine compares.
CoordFromFront(f) ==
    /\ toCoord[f] # <<>>
    /\ toCoord' = [toCoord EXCEPT ![f] = Tail(@)]
    /\ IF coRunning THEN UNCHANGED <<coord, toFront, start>>
       ELSE Publish(coWave, TRUE) /\ SendStartWave(coWave, None)
    /\ UNCHANGED <<status, home, front, engine, toEngine, notify>>

\* Rank 0 has reported the end of a wave.
CoordWaveComplete(e) ==
    /\ notify[e] # <<>> /\ Head(notify[e]).type = "complete"
    /\ notify' = [notify EXCEPT ![e] = Tail(@)]
    /\ IF CompletesWave(Head(notify[e]).wave)
          THEN Publish(NextWave(Head(notify[e]).wave), FALSE)
          ELSE UNCHANGED <<coord, toFront>>
    /\ UNCHANGED <<status, home, front, engine, toEngine, toCoord, start>>

\* An engine got a request of a wave that is over: the next one must begin.
CoordStartWave(e) ==
    /\ notify[e] # <<>> /\ Head(notify[e]).type = "start"
    /\ notify' = [notify EXCEPT ![e] = Tail(@)]
    /\ IF StartsWave(Head(notify[e]).wave)
          THEN Publish(Head(notify[e]).wave, TRUE) /\ SendStartWave(Head(notify[e]).wave, e)
          ELSE UNCHANGED <<coord, toFront, start>>
    /\ UNCHANGED <<status, home, front, engine, toEngine, toCoord>>

\* The poll times out and the state is published with the load statistics.
\* Bound: not before the front ends have read what was published.
CoordPublishStats ==
    /\ \A f \in FrontEnds : toFront[f] = <<>>
    /\ \E f \in FrontEnds : <<feWave[f], feRunning[f]>> # <<coWave, coRunning>>
    /\ Publish(coWave, coRunning)
    /\ UNCHANGED <<status, home, front, engine, toEngine, toCoord, start, notify>>

-----------------------------------------------------------------------------
(* Engines *)

Unfinished(e) == DOMAIN left[e] # {}
HasRequests(e) == Unfinished(e) \/ ~reported[e]

\* Mutant: the coordinator is not told of a request of a wave that is over.
NeverStale(e, w) == FALSE
\* A request of a wave that is over reaches an engine that has paused since.
IsStale(e, w) == w < wave[e] /\ ~running[e]

Without(e, r) == [s \in DOMAIN left[e] \ {r} |-> left[e][s]]
With(e, r) == [s \in DOMAIN left[e] \cup {r} |-> IF s = r THEN Steps ELSE left[e][s]]

EngineAdd(f, e) ==
    /\ pc[e] = "input"
    /\ toEngine[f][e] # <<>> /\ Head(toEngine[f][e]).type = "add"
    /\ LET m == Head(toEngine[f][e])
       IN  /\ wave' = [wave EXCEPT ![e] = IF m.wave > @ THEN m.wave ELSE @]
           /\ notify' = [notify EXCEPT ![e] =
                  IF IsStale(e, m.wave) THEN Append(@, [type |-> "start", wave |-> wave[e]])
                                        ELSE @]
           /\ left' = [left EXCEPT ![e] = With(e, m.req)]
    /\ toEngine' = [toEngine EXCEPT ![f][e] = Tail(@)]
    /\ UNCHANGED <<status, home, front, coord, running, counter, reported, pc,
                   toCoord, toFront, start>>

\* finish_requests: an abort that comes too late finds nothing.
EngineAbort(f, e) ==
    /\ pc[e] = "input"
    /\ toEngine[f][e] # <<>> /\ Head(toEngine[f][e]).type = "abort"
    /\ LET r == Head(toEngine[f][e]).req
       IN  /\ left' = [left EXCEPT ![e] = Without(e, r)]
           /\ reported' = [reported EXCEPT ![e] = @ /\ r \notin DOMAIN left[e]]
           /\ status' = [status EXCEPT ![r] = "done"]
    /\ toEngine' = [toEngine EXCEPT ![f][e] = Tail(@)]
    /\ UNCHANGED <<home, front, coord, wave, running, counter, pc,
                   toCoord, toFront, start, notify>>

\* Mutant: a wake-up call for a wave that is over starts it again.
HeedsAny(e, m) == m.exclude # e
Heeds(e, m) == m.exclude # e /\ m.wave >= wave[e]

EngineStartWave(e) ==
    /\ pc[e] = "input"
    /\ start[e] # <<>>
    /\ LET m == Head(start[e])
       IN  /\ wave' = [wave EXCEPT ![e] = IF Heeds(e, m) THEN m.wave ELSE @]
           /\ running' = [running EXCEPT ![e] = @ \/ Heeds(e, m)]
    /\ start' = [start EXCEPT ![e] = Tail(@)]
    /\ UNCHANGED <<status, home, front, coord, counter, left, reported, pc,
                   toEngine, toCoord, toFront, notify>>

\* step() with nothing but finished requests to report runs no forward pass; an
\* engine that does not run goes back to its input.  Otherwise the engine joins
\* the forward pass, with its batch or with a dummy one.
EngineStep(e) ==
    /\ pc[e] = "input"
    /\ running[e] \/ HasRequests(e)
    /\ reported' = [reported EXCEPT ![e] = TRUE]
    /\ pc' = [pc EXCEPT ![e] = IF Unfinished(e) \/ running[e] THEN "forward" ELSE "input"]
    /\ UNCHANGED <<status, home, front, coord, wave, running, counter, left, channels>>

\* Mutant: a request runs one pass more than it has left.
FinishesLate(e) == {r \in DOMAIN left[e] : left[e][r] = 0}
Finishes(e) == {r \in DOMAIN left[e] : left[e][r] = 1}

\* Mutant: every step is a finish-sync for the engines that have requests.
SyncWhenBusy(e) == (counter[e] + 1) % SyncEvery = 0 \/ Unfinished(e)
\* _has_global_unfinished_reqs synchronizes every SyncEvery forward passes.
Syncs(e) == (counter[e] + 1) % SyncEvery = 0

\* All engines do the forward pass, get their outputs and go on.
Forward ==
    /\ \A e \in Engines : pc[e] = "forward"
    /\ status' = [r \in Requests |->
                     IF \E e \in Engines : r \in Finishes(e) THEN "done" ELSE status[r]]
    /\ reported' = [e \in Engines |-> reported[e] /\ Finishes(e) = {}]
    /\ left' = [e \in Engines |->
                  [r \in DOMAIN left[e] \ Finishes(e) |-> left[e][r] - 1]]
    /\ counter' = [e \in Engines |-> counter[e] + 1]
    /\ running' = [e \in Engines |-> Syncs(e) => running[e]]
    /\ pc' = [e \in Engines |-> IF Syncs(e) THEN "reduce" ELSE "input"]
    /\ UNCHANGED <<home, front, coord, wave, channels>>

AnyUnfinished == \E e \in Engines : Unfinished(e)

\* The all-reduce of has_unfinished_dp: the wave goes on, or all engines pause.
Reduce ==
    /\ \A e \in Engines : pc[e] = "reduce"
    /\ running' = [e \in Engines |-> AnyUnfinished]
    /\ pc' = [e \in Engines |-> "input"]
    /\ IF AnyUnfinished THEN UNCHANGED <<wave, counter, notify>>
       ELSE /\ notify' = [notify EXCEPT ![Rank0] =
                              Append(@, [type |-> "complete", wave |-> wave[Rank0]])]
            /\ wave' = [e \in Engines |-> wave[e] + 1]
            /\ counter' = [e \in Engines |-> 0]
    /\ UNCHANGED <<status, home, front, coord, left, reported,
                   toEngine, toCoord, toFront, start>>

-----------------------------------------------------------------------------
FrontEnd(f) == SendFirstReq(f) \/ UpdateFront(f)
Coordinator ==
    \/ \E f \in FrontEnds : CoordFromFront(f)
    \/ \E e \in Engines : CoordWaveComplete(e) \/ CoordStartWave(e)
    \/ CoordPublishStats
EngineInput(f, e) == EngineAdd(f, e) \/ EngineAbort(f, e)

Clients == \E f \in FrontEnds, e \in Engines, r \in Requests :
               AddRequest(f, e, r) \/ AbortRequest(f, e, r)

\* Everything has been answered and nothing is on its way.
Quiet ==
    /\ \A r \in Requests : status[r] = "done"
    /\ UNCHANGED vars

Next ==
    \/ Clients
    \/ \E f \in FrontEnds : FrontEnd(f)
    \/ Coordinator
    \/ \E f \in FrontEnds, e \in Engines : EngineInput(f, e)
    \/ \E e \in Engines : EngineStartWave(e) \/ EngineStep(e)
    \/ Forward \/ Reduce
    \/ Quiet

\* Every process goes on as long as it can.  An engine empties its input queue
\* before every step, so no message waits for ever at an engine that comes back
\* to its input again and again.
Fairness ==
    /\ \A f \in FrontEnds : WF_vars(FrontEnd(f))
    /\ WF_vars(Coordinator)
    /\ \A f \in FrontEnds, e \in Engines : SF_vars(EngineInput(f, e))
    /\ \A e \in Engines : SF_vars(EngineStartWave(e)) /\ WF_vars(EngineStep(e))
    /\ WF_vars(Forward) /\ WF_vars(Reduce)

Spec == Init /\ [][Next]_vars
FairSpec == Spec /\ Fairness

-----------------------------------------------------------------------------
TypeOK ==
    /\ status \in [Requests -> {"new", "sent", "aborting", "done"}]
    /\ feWave \in [FrontEnds -> Nat] /\ feRunning \in [FrontEnds -> BOOLEAN]
    /\ firstReq \in [FrontEnds -> Nat]
    /\ coWave \in Nat /\ coRunning \in BOOLEAN
    /\ wave \in [Engines -> Nat] /\ running \in [Engines -> BOOLEAN]
    /\ counter \in [Engines -> Nat] /\ reported \in [Engines -> BOOLEAN]
    /\ pc \in [Engines -> {"input", "forward", "reduce"}]
    /\ \A e \in Engines : \A r \in DOMAIN left[e] : left[e][r] \in 1..Steps

\* The engines never wait for each other in different collectives, which would
\* block all of them for good.
CollectivesAgree ==
    ~ \E d, e \in Engines : pc[d] = "forward" /\ pc[e] = "reduce"

\* Whatever was delayed, the engines finish a wave with one wave number.
WavesAgree ==
    (\A e \in Engines : pc[e] = "reduce") => \A d, e \in Engines : wave[d] = wave[e]

\* The coordinator and the front ends lag behind the engines, never ahead of
\* them: a wave number is only told after every engine has reached it.
NeverAhead ==
    /\ \A e \in Engines : coWave <= wave[e]
    /\ \A f \in FrontEnds : feWave[f] <= coWave

\* Whatever is delayed or overtaken, the engines meet in one collective of one
\* wave, and nobody has heard of a wave that they have not reached.
EnginesAgree == TypeOK /\ CollectivesAgree /\ WavesAgree /\ NeverAhead

\* No late, duplicated or overtaken message takes a wave number back, in an
\* engine, in the coordinator or in a front end.
WavesMonotone ==
    [][/\ coWave' >= coWave
       /\ \A e \in Engines : wave'[e] >= wave[e]
       /\ \A f \in FrontEnds : feWave'[f] >= feWave[f]]_vars

\* An abort can strand the engines: the one that asked for a wave is excluded from
\* the wake-up call, and no longer runs when its request is gone.
NoAborts == [](\A r \in Requests : status[r] # "aborting")

\* No engine is left alone in a forward pass: unless a request is aborted the
\* others are woken up, in whatever order requests, wake-up calls and reports
\* arrive.
ForwardCompletes == NoAborts => []<>(\A e \in Engines : pc[e] = "input")

\* Every request that a front end has sent is answered, unless one is aborted.
EventuallyDone == NoAborts => []<>(\A r \in Requests : status[r] \in {"new", "done"})

\* Without aborts the engines always come back from the wave they are in, and
\* every request is answered.
EveryWaveEnds == ForwardCompletes /\ EventuallyDone
=============================================================================
