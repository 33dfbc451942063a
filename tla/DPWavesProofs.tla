----------------------------- MODULE DPWavesProofs -----------------------------
(***************************************************************************)
(* The engines meet in one collective of one wave, and no wave number is   *)
(* ever taken back, for every number of engines, front ends and requests   *)
(* and however late the messages are.                                      *)
(***************************************************************************)
EXTENDS DPWaves, TLAPS

EngineMessage == [type : {"add", "abort"}, req : Requests, wave : Nat]
FrontMessage == [wave : Nat, running : BOOLEAN]
StartMessage == [wave : Nat, exclude : Engines \cup {None}]
Notification == [type : {"complete", "start"}, wave : Nat]

\* What the connections carry.
Typed ==
    /\ DOMAIN left = Engines
    /\ toEngine \in [FrontEnds -> [Engines -> Seq(EngineMessage)]]
    /\ toCoord \in [FrontEnds -> Seq(Nat)]
    /\ toFront \in [FrontEnds -> Seq(FrontMessage)]
    /\ start \in [Engines -> Seq(StartMessage)]
    /\ notify \in [Engines -> Seq(Notification)]

\* All engines are in one wave, have done the same number of forward passes, and
\* stand in the all-reduce together.
InStep ==
    /\ \A d, e \in Engines : wave[d] = wave[e] /\ counter[d] = counter[e]
    /\ \A d, e \in Engines : pc[d] = "reduce" => pc[e] = "reduce"

\* What is on its way to an engine tells of no wave beyond the coordinator's.
CallsKnown ==
    /\ \A f \in FrontEnds, e \in Engines :
          \A i \in 1..Len(toEngine[f][e]) : toEngine[f][e][i].wave <= coWave
    /\ \A e \in Engines : \A i \in 1..Len(start[e]) : start[e][i].wave <= coWave

\* What is on its way to a front end comes in the order of the waves, none of
\* them before the one it knows.
UpdatesOrdered ==
    \A f \in FrontEnds :
       /\ \A i \in 1..Len(toFront[f]) :
             feWave[f] <= toFront[f][i].wave /\ toFront[f][i].wave <= coWave
       /\ \A i, j \in 1..Len(toFront[f]) :
             i <= j => toFront[f][i].wave <= toFront[f][j].wave

\* What is on its way to the coordinator: a wave that has been reported as
\* complete is over, one that is asked for has been reached.
ReportsTrue ==
    \A e \in Engines : \A i \in 1..Len(notify[e]) :
       IF notify[e][i].type = "complete" THEN notify[e][i].wave < wave[e]
                                         ELSE notify[e][i].wave <= wave[e]

IInv == TypeOK /\ Typed /\ InStep /\ NeverAhead /\ CallsKnown /\ UpdatesOrdered /\ ReportsTrue

-----------------------------------------------------------------------------
(* The connections are first-in first-out queues. *)

\* Appending to a queue: what was in it stays, at its place.
LEMMA Appended ==
    ASSUME NEW M, NEW s \in Seq(M), NEW m \in M
    PROVE  /\ Append(s, m) \in Seq(M)
           /\ Len(Append(s, m)) = Len(s) + 1 /\ Len(s) \in Nat
           /\ \A i \in 1..Len(Append(s, m)) :
                 \/ i \in 1..Len(s) /\ Append(s, m)[i] = s[i]
                 \/ i = Len(s) + 1 /\ Append(s, m)[i] = m
  OBVIOUS

\* Taking the head of a queue: the others move up by one place.
LEMMA Taken ==
    ASSUME NEW M, NEW s \in Seq(M), s # <<>>
    PROVE  /\ Tail(s) \in Seq(M) /\ Head(s) \in M
           /\ 1 \in 1..Len(s) /\ Head(s) = s[1]
           /\ Len(s) \in Nat
           /\ \A i \in 1..Len(Tail(s)) : i + 1 \in 1..Len(s) /\ Tail(s)[i] = s[i + 1]
  OBVIOUS

\* At the start nothing is on its way and nobody has left wave 0.
LEMMA InitIInv == Init => IInv
<1> SUFFICES ASSUME Init PROVE IInv
  OBVIOUS
<1>1. TypeOK
  <2>1. \A e \in Engines : \A r \in DOMAIN left[e] : left[e][r] \in 1..Steps
    BY DEF Init
  <2>2. /\ status \in [Requests -> {"new", "sent", "aborting", "done"}]
        /\ pc \in [Engines -> {"input", "forward", "reduce"}]
    BY DEF Init
  <2>3. /\ running \in [Engines -> BOOLEAN] /\ reported \in [Engines -> BOOLEAN]
        /\ feRunning \in [FrontEnds -> BOOLEAN] /\ coRunning \in BOOLEAN
    BY DEF Init
  <2> QED
    BY <2>1, <2>2, <2>3 DEF Init, TypeOK
<1>2. Typed
  BY DEF Init, Typed
<1>3. InStep /\ NeverAhead
  BY DEF Init, InStep, NeverAhead
<1>4. CallsKnown /\ UpdatesOrdered /\ ReportsTrue
  BY DEF Init, CallsKnown, UpdatesOrdered, ReportsTrue
<1> QED
  BY <1>1, <1>2, <1>3, <1>4 DEF IInv

-----------------------------------------------------------------------------
(* Clients and front ends *)

\* A front end sends to an engine: the message names a wave that it knows, or none.
LEMMA SendKeeps ==
    ASSUME IInv, NEW f \in FrontEnds, NEW e \in Engines, NEW r \in Requests,
           AddRequest(f, e, r) \/ AbortRequest(f, e, r)
    PROVE  IInv'
<1> USE DEF IInv, front, coord, engine
<1>1. PICK m \in EngineMessage : /\ m.wave <= coWave
                                 /\ toEngine' = [toEngine EXCEPT ![f][e] = Append(@, m)]
  <2>1. CASE AddRequest(f, e, r)
    <3>1. [type |-> "add", req |-> r, wave |-> feWave[f]] \in EngineMessage
      BY DEF EngineMessage, TypeOK
    <3>2. feWave[f] <= coWave
      BY DEF NeverAhead
    <3> QED
      BY <2>1, <3>1, <3>2 DEF AddRequest
  <2>2. CASE AbortRequest(f, e, r)
    <3>1. [type |-> "abort", req |-> r, wave |-> 0] \in EngineMessage
      BY DEF EngineMessage
    <3>2. 0 <= coWave
      BY DEF TypeOK
    <3> QED
      BY <2>2, <3>1, <3>2 DEF AbortRequest
  <2> QED
    BY <2>1, <2>2
<1>2. UNCHANGED <<feWave, feRunning, coWave, coRunning, wave, running, counter, left,
                  reported, pc, toCoord, toFront, start, notify>>
  BY DEF AddRequest, AbortRequest
<1>3. TypeOK'
  <2>1. status' \in [Requests -> {"new", "sent", "aborting", "done"}]
    BY DEF AddRequest, AbortRequest, TypeOK
  <2>2. firstReq' \in [FrontEnds -> Nat]
    <3>1. firstReq[f] \in Nat /\ firstReq[f] + 1 \in Nat
      BY DEF TypeOK
    <3>2. CASE AddRequest(f, e, r)
      <4>1. \/ firstReq' = [firstReq EXCEPT ![f] = firstReq[f]]
            \/ firstReq' = [firstReq EXCEPT ![f] = firstReq[f] + 1]
        BY <3>2 DEF AddRequest
      <4> QED
        BY <3>1, <4>1 DEF TypeOK
    <3>3. CASE AbortRequest(f, e, r)
      BY <3>3 DEF AbortRequest, TypeOK
    <3> QED
      BY <3>2, <3>3
  <2> QED
    BY <1>2, <2>1, <2>2 DEF TypeOK
<1> DEFINE q == toEngine[f][e]
<1>4. q \in Seq(EngineMessage)
  BY DEF Typed
<1>5. /\ Append(q, m) \in Seq(EngineMessage)
      /\ \A i \in 1..Len(Append(q, m)) :
            \/ i \in 1..Len(q) /\ Append(q, m)[i] = q[i]
            \/ i = Len(q) + 1 /\ Append(q, m)[i] = m
  BY <1>4, Appended
<1>6. \A g \in FrontEnds, d \in Engines :
         toEngine'[g][d] = IF g = f /\ d = e THEN Append(q, m) ELSE toEngine[g][d]
  BY <1>1 DEF Typed
<1>7. Typed'
  <2>1. toEngine' \in [FrontEnds -> [Engines -> Seq(EngineMessage)]]
    BY <1>1, <1>5 DEF Typed
  <2> QED
    BY <1>2, <2>1 DEF Typed
<1>8. InStep' /\ NeverAhead' /\ UpdatesOrdered' /\ ReportsTrue'
  BY <1>2 DEF InStep, NeverAhead, UpdatesOrdered, ReportsTrue
<1>9. CallsKnown'
  <2>1. \A i \in 1..Len(q) : q[i].wave <= coWave
    BY DEF CallsKnown
  <2> HIDE DEF q
  <2>2. \A i \in 1..Len(Append(q, m)) : Append(q, m)[i].wave <= coWave
    BY <1>1, <1>5, <2>1
  <2>3. ASSUME NEW g \in FrontEnds, NEW d \in Engines,
               NEW i \in 1..Len(toEngine'[g][d])
        PROVE  toEngine'[g][d][i].wave <= coWave
    <3>1. CASE g = f /\ d = e
      BY <1>6, <2>2, <3>1
    <3>2. CASE ~(g = f /\ d = e)
      BY <1>6, <3>2 DEF CallsKnown
    <3> QED
      BY <3>1, <3>2
  <2> QED
    BY <1>2, <2>3 DEF CallsKnown
<1> QED
  BY <1>3, <1>7, <1>8, <1>9

\* The update task of a front end: it passes a first request on, or takes the
\* oldest update, whose wave is not before its own.
LEMMA FrontKeeps ==
    ASSUME IInv, NEW f \in FrontEnds, FrontEnd(f)
    PROVE  IInv' /\ \A g \in FrontEnds : feWave'[g] >= feWave[g]
<1> USE DEF IInv, front, coord, engine
<1>1. CASE SendFirstReq(f)
  <2>1. UNCHANGED <<status, feWave, coWave, coRunning, wave, running, counter, left,
                    reported, pc, toEngine, toFront, start, notify>>
    BY <1>1 DEF SendFirstReq
  <2>2. TypeOK'
    <3>1. firstReq' \in [FrontEnds -> Nat]
      BY <1>1 DEF SendFirstReq, TypeOK
    <3>2. feRunning' \in [FrontEnds -> BOOLEAN]
      BY <1>1 DEF SendFirstReq, TypeOK
    <3> QED
      BY <2>1, <3>1, <3>2 DEF TypeOK
  <2>3. Typed'
    <3>1. toCoord' \in [FrontEnds -> Seq(Nat)]
      BY <1>1 DEF SendFirstReq, Typed, TypeOK
    <3> QED
      BY <2>1, <3>1 DEF Typed
  <2>4. InStep' /\ NeverAhead' /\ CallsKnown' /\ UpdatesOrdered' /\ ReportsTrue'
    BY <2>1 DEF InStep, NeverAhead, CallsKnown, UpdatesOrdered, ReportsTrue
  <2>5. \A g \in FrontEnds : feWave'[g] >= feWave[g]
    BY <2>1 DEF TypeOK
  <2> QED
    BY <2>2, <2>3, <2>4, <2>5
<1>2. CASE UpdateFront(f)
  <2> DEFINE q == toFront[f]
  <2>1. UNCHANGED <<status, firstReq, coWave, coRunning, wave, running, counter, left,
                    reported, pc, toEngine, toCoord, start, notify>>
    BY <1>2 DEF UpdateFront
  <2>2. q \in Seq(FrontMessage) /\ q # <<>>
    BY <1>2 DEF Typed, UpdateFront
  <2>3. /\ Tail(q) \in Seq(FrontMessage) /\ Head(q) \in FrontMessage
        /\ 1 \in 1..Len(q) /\ Head(q) = q[1] /\ Len(q) \in Nat
        /\ \A i \in 1..Len(Tail(q)) : i + 1 \in 1..Len(q) /\ Tail(q)[i] = q[i + 1]
    BY <2>2, Taken
  <2>4. /\ feWave' = [feWave EXCEPT ![f] = Head(q).wave]
        /\ feRunning' = [feRunning EXCEPT ![f] = Head(q).running]
        /\ toFront' = [toFront EXCEPT ![f] = Tail(q)]
    BY <1>2 DEF UpdateFront
  <2>5. /\ \A i \in 1..Len(q) : feWave[f] <= q[i].wave /\ q[i].wave <= coWave
        /\ \A i, j \in 1..Len(q) : i <= j => q[i].wave <= q[j].wave
    BY DEF UpdatesOrdered
  <2> HIDE DEF q
  <2>6. Head(q).wave \in Nat /\ Head(q).running \in BOOLEAN
    BY <2>3 DEF FrontMessage
  <2>7. /\ feWave[f] <= Head(q).wave /\ Head(q).wave <= coWave
        /\ \A i \in 1..Len(Tail(q)) : /\ Head(q).wave <= Tail(q)[i].wave
                                      /\ Tail(q)[i].wave <= coWave
    BY <2>3, <2>5
  <2>8. \A i, j \in 1..Len(Tail(q)) : i <= j => Tail(q)[i].wave <= Tail(q)[j].wave
    BY <2>3, <2>5
  <2>9. TypeOK'
    BY <2>1, <2>4, <2>6 DEF TypeOK
  <2>10. Typed'
    BY <2>1, <2>3, <2>4 DEF Typed
  <2>11. InStep' /\ CallsKnown' /\ ReportsTrue'
    BY <2>1 DEF InStep, CallsKnown, ReportsTrue
  <2>12. NeverAhead'
    BY <2>1, <2>4, <2>7 DEF NeverAhead, TypeOK
  <2>13. UpdatesOrdered'
    <3> SUFFICES ASSUME NEW g \in FrontEnds
                 PROVE  /\ \A i \in 1..Len(toFront'[g]) : /\ feWave'[g] <= toFront'[g][i].wave
                                                          /\ toFront'[g][i].wave <= coWave
                        /\ \A i, j \in 1..Len(toFront'[g]) :
                              i <= j => toFront'[g][i].wave <= toFront'[g][j].wave
      BY <2>1 DEF UpdatesOrdered
    <3>1. CASE g = f
      <4>1. toFront'[g] = Tail(q) /\ feWave'[g] = Head(q).wave
        BY <2>4, <3>1 DEF Typed, TypeOK
      <4> QED
        BY <4>1, <2>7, <2>8
    <3>2. CASE g # f
      <4>1. toFront'[g] = toFront[g] /\ feWave'[g] = feWave[g]
        BY <2>4, <3>2 DEF Typed, TypeOK
      <4> QED
        BY <4>1 DEF UpdatesOrdered
    <3> QED
      BY <3>1, <3>2
  <2>14. \A g \in FrontEnds : feWave'[g] >= feWave[g]
    BY <2>4, <2>6, <2>7 DEF TypeOK
  <2> QED
    BY <2>9, <2>10, <2>11, <2>12, <2>13, <2>14
<1> QED
  BY <1>1, <1>2 DEF FrontEnd

-----------------------------------------------------------------------------
(* Coordinator *)

\* A wave that the coordinator publishes is its own or a later one that all
\* engines have reached; what it tells is then in order and known.
LEMMA PublishKeeps ==
    ASSUME IInv, NEW w \in Nat, NEW b \in BOOLEAN, Publish(w, b),
           coWave <= w, \A e \in Engines : w <= wave[e],
           UNCHANGED <<status, front, engine, toEngine>>
    PROVE  /\ TypeOK' /\ InStep' /\ NeverAhead' /\ UpdatesOrdered'
           /\ toFront' \in [FrontEnds -> Seq(FrontMessage)]
           /\ \A f \in FrontEnds, e \in Engines :
                 \A i \in 1..Len(toEngine'[f][e]) : toEngine'[f][e][i].wave <= coWave'
           /\ coWave' >= coWave
<1> USE DEF IInv, front, engine
<1>1. coWave' = w /\ coRunning' = b
  BY DEF Publish
<1>2. TypeOK'
  BY <1>1 DEF TypeOK
<1>3. InStep' /\ NeverAhead'
  BY <1>1 DEF InStep, NeverAhead, TypeOK
<1> DEFINE m == [wave |-> w, running |-> b]
<1>4. toFront' = [f \in FrontEnds |-> Append(toFront[f], m)]
  BY DEF Publish
<1>5. m \in FrontMessage /\ m.wave = w
  BY DEF FrontMessage
<1> HIDE DEF m
<1>6. ASSUME NEW f \in FrontEnds
      PROVE  /\ toFront[f] \in Seq(FrontMessage)
             /\ toFront'[f] = Append(toFront[f], m)
             /\ Append(toFront[f], m) \in Seq(FrontMessage)
             /\ Len(Append(toFront[f], m)) = Len(toFront[f]) + 1 /\ Len(toFront[f]) \in Nat
             /\ \A i \in 1..Len(Append(toFront[f], m)) :
                   \/ i \in 1..Len(toFront[f]) /\ Append(toFront[f], m)[i] = toFront[f][i]
                   \/ i = Len(toFront[f]) + 1 /\ Append(toFront[f], m)[i] = m
  <2>1. toFront[f] \in Seq(FrontMessage) /\ toFront'[f] = Append(toFront[f], m)
    BY <1>4 DEF Typed
  <2> QED
    BY <1>5, <2>1, Appended
<1>7. toFront' \in [FrontEnds -> Seq(FrontMessage)]
  BY <1>4, <1>6
<1>8. UpdatesOrdered'
  <2> SUFFICES ASSUME NEW f \in FrontEnds
               PROVE  /\ \A i \in 1..Len(toFront'[f]) : /\ feWave[f] <= toFront'[f][i].wave
                                                        /\ toFront'[f][i].wave <= w
                      /\ \A i, j \in 1..Len(toFront'[f]) :
                            i <= j => toFront'[f][i].wave <= toFront'[f][j].wave
    BY <1>1 DEF UpdatesOrdered
  <2> DEFINE q == toFront[f]
             p == Append(q, m)
  <2>1. /\ \A i \in 1..Len(q) : feWave[f] <= q[i].wave /\ q[i].wave <= coWave
        /\ \A i, j \in 1..Len(q) : i <= j => q[i].wave <= q[j].wave
    BY DEF UpdatesOrdered
  <2>2. feWave[f] <= coWave /\ feWave[f] \in Nat /\ coWave \in Nat
    BY DEF NeverAhead, TypeOK
  <2>3. \A i \in 1..Len(q) : q[i].wave \in Nat
    <3>1. q \in Seq(FrontMessage)
      BY <1>6
    <3>2. \A i \in 1..Len(q) : q[i] \in FrontMessage
      BY <3>1
    <3> QED
      BY <3>2 DEF FrontMessage
  <2>4. /\ toFront'[f] = p /\ Len(p) = Len(q) + 1 /\ Len(q) \in Nat
        /\ \A i \in 1..Len(p) : \/ i \in 1..Len(q) /\ p[i] = q[i]
                                \/ i = Len(q) + 1 /\ p[i] = m
    BY <1>6
  <2> HIDE DEF q, p
  <2>5. \A i \in 1..Len(p) : feWave[f] <= p[i].wave /\ p[i].wave <= w
    BY <1>5, <2>1, <2>2, <2>3, <2>4
  <2>6. \A i, j \in 1..Len(p) : i <= j => p[i].wave <= p[j].wave
    BY <1>5, <2>1, <2>2, <2>3, <2>4
  <2> QED
    BY <2>4, <2>5, <2>6
<1>9. ASSUME NEW f \in FrontEnds, NEW e \in Engines, NEW i \in 1..Len(toEngine'[f][e])
      PROVE  toEngine'[f][e][i].wave <= coWave'
  <2>1. toEngine' = toEngine
    OBVIOUS
  <2>2. toEngine[f][e][i].wave <= coWave
    BY <2>1 DEF CallsKnown
  <2>3. toEngine[f][e][i] \in EngineMessage
    <3>1. toEngine[f][e] \in Seq(EngineMessage)
      BY DEF Typed
    <3> QED
      BY <2>1, <3>1
  <2>4. toEngine[f][e][i].wave \in Nat
    BY <2>3 DEF EngineMessage
  <2> QED
    BY <1>1, <2>1, <2>2, <2>4 DEF TypeOK
<1>10. coWave' >= coWave
  BY <1>1 DEF TypeOK
<1> QED
  BY <1>2, <1>3, <1>7, <1>8, <1>9, <1>10

\* The wake-up calls name the wave that the coordinator has just published.
LEMMA CallsKeep ==
    ASSUME IInv, NEW w \in Nat, NEW x \in Engines \cup {None}, coWave <= w, coWave' = w,
           SendStartWave(w, x)
    PROVE  /\ start' \in [Engines -> Seq(StartMessage)]
           /\ \A e \in Engines : \A i \in 1..Len(start'[e]) : start'[e][i].wave <= coWave'
<1> USE DEF IInv
<1> DEFINE m == [wave |-> w, exclude |-> x]
<1>1. start' = [e \in Engines |-> Append(start[e], m)]
  BY DEF SendStartWave
<1>2. m \in StartMessage /\ m.wave = w
  BY DEF StartMessage
<1> HIDE DEF m
<1>3. ASSUME NEW e \in Engines
      PROVE  /\ Append(start[e], m) \in Seq(StartMessage)
             /\ \A i \in 1..Len(Append(start[e], m)) : Append(start[e], m)[i].wave <= w
  <2> DEFINE q == start[e]
  <2>1. q \in Seq(StartMessage)
    BY DEF Typed
  <2>2. \A i \in 1..Len(q) : q[i].wave <= coWave
    BY DEF CallsKnown
  <2> HIDE DEF q
  <2>3. \A i \in 1..Len(q) : q[i] \in StartMessage
    BY <2>1
  <2>4. \A i \in 1..Len(q) : q[i].wave \in Nat
    BY <2>3 DEF StartMessage
  <2>5. /\ Append(q, m) \in Seq(StartMessage)
        /\ \A i \in 1..Len(Append(q, m)) :
              \/ i \in 1..Len(q) /\ Append(q, m)[i] = q[i]
              \/ i = Len(q) + 1 /\ Append(q, m)[i] = m
    BY <1>2, <2>1, Appended
  <2>6. \A i \in 1..Len(Append(q, m)) : Append(q, m)[i].wave <= w
    BY <1>2, <2>2, <2>4, <2>5 DEF TypeOK
  <2> QED
    BY <2>5, <2>6 DEF q
<1> QED
  BY <1>1, <1>3

\* Calls that are on their way stay known when the coordinator goes on.
LEMMA CallsStay ==
    ASSUME IInv, coWave <= coWave', coWave' \in Nat, UNCHANGED start
    PROVE  \A e \in Engines : \A i \in 1..Len(start'[e]) : start'[e][i].wave <= coWave'
<1> USE DEF IInv
<1> SUFFICES ASSUME NEW e \in Engines, NEW i \in 1..Len(start[e])
             PROVE  start[e][i].wave <= coWave'
  OBVIOUS
<1>1. start[e][i].wave <= coWave
  BY DEF CallsKnown
<1>2. start[e] \in Seq(StartMessage)
  BY DEF Typed
<1>3. start[e][i] \in StartMessage
  BY <1>2
<1>4. start[e][i].wave \in Nat
  BY <1>3 DEF StartMessage
<1> QED
  BY <1>1, <1>4 DEF TypeOK

\* The coordinator takes an engine's notification, and the others stay true.
LEMMA NotificationTaken ==
    ASSUME IInv, NEW e \in Engines, notify[e] # <<>>, UNCHANGED wave,
           notify' = [notify EXCEPT ![e] = Tail(@)]
    PROVE  /\ notify' \in [Engines -> Seq(Notification)]
           /\ ReportsTrue'
           /\ Head(notify[e]).wave \in Nat
           /\ IF Head(notify[e]).type = "complete"
                 THEN \A d \in Engines : Head(notify[e]).wave + 1 <= wave[d]
                 ELSE \A d \in Engines : Head(notify[e]).wave <= wave[d]
<1> USE DEF IInv
<1> DEFINE q == notify[e]
<1>1. q \in Seq(Notification) /\ q # <<>>
  BY DEF Typed
<1>2. /\ Tail(q) \in Seq(Notification) /\ Head(q) \in Notification
      /\ 1 \in 1..Len(q) /\ Head(q) = q[1] /\ Len(q) \in Nat
      /\ \A i \in 1..Len(Tail(q)) : i + 1 \in 1..Len(q) /\ Tail(q)[i] = q[i + 1]
  BY <1>1, Taken
<1>3. \A i \in 1..Len(q) : IF q[i].type = "complete" THEN q[i].wave < wave[e]
                                                     ELSE q[i].wave <= wave[e]
  BY DEF ReportsTrue
<1>4. \A d \in Engines : notify'[d] = IF d = e THEN Tail(q) ELSE notify[d]
  BY DEF Typed
<1>5. notify' \in [Engines -> Seq(Notification)]
  BY <1>2 DEF Typed
<1> HIDE DEF q
<1>6. Head(q).wave \in Nat
  BY <1>2 DEF Notification
<1>7. \A i \in 1..Len(Tail(q)) :
         IF Tail(q)[i].type = "complete" THEN Tail(q)[i].wave < wave[e]
                                         ELSE Tail(q)[i].wave <= wave[e]
  BY <1>2, <1>3
<1>8. ReportsTrue'
  <2> SUFFICES ASSUME NEW d \in Engines, NEW i \in 1..Len(notify'[d])
               PROVE  IF notify'[d][i].type = "complete" THEN notify'[d][i].wave < wave[d]
                                                         ELSE notify'[d][i].wave <= wave[d]
    BY DEF ReportsTrue
  <2>1. CASE d = e
    BY <1>4, <1>7, <2>1
  <2>2. CASE d # e
    BY <1>4, <2>2 DEF ReportsTrue
  <2> QED
    BY <2>1, <2>2
<1>9. IF Head(q).type = "complete" THEN \A d \in Engines : Head(q).wave + 1 <= wave[d]
                                   ELSE \A d \in Engines : Head(q).wave <= wave[d]
  <2>1. \A d \in Engines : wave[d] = wave[e] /\ wave[e] \in Nat
    BY DEF InStep, TypeOK
  <2>2. IF Head(q).type = "complete" THEN Head(q).wave < wave[e] ELSE Head(q).wave <= wave[e]
    BY <1>2, <1>3
  <2> QED
    BY <1>6, <2>1, <2>2
<1> QED
  BY <1>5, <1>6, <1>8, <1>9 DEF q

\* The handlers of the coordinator publish only waves that all engines have
\* reached and that are not before its own.
LEMMA CoordinatorKeeps ==
    ASSUME IInv, Coordinator
    PROVE  IInv' /\ coWave' >= coWave
<1> USE DEF IInv, front, engine, coord
<1>0. coWave \in Nat /\ coRunning \in BOOLEAN /\ \A e \in Engines : coWave <= wave[e]
  BY DEF TypeOK, NeverAhead
<1>1. ASSUME NEW f \in FrontEnds, CoordFromFront(f) PROVE IInv' /\ coWave' >= coWave
  <2>1. UNCHANGED <<status, feWave, feRunning, firstReq, wave, running, counter, left,
                    reported, pc, toEngine, notify>>
    BY <1>1 DEF CoordFromFront
  <2>2. toCoord' \in [FrontEnds -> Seq(Nat)]
    BY <1>1 DEF CoordFromFront, Typed
  <2>3. ReportsTrue'
    BY <2>1 DEF ReportsTrue
  <2>4. CASE coRunning
    <3>1. UNCHANGED <<coWave, coRunning, toFront, start>>
      BY <1>1, <2>4 DEF CoordFromFront
    <3>2. TypeOK'
      BY <2>1, <3>1 DEF TypeOK
    <3>3. Typed'
      BY <2>1, <2>2, <3>1 DEF Typed
    <3>4. InStep' /\ NeverAhead' /\ CallsKnown' /\ UpdatesOrdered'
      BY <2>1, <3>1 DEF InStep, NeverAhead, CallsKnown, UpdatesOrdered
    <3> QED
      BY <1>0, <2>3, <3>1, <3>2, <3>3, <3>4
  <2>5. CASE ~coRunning
    <3>1. Publish(coWave, TRUE) /\ SendStartWave(coWave, None) /\ coWave' = coWave
      BY <1>1, <2>5 DEF CoordFromFront, Publish
    <3>2. /\ TypeOK' /\ InStep' /\ NeverAhead' /\ UpdatesOrdered'
          /\ toFront' \in [FrontEnds -> Seq(FrontMessage)]
          /\ \A g \in FrontEnds, e \in Engines :
                 \A i \in 1..Len(toEngine'[g][e]) : toEngine'[g][e][i].wave <= coWave'
      <4>1. TRUE \in BOOLEAN /\ coWave <= coWave
        BY <1>0
      <4> QED
        BY <1>0, <2>1, <3>1, <4>1, PublishKeeps
    <3>3. /\ start' \in [Engines -> Seq(StartMessage)]
          /\ \A e \in Engines : \A i \in 1..Len(start'[e]) : start'[e][i].wave <= coWave'
      BY <1>0, <3>1, CallsKeep
    <3>4. Typed'
      BY <2>1, <2>2, <3>2, <3>3 DEF Typed
    <3>5. CallsKnown'
      BY <3>2, <3>3 DEF CallsKnown
    <3> QED
      BY <1>0, <2>3, <3>1, <3>2, <3>4, <3>5
  <2> QED
    BY <2>4, <2>5
<1>2. ASSUME NEW e \in Engines, CoordWaveComplete(e) PROVE IInv' /\ coWave' >= coWave
  <2> DEFINE w == Head(notify[e]).wave
  <2>1. UNCHANGED <<status, feWave, feRunning, firstReq, wave, running, counter, left,
                    reported, pc, toEngine, toCoord, start>>
    BY <1>2 DEF CoordWaveComplete
  <2>2. /\ notify' \in [Engines -> Seq(Notification)] /\ ReportsTrue'
        /\ w \in Nat /\ \A d \in Engines : w + 1 <= wave[d]
    BY <1>2, NotificationTaken DEF CoordWaveComplete
  <2> HIDE DEF w
  <2>3. CASE CompletesWave(w)
    <3>1. Publish(w + 1, FALSE) /\ coWave <= w
      BY <1>2, <2>3 DEF CoordWaveComplete, NextWave, CompletesWave, w
    <3>2. w + 1 \in Nat /\ coWave <= w + 1
      BY <1>0, <2>2, <3>1
    <3>3. /\ TypeOK' /\ InStep' /\ NeverAhead' /\ UpdatesOrdered'
          /\ toFront' \in [FrontEnds -> Seq(FrontMessage)]
          /\ \A g \in FrontEnds, d \in Engines :
                 \A i \in 1..Len(toEngine'[g][d]) : toEngine'[g][d][i].wave <= coWave'
          /\ coWave' >= coWave
      BY <2>1, <2>2, <3>1, <3>2, PublishKeeps
    <3>4. coWave' = w + 1
      BY <3>1 DEF Publish
    <3>5. \A d \in Engines : \A i \in 1..Len(start'[d]) : start'[d][i].wave <= coWave'
      BY <2>1, <3>2, <3>4, CallsStay
    <3>6. Typed'
      BY <2>1, <2>2, <3>3 DEF Typed
    <3>7. CallsKnown'
      BY <3>3, <3>5 DEF CallsKnown
    <3> QED
      BY <2>2, <3>3, <3>6, <3>7
  <2>4. CASE ~CompletesWave(w)
    <3>1. UNCHANGED <<coWave, coRunning, toFront>>
      BY <1>2, <2>4 DEF CoordWaveComplete, w
    <3>2. TypeOK'
      BY <2>1, <3>1 DEF TypeOK
    <3>3. Typed'
      BY <2>1, <2>2, <3>1 DEF Typed
    <3>4. InStep' /\ NeverAhead' /\ CallsKnown' /\ UpdatesOrdered'
      BY <2>1, <3>1 DEF InStep, NeverAhead, CallsKnown, UpdatesOrdered
    <3> QED
      BY <1>0, <2>2, <3>1, <3>2, <3>3, <3>4
  <2> QED
    BY <2>3, <2>4
<1>3. ASSUME NEW e \in Engines, CoordStartWave(e) PROVE IInv' /\ coWave' >= coWave
  <2> DEFINE w == Head(notify[e]).wave
  <2>1. UNCHANGED <<status, feWave, feRunning, firstReq, wave, running, counter, left,
                    reported, pc, toEngine, toCoord>>
    BY <1>3 DEF CoordStartWave
  <2>2. /\ notify' \in [Engines -> Seq(Notification)] /\ ReportsTrue'
        /\ w \in Nat /\ \A d \in Engines : w <= wave[d]
    BY <1>3, NotificationTaken DEF CoordStartWave
  <2> HIDE DEF w
  <2>3. CASE StartsWave(w)
    <3>0. coWave <= w
      BY <1>0, <2>2, <2>3 DEF StartsWave
    <3>1. Publish(w, TRUE) /\ SendStartWave(w, e) /\ coWave <= w
      BY <1>3, <2>3, <3>0 DEF CoordStartWave, w
    <3>2. /\ TypeOK' /\ InStep' /\ NeverAhead' /\ UpdatesOrdered'
          /\ toFront' \in [FrontEnds -> Seq(FrontMessage)]
          /\ \A g \in FrontEnds, d \in Engines :
                 \A i \in 1..Len(toEngine'[g][d]) : toEngine'[g][d][i].wave <= coWave'
          /\ coWave' >= coWave
      BY <2>1, <2>2, <3>1, PublishKeeps
    <3>3. coWave' = w
      BY <3>1 DEF Publish
    <3>4. /\ start' \in [Engines -> Seq(StartMessage)]
          /\ \A d \in Engines : \A i \in 1..Len(start'[d]) : start'[d][i].wave <= coWave'
      BY <2>2, <3>1, <3>3, CallsKeep
    <3>5. Typed'
      BY <2>1, <2>2, <3>2, <3>4 DEF Typed
    <3>6. CallsKnown'
      BY <3>2, <3>4 DEF CallsKnown
    <3> QED
      BY <2>2, <3>2, <3>5, <3>6
  <2>4. CASE ~StartsWave(w)
    <3>1. UNCHANGED <<coWave, coRunning, toFront, start>>
      BY <1>3, <2>4 DEF CoordStartWave, w
    <3>2. TypeOK'
      BY <2>1, <3>1 DEF TypeOK
    <3>3. Typed'
      BY <2>1, <2>2, <3>1 DEF Typed
    <3>4. InStep' /\ NeverAhead' /\ CallsKnown' /\ UpdatesOrdered'
      BY <2>1, <3>1 DEF InStep, NeverAhead, CallsKnown, UpdatesOrdered
    <3> QED
      BY <1>0, <2>2, <3>1, <3>2, <3>3, <3>4
  <2> QED
    BY <2>3, <2>4
<1>4. ASSUME CoordPublishStats PROVE IInv' /\ coWave' >= coWave
  <2>1. UNCHANGED <<status, feWave, feRunning, firstReq, wave, running, counter, left,
                    reported, pc, toEngine, toCoord, start, notify>>
    BY <1>4 DEF CoordPublishStats
  <2>2. Publish(coWave, coRunning) /\ coWave' = coWave
    BY <1>4 DEF CoordPublishStats, Publish
  <2>3. /\ TypeOK' /\ InStep' /\ NeverAhead' /\ UpdatesOrdered'
        /\ toFront' \in [FrontEnds -> Seq(FrontMessage)]
    BY <1>0, <2>1, <2>2, PublishKeeps
  <2>4. Typed'
    BY <2>1, <2>3 DEF Typed
  <2>5. CallsKnown' /\ ReportsTrue'
    BY <2>1, <2>2 DEF CallsKnown, ReportsTrue
  <2> QED
    BY <1>0, <2>2, <2>3, <2>4, <2>5
<1> QED
  BY <1>1, <1>2, <1>3, <1>4 DEF Coordinator

-----------------------------------------------------------------------------
(* Engines *)

\* An engine takes a message of a front end: it names no wave beyond the
\* engine's own, and neither do those behind it.
LEMMA MessageTaken ==
    ASSUME IInv, NEW f \in FrontEnds, NEW e \in Engines, toEngine[f][e] # <<>>,
           UNCHANGED coWave,
           toEngine' = [toEngine EXCEPT ![f][e] = Tail(@)]
    PROVE  /\ toEngine' \in [FrontEnds -> [Engines -> Seq(EngineMessage)]]
           /\ \A g \in FrontEnds, d \in Engines :
                 \A i \in 1..Len(toEngine'[g][d]) : toEngine'[g][d][i].wave <= coWave'
           /\ Head(toEngine[f][e]) \in EngineMessage
           /\ Head(toEngine[f][e]).wave <= wave[e]
<1> USE DEF IInv
<1> DEFINE q == toEngine[f][e]
<1>1. q \in Seq(EngineMessage) /\ q # <<>>
  BY DEF Typed
<1>2. /\ Tail(q) \in Seq(EngineMessage) /\ Head(q) \in EngineMessage
      /\ 1 \in 1..Len(q) /\ Head(q) = q[1]
      /\ \A i \in 1..Len(Tail(q)) : i + 1 \in 1..Len(q) /\ Tail(q)[i] = q[i + 1]
  BY <1>1, Taken
<1>3. \A i \in 1..Len(q) : q[i].wave <= coWave
  BY DEF CallsKnown
<1>4. \A g \in FrontEnds, d \in Engines :
         toEngine'[g][d] = IF g = f /\ d = e THEN Tail(q) ELSE toEngine[g][d]
  BY DEF Typed
<1>5. toEngine' \in [FrontEnds -> [Engines -> Seq(EngineMessage)]]
  BY <1>2 DEF Typed
<1> HIDE DEF q
<1>6. \A i \in 1..Len(Tail(q)) : Tail(q)[i].wave <= coWave
  BY <1>2, <1>3
<1>7. ASSUME NEW g \in FrontEnds, NEW d \in Engines, NEW i \in 1..Len(toEngine'[g][d])
      PROVE  toEngine'[g][d][i].wave <= coWave'
  <2>1. CASE g = f /\ d = e
    <3>1. toEngine'[g][d] = Tail(q)
      BY <1>4, <2>1
    <3> QED
      BY <1>6, <3>1
  <2>2. CASE ~(g = f /\ d = e)
    <3>1. toEngine'[g][d] = toEngine[g][d]
      BY <1>4, <2>2
    <3> QED
      BY <3>1 DEF CallsKnown
  <2> QED
    BY <2>1, <2>2
<1>8. Head(q).wave <= wave[e]
  <2>1. Head(q).wave \in Nat /\ Head(q).wave <= coWave
    BY <1>2, <1>3 DEF EngineMessage
  <2>2. coWave \in Nat /\ wave[e] \in Nat /\ coWave <= wave[e]
    BY DEF NeverAhead, TypeOK
  <2> QED
    BY <2>1, <2>2
<1> QED
  BY <1>2, <1>5, <1>7, <1>8 DEF q

\* A notification of an engine joins those on their way.
LEMMA NotificationSent ==
    ASSUME IInv, NEW e \in Engines, NEW m \in Notification,
           wave' \in [Engines -> Nat], \A d \in Engines : wave[d] <= wave'[d],
           IF m.type = "complete" THEN m.wave < wave'[e] ELSE m.wave <= wave'[e],
           notify' = [notify EXCEPT ![e] = Append(@, m)]
    PROVE  notify' \in [Engines -> Seq(Notification)] /\ ReportsTrue'
<1> USE DEF IInv
<1> DEFINE q == notify[e]
<1>1. q \in Seq(Notification)
  BY DEF Typed
<1>2. /\ Append(q, m) \in Seq(Notification)
      /\ \A i \in 1..Len(Append(q, m)) :
            \/ i \in 1..Len(q) /\ Append(q, m)[i] = q[i]
            \/ i = Len(q) + 1 /\ Append(q, m)[i] = m
  BY <1>1, Appended
<1>3. \A d \in Engines : notify'[d] = IF d = e THEN Append(q, m) ELSE notify[d]
  BY DEF Typed
<1>4. notify' \in [Engines -> Seq(Notification)]
  BY <1>2 DEF Typed
<1> HIDE DEF q
<1>5. ASSUME NEW d \in Engines, NEW i \in 1..Len(notify[d])
      PROVE  IF notify[d][i].type = "complete" THEN notify[d][i].wave < wave'[d]
                                               ELSE notify[d][i].wave <= wave'[d]
  <2>1. notify[d] \in Seq(Notification)
    BY DEF Typed
  <2>2. notify[d][i] \in Notification
    BY <2>1
  <2>3. notify[d][i].wave \in Nat
    BY <2>2 DEF Notification
  <2>4. wave[d] \in Nat /\ wave'[d] \in Nat /\ wave[d] <= wave'[d]
    BY DEF TypeOK
  <2> QED
    BY <2>3, <2>4 DEF ReportsTrue
<1>6. \A i \in 1..Len(Append(q, m)) :
         IF Append(q, m)[i].type = "complete" THEN Append(q, m)[i].wave < wave'[e]
                                              ELSE Append(q, m)[i].wave <= wave'[e]
  BY <1>2, <1>5 DEF q
<1>7. ReportsTrue'
  <2> SUFFICES ASSUME NEW d \in Engines, NEW i \in 1..Len(notify'[d])
               PROVE  IF notify'[d][i].type = "complete" THEN notify'[d][i].wave < wave'[d]
                                                         ELSE notify'[d][i].wave <= wave'[d]
    BY DEF ReportsTrue
  <2>1. CASE d = e
    BY <1>3, <1>6, <2>1
  <2>2. CASE d # e
    BY <1>3, <1>5, <2>2
  <2> QED
    BY <2>1, <2>2
<1> QED
  BY <1>4, <1>7

\* A request or an abort reaches an engine.  The wave of the engine stays as it
\* is: nothing that reaches an engine names a later one.
LEMMA EngineInputKeeps ==
    ASSUME IInv, NEW f \in FrontEnds, NEW e \in Engines, EngineInput(f, e)
    PROVE  IInv' /\ wave' = wave
<1> USE DEF IInv, front, coord
<1> DEFINE m == Head(toEngine[f][e])
<1>1. UNCHANGED <<feWave, feRunning, firstReq, coWave, coRunning, running, counter, pc,
                  toCoord, toFront, start>>
  BY DEF EngineInput, EngineAdd, EngineAbort
<1>2. /\ toEngine' \in [FrontEnds -> [Engines -> Seq(EngineMessage)]]
      /\ \A g \in FrontEnds, d \in Engines :
            \A i \in 1..Len(toEngine'[g][d]) : toEngine'[g][d][i].wave <= coWave'
      /\ m \in EngineMessage /\ m.wave <= wave[e]
  BY <1>1, MessageTaken DEF EngineInput, EngineAdd, EngineAbort
<1>3. m.wave \in Nat /\ m.req \in Requests /\ wave[e] \in Nat
  BY <1>2 DEF EngineMessage, TypeOK
<1>4. wave' = wave
  <2>1. CASE EngineAdd(f, e)
    <3>1. wave' = [wave EXCEPT ![e] = IF m.wave > wave[e] THEN m.wave ELSE wave[e]]
      BY <2>1 DEF EngineAdd
    <3>2. ~(m.wave > wave[e])
      BY <1>2, <1>3
    <3>3. wave' = [wave EXCEPT ![e] = wave[e]]
      BY <3>1, <3>2
    <3> QED
      BY <3>3 DEF TypeOK
  <2>2. CASE EngineAbort(f, e)
    BY <2>2 DEF EngineAbort
  <2> QED
    BY <2>1, <2>2 DEF EngineInput
<1>5. notify' \in [Engines -> Seq(Notification)] /\ ReportsTrue'
  <2>1. CASE UNCHANGED notify
    BY <1>4, <2>1 DEF Typed, ReportsTrue
  <2>2. CASE notify' # notify
    <3> DEFINE n == [type |-> "start", wave |-> wave[e]]
    <3>1. notify' = [notify EXCEPT ![e] = Append(@, n)]
      <4>1. EngineAdd(f, e)
        BY <2>2 DEF EngineInput, EngineAbort
      <4>2. notify' = [notify EXCEPT ![e] = IF IsStale(e, m.wave) THEN Append(@, n) ELSE @]
        BY <4>1 DEF EngineAdd
      <4>3. CASE ~IsStale(e, m.wave)
        <5>1. notify' = [notify EXCEPT ![e] = notify[e]]
          BY <4>2, <4>3
        <5> QED
          BY <5>1, <2>2 DEF Typed
      <4> QED
        BY <4>2, <4>3
    <3>2. n \in Notification /\ n.type = "start" /\ n.wave = wave[e]
      BY <1>3 DEF Notification
    <3> HIDE DEF n
    <3>3. \A d \in Engines : wave[d] <= wave'[d]
      BY <1>4 DEF TypeOK
    <3>4. IF n.type = "complete" THEN n.wave < wave'[e] ELSE n.wave <= wave'[e]
      BY <1>3, <1>4, <3>2
    <3>5. wave' \in [Engines -> Nat]
      BY <1>4 DEF TypeOK
    <3> QED
      BY <3>1, <3>2, <3>3, <3>4, <3>5, NotificationSent
  <2> QED
    BY <2>1, <2>2
<1>6. /\ DOMAIN left' = Engines
      /\ \A d \in Engines : \A r \in DOMAIN left'[d] : left'[d][r] \in 1..Steps
  <2>1. Steps \in 1..Steps
    BY WavesAssumption
  <2>2. \A r \in DOMAIN left[e] : left[e][r] \in 1..Steps
    BY DEF TypeOK
  <2>3. CASE EngineAdd(f, e)
    <3>1. left' = [left EXCEPT ![e] = With(e, m.req)]
      BY <2>3 DEF EngineAdd
    <3>2. \A r \in DOMAIN With(e, m.req) : With(e, m.req)[r] \in 1..Steps
      BY <2>1, <2>2 DEF With
    <3> QED
      BY <3>1, <3>2 DEF Typed, TypeOK
  <2>4. CASE EngineAbort(f, e)
    <3>1. left' = [left EXCEPT ![e] = Without(e, m.req)]
      BY <2>4 DEF EngineAbort
    <3>2. \A r \in DOMAIN Without(e, m.req) : Without(e, m.req)[r] \in 1..Steps
      BY <2>2 DEF Without
    <3> QED
      BY <3>1, <3>2 DEF Typed, TypeOK
  <2> QED
    BY <2>3, <2>4 DEF EngineInput
<1>7. /\ status' \in [Requests -> {"new", "sent", "aborting", "done"}]
      /\ reported' \in [Engines -> BOOLEAN]
  <2>1. CASE EngineAdd(f, e)
    BY <2>1 DEF EngineAdd, TypeOK
  <2>2. CASE EngineAbort(f, e)
    BY <2>2 DEF EngineAbort, TypeOK
  <2> QED
    BY <2>1, <2>2 DEF EngineInput
<1>8. TypeOK'
  BY <1>1, <1>4, <1>6, <1>7 DEF TypeOK
<1>9. Typed'
  BY <1>1, <1>2, <1>5, <1>6 DEF Typed
<1>10. InStep' /\ NeverAhead' /\ UpdatesOrdered'
  BY <1>1, <1>4 DEF InStep, NeverAhead, UpdatesOrdered
<1>11. CallsKnown'
  BY <1>1, <1>2 DEF CallsKnown
<1> QED
  BY <1>4, <1>5, <1>8, <1>9, <1>10, <1>11

\* A wake-up call that is heeded names the wave that the engine is in.
LEMMA EngineStartWaveKeeps ==
    ASSUME IInv, NEW e \in Engines, EngineStartWave(e)
    PROVE  IInv' /\ wave' = wave
<1> USE DEF IInv, front, coord
<1> DEFINE q == start[e]
<1>1. UNCHANGED <<status, feWave, feRunning, firstReq, coWave, coRunning, counter, left,
                  reported, pc, toEngine, toCoord, toFront, notify>>
  BY DEF EngineStartWave
<1>2. q \in Seq(StartMessage) /\ q # <<>>
  BY DEF Typed, EngineStartWave
<1>3. /\ Tail(q) \in Seq(StartMessage) /\ Head(q) \in StartMessage
      /\ 1 \in 1..Len(q) /\ Head(q) = q[1]
      /\ \A i \in 1..Len(Tail(q)) : i + 1 \in 1..Len(q) /\ Tail(q)[i] = q[i + 1]
  BY <1>2, Taken
<1>4. \A i \in 1..Len(q) : q[i].wave <= coWave
  BY DEF CallsKnown
<1>5. /\ wave' = [wave EXCEPT ![e] = IF Heeds(e, Head(q)) THEN Head(q).wave ELSE wave[e]]
      /\ running' = [running EXCEPT ![e] = running[e] \/ Heeds(e, Head(q))]
      /\ start' = [start EXCEPT ![e] = Tail(q)]
  BY DEF EngineStartWave
<1> HIDE DEF q
<1>6. Head(q).wave \in Nat
  BY <1>3 DEF StartMessage
<1>7. Heeds(e, Head(q)) => Head(q).wave = wave[e]
  BY <1>3, <1>4, <1>6 DEF Heeds, NeverAhead, TypeOK
<1>8. wave' = wave
  <2>1. wave' = [wave EXCEPT ![e] = wave[e]]
    BY <1>5, <1>7
  <2> QED
    BY <2>1 DEF TypeOK
<1>9. running' \in [Engines -> BOOLEAN]
  BY <1>5 DEF TypeOK
<1>10. TypeOK'
  BY <1>1, <1>8, <1>9 DEF TypeOK
<1>11. Typed'
  BY <1>1, <1>3, <1>5 DEF Typed
<1>12. InStep' /\ NeverAhead' /\ UpdatesOrdered' /\ ReportsTrue'
  BY <1>1, <1>8 DEF InStep, NeverAhead, UpdatesOrdered, ReportsTrue
<1>13. CallsKnown'
  <2>1. \A d \in Engines : start'[d] = IF d = e THEN Tail(q) ELSE start[d]
    BY <1>5 DEF Typed
  <2>2. \A i \in 1..Len(Tail(q)) : Tail(q)[i].wave <= coWave
    BY <1>3, <1>4
  <2>3. ASSUME NEW d \in Engines, NEW i \in 1..Len(start'[d])
        PROVE  start'[d][i].wave <= coWave
    <3>1. CASE d = e
      BY <2>1, <2>2, <3>1
    <3>2. CASE d # e
      BY <2>1, <3>2 DEF CallsKnown
    <3> QED
      BY <3>1, <3>2
  <2> QED
    BY <1>1, <2>3 DEF CallsKnown
<1> QED
  BY <1>8, <1>10, <1>11, <1>12, <1>13

\* An engine joins a forward pass only from its input, where none of the others
\* is in the all-reduce.
LEMMA EngineStepKeeps ==
    ASSUME IInv, NEW e \in Engines, EngineStep(e)
    PROVE  IInv' /\ wave' = wave
<1> USE DEF IInv, front, coord, channels
<1>1. UNCHANGED <<status, feWave, feRunning, firstReq, coWave, coRunning, wave, running,
                  counter, left, toEngine, toCoord, toFront, start, notify>>
  BY DEF EngineStep
<1>2. /\ pc[e] = "input"
      /\ reported' = [reported EXCEPT ![e] = TRUE]
      /\ pc' = [pc EXCEPT ![e] = "forward"] \/ pc' = [pc EXCEPT ![e] = "input"]
  BY DEF EngineStep
<1>3. TypeOK'
  <2>1. pc' \in [Engines -> {"input", "forward", "reduce"}]
    BY <1>2 DEF TypeOK
  <2>2. reported' \in [Engines -> BOOLEAN]
    BY <1>2 DEF TypeOK
  <2> QED
    BY <1>1, <2>1, <2>2 DEF TypeOK
<1>4. InStep'
  BY <1>1, <1>2 DEF InStep, TypeOK
<1>5. Typed' /\ NeverAhead' /\ CallsKnown' /\ UpdatesOrdered' /\ ReportsTrue'
  BY <1>1 DEF Typed, NeverAhead, CallsKnown, UpdatesOrdered, ReportsTrue
<1> QED
  BY <1>1, <1>3, <1>4, <1>5

\* The forward pass: the counters are equal, so all engines go to the all-reduce
\* or none does.
LEMMA ForwardKeeps ==
    ASSUME IInv, Forward
    PROVE  IInv' /\ wave' = wave
<1> USE DEF IInv, front, coord, channels
<1>1. UNCHANGED <<feWave, feRunning, firstReq, coWave, coRunning, wave,
                  toEngine, toCoord, toFront, start, notify>>
  BY DEF Forward
<1>2. /\ counter' = [e \in Engines |-> counter[e] + 1]
      /\ pc' = [e \in Engines |-> IF Syncs(e) THEN "reduce" ELSE "input"]
      /\ running' = [e \in Engines |-> Syncs(e) => running[e]]
      /\ left' = [e \in Engines |->
                    [r \in DOMAIN left[e] \ Finishes(e) |-> left[e][r] - 1]]
      /\ reported' = [e \in Engines |-> reported[e] /\ Finishes(e) = {}]
  BY DEF Forward
<1>3. \A d, e \in Engines : Syncs(d) = Syncs(e)
  BY DEF Syncs, InStep
<1>4. InStep'
  BY <1>1, <1>2, <1>3 DEF InStep
<1>5. TypeOK'
  <2>1. status' \in [Requests -> {"new", "sent", "aborting", "done"}]
    BY DEF Forward, TypeOK
  <2>2. counter' \in [Engines -> Nat]
    BY <1>2 DEF TypeOK
  <2>3. pc' \in [Engines -> {"input", "forward", "reduce"}]
    BY <1>2
  <2>4. running' \in [Engines -> BOOLEAN] /\ reported' \in [Engines -> BOOLEAN]
    BY <1>2
  <2>5. ASSUME NEW e \in Engines, NEW r \in DOMAIN left'[e]
        PROVE  left'[e][r] \in 1..Steps
    <3>1. r \in DOMAIN left[e] /\ left[e][r] # 1 /\ left'[e][r] = left[e][r] - 1
      BY <1>2, <2>5 DEF Finishes
    <3>2. left[e][r] \in 1..Steps
      BY <3>1 DEF TypeOK
    <3> QED
      BY <3>1, <3>2, WavesAssumption
  <2> QED
    BY <1>1, <2>1, <2>2, <2>3, <2>4, <2>5 DEF TypeOK
<1>6. Typed'
  BY <1>1, <1>2 DEF Typed
<1>7. NeverAhead' /\ CallsKnown' /\ UpdatesOrdered' /\ ReportsTrue'
  BY <1>1 DEF NeverAhead, CallsKnown, UpdatesOrdered, ReportsTrue
<1> QED
  BY <1>1, <1>4, <1>5, <1>6, <1>7

\* The all-reduce: all engines stay in the wave or all go on to the next, and
\* only then is its end reported.
LEMMA ReduceKeeps ==
    ASSUME IInv, Reduce
    PROVE  IInv' /\ \A e \in Engines : wave'[e] >= wave[e]
<1> USE DEF IInv, front, coord
<1>1. UNCHANGED <<status, feWave, feRunning, firstReq, coWave, coRunning, left, reported,
                  toEngine, toCoord, toFront, start>>
  BY DEF Reduce
<1>2. /\ running' = [e \in Engines |-> AnyUnfinished]
      /\ pc' = [e \in Engines |-> "input"]
  BY DEF Reduce
<1>3. running' \in [Engines -> BOOLEAN] /\ pc' \in [Engines -> {"input", "forward", "reduce"}]
  BY <1>2 DEF AnyUnfinished
<1>4. CASE AnyUnfinished
  <2>1. UNCHANGED <<wave, counter, notify>>
    BY <1>4 DEF Reduce
  <2>2. TypeOK'
    BY <1>1, <1>3, <2>1 DEF TypeOK
  <2>3. InStep'
    BY <1>2, <2>1 DEF InStep
  <2>4. Typed' /\ NeverAhead' /\ CallsKnown' /\ UpdatesOrdered' /\ ReportsTrue'
    BY <1>1, <2>1 DEF Typed, NeverAhead, CallsKnown, UpdatesOrdered, ReportsTrue
  <2>5. \A e \in Engines : wave'[e] >= wave[e]
    BY <2>1 DEF TypeOK
  <2> QED
    BY <2>2, <2>3, <2>4, <2>5
<1>5. CASE ~AnyUnfinished
  <2> DEFINE m == [type |-> "complete", wave |-> wave[Rank0]]
  <2>1. /\ notify' = [notify EXCEPT ![Rank0] = Append(@, m)]
        /\ wave' = [e \in Engines |-> wave[e] + 1]
        /\ counter' = [e \in Engines |-> 0]
    BY <1>5 DEF Reduce
  <2>2. Rank0 \in Engines /\ m \in Notification
    BY WavesAssumption DEF Notification, TypeOK
  <2>3. m.type = "complete" /\ m.wave = wave[Rank0]
    OBVIOUS
  <2> HIDE DEF m
  <2>4. wave' \in [Engines -> Nat] /\ counter' \in [Engines -> Nat]
    BY <2>1 DEF TypeOK
  <2>5. \A d \in Engines : wave[d] \in Nat /\ wave'[d] = wave[d] + 1 /\ wave[d] <= wave'[d]
    BY <2>1 DEF TypeOK
  <2>6. notify' \in [Engines -> Seq(Notification)] /\ ReportsTrue'
    <3>1. m.wave < wave'[Rank0]
      BY <2>2, <2>3, <2>5
    <3> QED
      BY <2>1, <2>2, <2>3, <2>4, <2>5, <3>1, NotificationSent
  <2>7. TypeOK'
    BY <1>1, <1>3, <2>4 DEF TypeOK
  <2>8. Typed'
    BY <1>1, <2>6 DEF Typed
  <2>9. InStep'
    BY <1>2, <2>1 DEF InStep
  <2>10. NeverAhead'
    BY <1>1, <2>5 DEF NeverAhead, TypeOK
  <2>11. CallsKnown' /\ UpdatesOrdered'
    BY <1>1 DEF CallsKnown, UpdatesOrdered
  <2> QED
    BY <2>5, <2>6, <2>7, <2>8, <2>9, <2>10, <2>11
<1> QED
  BY <1>4, <1>5

-----------------------------------------------------------------------------
\* No step of any process takes a wave number back.
WavesGrow ==
    /\ coWave' >= coWave
    /\ \A e \in Engines : wave'[e] >= wave[e]
    /\ \A f \in FrontEnds : feWave'[f] >= feWave[f]

\* Every step keeps the invariant, and no wave number goes back.
LEMMA NextKeeps == ASSUME IInv, Next PROVE IInv' /\ WavesGrow
<1>1. /\ coWave \in Nat /\ wave \in [Engines -> Nat] /\ feWave \in [FrontEnds -> Nat]
  BY DEF IInv, TypeOK
<1>2. UNCHANGED wave => \A e \in Engines : wave'[e] >= wave[e]
  BY <1>1
<1>3. UNCHANGED feWave => \A f \in FrontEnds : feWave'[f] >= feWave[f]
  BY <1>1
<1>4. UNCHANGED coWave => coWave' >= coWave
  BY <1>1
<1>5. CASE Clients
  <2>1. IInv'
    BY <1>5, SendKeeps DEF Clients
  <2>2. UNCHANGED <<coWave, wave, feWave>>
    BY <1>5 DEF Clients, AddRequest, AbortRequest, front, coord, engine
  <2> QED
    BY <1>2, <1>3, <1>4, <2>1, <2>2 DEF WavesGrow
<1>6. ASSUME NEW f \in FrontEnds, FrontEnd(f) PROVE IInv' /\ WavesGrow
  <2>1. UNCHANGED <<coWave, wave>>
    BY <1>6 DEF FrontEnd, SendFirstReq, UpdateFront, coord, engine
  <2> QED
    BY <1>2, <1>4, <1>6, <2>1, FrontKeeps DEF WavesGrow
<1>7. CASE Coordinator
  <2>1. UNCHANGED <<feWave, wave>>
    BY <1>7 DEF Coordinator, CoordFromFront, CoordWaveComplete, CoordStartWave,
                CoordPublishStats, front, engine
  <2> QED
    BY <1>2, <1>3, <1>7, <2>1, CoordinatorKeeps DEF WavesGrow
<1>8. ASSUME NEW f \in FrontEnds, NEW e \in Engines, EngineInput(f, e)
      PROVE  IInv' /\ WavesGrow
  <2>1. UNCHANGED <<coWave, feWave>>
    BY <1>8 DEF EngineInput, EngineAdd, EngineAbort, front, coord
  <2> QED
    BY <1>2, <1>3, <1>4, <1>8, <2>1, EngineInputKeeps DEF WavesGrow
<1>9. ASSUME NEW e \in Engines, EngineStartWave(e) \/ EngineStep(e)
      PROVE  IInv' /\ WavesGrow
  <2>1. UNCHANGED <<coWave, feWave>>
    BY <1>9 DEF EngineStartWave, EngineStep, front, coord
  <2>2. IInv' /\ wave' = wave
    BY <1>9, EngineStartWaveKeeps, EngineStepKeeps
  <2> QED
    BY <1>2, <1>3, <1>4, <2>1, <2>2 DEF WavesGrow
<1>10. CASE Forward
  <2>1. UNCHANGED <<coWave, feWave>>
    BY <1>10 DEF Forward, front, coord
  <2> QED
    BY <1>2, <1>3, <1>4, <1>10, <2>1, ForwardKeeps DEF WavesGrow
<1>11. CASE Reduce
  <2>1. UNCHANGED <<coWave, feWave>>
    BY <1>11 DEF Reduce, front, coord
  <2> QED
    BY <1>3, <1>4, <1>11, <2>1, ReduceKeeps DEF WavesGrow
<1>12. CASE UNCHANGED vars
  <2>1. UNCHANGED <<coWave, wave, feWave>>
    BY <1>12 DEF vars, front, coord, engine
  <2>2. TypeOK' /\ Typed'
    BY <1>12 DEF vars, front, coord, engine, channels, IInv, TypeOK, Typed
  <2>3. InStep' /\ NeverAhead' /\ CallsKnown' /\ UpdatesOrdered' /\ ReportsTrue'
    BY <1>12 DEF vars, front, coord, engine, channels, IInv, InStep, NeverAhead,
                 CallsKnown, UpdatesOrdered, ReportsTrue
  <2> QED
    BY <1>2, <1>3, <1>4, <2>1, <2>2, <2>3 DEF WavesGrow, IInv
<1> QED
  BY <1>5, <1>6, <1>7, <1>8, <1>9, <1>10, <1>11, <1>12 DEF Next, Quiet

\* A step that changes nothing keeps the invariant too.
LEMMA StutterKeeps == ASSUME IInv, UNCHANGED vars PROVE IInv'
<1>1. TypeOK' /\ Typed'
  BY DEF vars, front, coord, engine, channels, IInv, TypeOK, Typed
<1>2. InStep' /\ NeverAhead' /\ CallsKnown' /\ UpdatesOrdered' /\ ReportsTrue'
  BY DEF vars, front, coord, engine, channels, IInv, InStep, NeverAhead,
         CallsKnown, UpdatesOrdered, ReportsTrue
<1> QED
  BY <1>1, <1>2 DEF IInv

\* The inductive invariant holds in every reachable state.
LEMMA Inductive == Spec => []IInv
<1>1. IInv /\ [Next]_vars => IInv'
  BY NextKeeps, StutterKeeps
<1> QED
  BY <1>1, InitIInv, PTL DEF Spec

\* Whatever is delayed or overtaken, the engines of every deployment meet in one
\* collective of one wave, and neither the coordinator nor a front end is ahead.
THEOREM EnginesMeet == Spec => []EnginesAgree
<1>1. IInv => EnginesAgree
  <2> SUFFICES ASSUME IInv PROVE EnginesAgree
    OBVIOUS
  <2>1. CollectivesAgree
    BY DEF IInv, InStep, CollectivesAgree
  <2>2. WavesAgree
    BY DEF IInv, InStep, WavesAgree
  <2> QED
    BY <2>1, <2>2 DEF IInv, EnginesAgree
<1> QED
  BY <1>1, Inductive, PTL

\* No late, duplicated or overtaken message takes a wave number back, in an
\* engine, in the coordinator or in a front end.
THEOREM WavesNeverBack == Spec => WavesMonotone
<1>1. IInv /\ [Next]_vars => [WavesGrow]_vars
  BY NextKeeps
<1>2. Spec => [][WavesGrow]_vars
  BY <1>1, Inductive, PTL DEF Spec
<1> QED
  BY <1>2 DEF WavesMonotone, WavesGrow
================================================================================
