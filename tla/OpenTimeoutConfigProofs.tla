----------------------- MODULE OpenTimeoutConfigProofs -----------------------
(***************************************************************************)
(* Proofs about OpenTimeoutConfig, for any sensors, requests, timeouts and *)
(* any capacity of the channel.                                            *)
(***************************************************************************)
EXTENDS OpenTimeoutConfig, SequenceTheorems, TLAPS

-----------------------------------------------------------------------------
(* The inductive invariant *)

\* A request past the handler's check carries a sensor and a valid timeout.
RequestInv ==
    \A r \in Request : request[r].pc \in {"store", "send"} =>
        request[r].source \in Source /\ request[r].minutes \in Valid

\* What the map holds of a sensor: nothing while its row is skipped, or minutes
\* that were in the table since the process started.
MapHolds(s) ==
    IF s \in skipped THEN sensorConfigMap[s] = None
                    ELSE sensorConfigMap[s] \in stored[s]

\* What is about to be sent, and what was sent, was in the table since the
\* process started; and so is what the table holds.
StoredInv ==
    /\ \A s \in Source : MapHolds(s) /\ sensorconfig[s] \in stored[s]
    /\ \A r \in Request : request[r].pc = "send" =>
        request[r].minutes \in stored[request[r].source]
    /\ \A i \in 1..Len(sensorConfigChan) :
        sensorConfigChan[i].minutes \in stored[sensorConfigChan[i].source]

\* Until the goroutine has returned, nothing has been received, so every update
\* that was sent is in the channel.
InFlight(s) ==
    \/ \E i \in 1..Len(sensorConfigChan) : sensorConfigChan[i].source = s
    \/ \E r \in Request : request[r].source = s /\ request[r].pc \in {"send", "failed"}

StaleInv ==
    consumer = "receiving" =>
        \A s \in Source \ skipped : sensorConfigMap[s] # sensorconfig[s] => InFlight(s)

Inv == TypeOK /\ RequestInv /\ StoredInv /\ StaleInv

\* A table read but for the rows of left.
LEMMA LoadedMap ==
  ASSUME NEW table \in [Source -> Valid \cup {None}], NEW left \in LeftOut(table)
  PROVE  /\ left \subseteq Source
         /\ Loaded(table, left) \in [Source -> Valid \cup {None}]
         /\ \A s \in Source : Loaded(table, left)[s] = IF s \in left THEN None ELSE table[s]
  BY DEF LeftOut, Loaded

LEMMA InitInv == Init => Inv
<1> SUFFICES ASSUME Init PROVE Inv
  OBVIOUS
<1> USE DEF Init
<1>1. sensorConfigChan = <<>> /\ Len(sensorConfigChan) = 0
  OBVIOUS
<1>0. /\ skipped \subseteq Source /\ sensorConfigMap \in [Source -> Valid \cup {None}]
      /\ \A s \in Source : sensorConfigMap[s] = IF s \in skipped THEN None ELSE sensorconfig[s]
  <2>1. sensorconfig \in [Source -> Valid \cup {None}]
    OBVIOUS
  <2> QED
    BY <2>1, LoadedMap
<1>2. TypeOK
  BY <1>0, <1>1 DEF TypeOK, New, Valid
<1>3. \A r \in Request : request[r].pc = "new"
  BY DEF New
<1>4. \A i \in 1..Len(sensorConfigChan) : FALSE
  BY <1>1
<1>5. \A s \in Source : /\ sensorConfigMap[s] = IF s \in skipped THEN None ELSE sensorconfig[s]
                      /\ sensorconfig[s] \in stored[s]
  BY <1>0
<1>6. RequestInv /\ StaleInv
  BY <1>3, <1>5 DEF RequestInv, StaleInv
<1>7. StoredInv
  BY <1>3, <1>4, <1>5 DEF StoredInv, MapHolds
<1> QED
  BY <1>2, <1>6, <1>7 DEF Inv

Update == [source : Source, minutes : Valid]

LEMMA InvStep == Inv /\ [Next]_vars => Inv'
<1> SUFFICES ASSUME Inv, [Next]_vars
             PROVE  Inv'
  OBVIOUS
<1>none. None \notin Valid /\ Valid \subseteq Nat
  BY ConfigAssumption DEF Valid, MinOpenTimeoutMinutes, MaxOpenTimeoutMinutes
<1> USE DEF Inv
<1>1. ASSUME NEW r \in Request, NEW s \in Source, NEW m \in Minutes, Post(r, s, m)
      PROVE  Inv'
  <2> DEFINE q == [pc |-> IF m < MinOpenTimeoutMinutes \/ m > MaxOpenTimeoutMinutes
                          THEN "rejected" ELSE "store",
                   source |-> s, minutes |-> m]
  <2>1. /\ q.pc \in {"rejected", "store"} /\ q.source = s /\ q.minutes = m /\ m \in Nat
        /\ q.pc = "store" => m \in Valid
    BY ConfigAssumption DEF Valid, MinOpenTimeoutMinutes, MaxOpenTimeoutMinutes
  <2>2. q \in [pc : {"new", "store", "send", "answered", "rejected", "failed"},
               source : Source \cup {None}, minutes : Nat \cup {None}]
    BY <2>1
  <2>3. /\ request' = [request EXCEPT ![r] = q] /\ request[r].pc = "new"
        /\ UNCHANGED <<sensorconfig, sensorConfigMap, sensorConfigChan, consumer, stored, skipped>>
    BY <1>1 DEF Post
  <2> HIDE DEF q
  <2>4. TypeOK'
    BY <2>2, <2>3 DEF TypeOK
  <2>5. \A p \in Request : request'[p] = IF p = r THEN q ELSE request[p]
    BY <2>3 DEF TypeOK
  <2>6. RequestInv' /\ StoredInv'
    BY <2>1, <2>3, <2>5 DEF RequestInv, StoredInv, MapHolds
  <2>7. StaleInv'
    BY <2>1, <2>3, <2>5 DEF StaleInv, InFlight
  <2> QED
    BY <2>4, <2>6, <2>7
<1>2. ASSUME NEW r \in Request, Store(r)
      PROVE  Inv'
  <2>1. /\ request[r].source \in Source /\ request[r].minutes \in Valid
        /\ request' = [request EXCEPT ![r] = [request[r] EXCEPT !.pc = "send"]]
        /\ sensorconfig' = [sensorconfig EXCEPT ![request[r].source] = request[r].minutes]
        /\ stored' = [stored EXCEPT ![request[r].source] = @ \cup {request[r].minutes}]
        /\ UNCHANGED <<sensorConfigMap, sensorConfigChan, consumer, skipped>>
    BY <1>2 DEF Store, Upsert, RequestInv
  <2>2. TypeOK'
    BY <2>1 DEF TypeOK
  <2>3. \A p \in Request : /\ request'[p].source = request[p].source
                           /\ request'[p].minutes = request[p].minutes
                           /\ request'[p].pc = IF p = r THEN "send" ELSE request[p].pc
    BY <2>1 DEF TypeOK
  <2>4. \A s \in Source :
          /\ sensorconfig'[s] = IF s = request[r].source THEN request[r].minutes
                                ELSE sensorconfig[s]
          /\ stored'[s] = IF s = request[r].source THEN stored[s] \cup {request[r].minutes}
                          ELSE stored[s]
    BY <2>1 DEF TypeOK
  <2>5. RequestInv'
    BY <2>1, <2>3 DEF RequestInv
  <2>6. StoredInv'
    BY <2>1, <2>3, <2>4 DEF StoredInv, MapHolds, TypeOK, RequestInv
  <2>7. StaleInv'
    BY <2>1, <2>3, <2>4 DEF StaleInv, InFlight
  <2> QED
    BY <2>2, <2>5, <2>6, <2>7
<1>3. ASSUME NEW r \in Request, StoreFails(r)
      PROVE  Inv'
  <2>1. /\ request[r].source \in Source /\ request[r].minutes \in Valid
        /\ request' = [request EXCEPT ![r] = [request[r] EXCEPT !.pc = "failed"]]
        /\ UNCHANGED <<sensorConfigMap, sensorConfigChan, consumer, skipped>>
    BY <1>3 DEF StoreFails, RequestInv
  <2>2. \A p \in Request : /\ request'[p].source = request[p].source
                           /\ request'[p].minutes = request[p].minutes
                           /\ request'[p].pc = IF p = r THEN "failed" ELSE request[p].pc
    BY <2>1 DEF TypeOK
  <2>3. RequestInv'
    BY <2>1, <2>2 DEF RequestInv
  <2>4. CASE Upsert(r)
    <3>1. /\ sensorconfig' = [sensorconfig EXCEPT ![request[r].source] = request[r].minutes]
          /\ stored' = [stored EXCEPT ![request[r].source] = @ \cup {request[r].minutes}]
      BY <2>4 DEF Upsert
    <3>2. TypeOK'
      BY <2>1, <3>1 DEF TypeOK
    <3>3. \A s \in Source :
            /\ sensorconfig'[s] = IF s = request[r].source THEN request[r].minutes
                                  ELSE sensorconfig[s]
            /\ stored'[s] = IF s = request[r].source THEN stored[s] \cup {request[r].minutes}
                            ELSE stored[s]
      BY <2>1, <3>1 DEF TypeOK
    <3>4. StoredInv'
      <4>1. \A p \in Request : request'[p].pc = "send" => request[p].pc = "send"
        BY <2>2
      <4>2. \A i \in 1..Len(sensorConfigChan) : sensorConfigChan[i].source \in Source
        <5>1. sensorConfigChan \in Seq(Update)
          BY DEF TypeOK, Update
        <5>2. \A i \in 1..Len(sensorConfigChan) : sensorConfigChan[i] \in Update
          BY <5>1
        <5> QED
          BY <5>2 DEF Update
      <4>3. \A p \in Request : request[p].pc = "send" => request[p].source \in Source
        BY DEF RequestInv
      <4> QED
        <5>1. \A s \in Source : MapHolds(s)' /\ sensorconfig'[s] \in stored'[s]
          BY <2>1, <3>3 DEF StoredInv, MapHolds
        <5>2. \A p \in Request : request'[p].pc = "send" =>
                request'[p].minutes \in stored'[request'[p].source]
          BY <2>2, <3>3, <4>1, <4>3 DEF StoredInv
        <5>3. \A i \in 1..Len(sensorConfigChan') :
                sensorConfigChan'[i].minutes \in stored'[sensorConfigChan'[i].source]
          BY <2>1, <3>3, <4>2 DEF StoredInv
        <5> QED
          BY <5>1, <5>2, <5>3 DEF StoredInv
    <3>5. StaleInv'
      <4>1. \A p \in Request : request[p].pc \in {"send", "failed"}
                               => request'[p].pc \in {"send", "failed"}
        BY <2>2
      <4>2. \A s \in Source : InFlight(s) => InFlight(s)'
        BY <2>1, <2>2, <4>1 DEF InFlight
      <4>3. \A s \in Source : s = request[r].source => InFlight(s)'
        BY <2>2 DEF InFlight
      <4> QED
        BY <2>1, <3>3, <4>2, <4>3 DEF StaleInv
    <3> QED
      BY <2>3, <3>2, <3>4, <3>5
  <2>5. CASE UNCHANGED <<sensorconfig, stored>>
    <3>1. TypeOK'
      BY <2>1, <2>5 DEF TypeOK
    <3>2. StoredInv' /\ StaleInv'
      BY <2>1, <2>2, <2>5 DEF StoredInv, MapHolds, StaleInv, InFlight
    <3> QED
      BY <2>3, <3>1, <3>2
  <2> QED
    BY <1>3, <2>4, <2>5 DEF StoreFails
<1>4. ASSUME NEW r \in Request, Send(r)
      PROVE  Inv'
  <2> DEFINE u == [source |-> request[r].source, minutes |-> request[r].minutes]
  <2>1. /\ request[r].source \in Source /\ request[r].minutes \in Valid /\ request[r].pc = "send"
        /\ request' = [request EXCEPT ![r] = [request[r] EXCEPT !.pc = "answered"]]
        /\ sensorConfigChan' = Append(sensorConfigChan, u)
        /\ UNCHANGED <<sensorconfig, sensorConfigMap, consumer, stored, skipped>>
    BY <1>4 DEF Send, RequestInv
  <2>2. u \in Update /\ u.source = request[r].source /\ u.minutes = request[r].minutes
    BY <2>1 DEF Update
  <2> HIDE DEF u
  <2>3. sensorConfigChan \in Seq(Update)
    BY DEF TypeOK, Update
  <2>4. /\ sensorConfigChan' \in Seq(Update)
        /\ Len(sensorConfigChan') = Len(sensorConfigChan) + 1
        /\ \A i \in 1..Len(sensorConfigChan) : sensorConfigChan'[i] = sensorConfigChan[i]
        /\ sensorConfigChan'[Len(sensorConfigChan) + 1] = u
    BY <2>1, <2>2, <2>3
  <2>5. Len(sensorConfigChan) \in Nat
    BY <2>3
  <2>6. TypeOK'
    BY <2>1, <2>4 DEF TypeOK, Update
  <2>7. \A p \in Request : /\ request'[p].source = request[p].source
                           /\ request'[p].minutes = request[p].minutes
                           /\ request'[p].pc = IF p = r THEN "answered" ELSE request[p].pc
    BY <2>1 DEF TypeOK
  <2>8. RequestInv'
    BY <2>1, <2>7 DEF RequestInv
  <2>9. StoredInv'
    BY <2>1, <2>2, <2>4, <2>5, <2>7 DEF StoredInv, MapHolds
  <2>10. StaleInv'
    BY <2>1, <2>2, <2>4, <2>5, <2>7 DEF StaleInv, InFlight
  <2> QED
    BY <2>6, <2>8, <2>9, <2>10
<1>5. CASE Receive
  <2> DEFINE u == Head(sensorConfigChan)
  <2>1. sensorConfigChan \in Seq(Update) /\ sensorConfigChan # <<>>
    BY <1>5 DEF Receive, TypeOK, Update
  <2>2. /\ u \in Update /\ u = sensorConfigChan[1] /\ 1 \in 1..Len(sensorConfigChan)
        /\ sensorConfigChan' \in Seq(Update)
        /\ Len(sensorConfigChan') = Len(sensorConfigChan) - 1 /\ Len(sensorConfigChan) \in Nat
        /\ \A i \in 1..Len(sensorConfigChan') : sensorConfigChan'[i] = sensorConfigChan[i + 1]
    BY <1>5, <2>1 DEF Receive
  <2>3. /\ sensorConfigMap' = [sensorConfigMap EXCEPT ![u.source] = u.minutes]
        /\ skipped' = skipped \ {u.source}
        /\ consumer' = "returned"
        /\ UNCHANGED <<sensorconfig, request, stored>>
    BY <1>5 DEF Receive
  <2>4. u.source \in Source /\ u.minutes \in Valid /\ u.minutes \in stored[u.source]
    BY <2>2 DEF Update, StoredInv
  <2> HIDE DEF u
  <2>5. TypeOK'
    BY <2>2, <2>3, <2>4 DEF TypeOK, Update
  <2>6. \A s \in Source : sensorConfigMap'[s] = IF s = u.source THEN u.minutes
                                                ELSE sensorConfigMap[s]
    BY <2>3 DEF TypeOK
  <2>7. RequestInv' /\ StaleInv'
    BY <2>3 DEF RequestInv, StaleInv
  <2>8. StoredInv'
    BY <2>2, <2>3, <2>4, <2>6 DEF StoredInv, MapHolds
  <2> QED
    BY <2>5, <2>7, <2>8
<1>6. CASE Restart
  <2>0. PICK left \in LeftOut(sensorconfig) :
          sensorConfigMap' = Loaded(sensorconfig, left) /\ skipped' = left
    BY <1>6 DEF Restart, Load
  <2>m. /\ skipped' \subseteq Source /\ sensorConfigMap' \in [Source -> Valid \cup {None}]
        /\ \A s \in Source : sensorConfigMap'[s] = IF s \in skipped' THEN None
                                                  ELSE sensorconfig[s]
    BY <2>0, LoadedMap DEF TypeOK
  <2>1. /\ UNCHANGED sensorconfig
        /\ sensorConfigChan' = <<>> /\ Len(sensorConfigChan') = 0
        /\ consumer' = "receiving"
        /\ stored' = [s \in Source |-> {sensorconfig[s]}]
    BY <1>6 DEF Restart, Load
  <2>2. request' = [r \in Request |-> IF request[r].pc \in {"store", "send"}
                                      THEN [request[r] EXCEPT !.pc = "failed"]
                                      ELSE request[r]]
    BY <1>6 DEF Restart
  <2>3. TypeOK'
    BY <2>1, <2>2, <2>m DEF TypeOK
  <2>4. \A r \in Request : request'[r].pc \notin {"store", "send"}
    BY <2>2 DEF TypeOK
  <2>5. RequestInv' /\ StoredInv' /\ StaleInv'
    BY <2>1, <2>4, <2>m DEF RequestInv, StoredInv, MapHolds, StaleInv
  <2> QED
    BY <2>3, <2>5
<1>7. CASE UNCHANGED vars
  BY <1>7 DEF vars, TypeOK, RequestInv, StoredInv, MapHolds, StaleInv, InFlight
<1> QED
  BY <1>1, <1>2, <1>3, <1>4, <1>5, <1>6, <1>7 DEF Next

LEMMA Invariance == Spec => []Inv
  BY InitInv, InvStep, PTL DEF Spec

-----------------------------------------------------------------------------
\* Every timeout that got past the handler's check is between one and sixty
\* minutes wherever it is kept: in the table, the channel and the map
\* (web.go:232-237).
THEOREM TypeCorrect == Spec => []TypeOK
  BY Invariance, PTL DEF Inv

\* Timers never use a timeout that was not in the table since the process
\* started, however requests, failures and restarts interleave; but for those of a
\* sensor whose row the select at startup broke off before, which use the default
\* (postgres.go:207-236, server.go:102-115).
THEOREM TimersUseStoredAlways == Spec => []TimersUseStored
<1>1. Inv => TimersUseStored
  BY DEF Inv, StoredInv, MapHolds, TimersUseStored
<1> QED
  BY <1>1, Invariance, PTL

\* Until the receiving goroutine has returned, a timeout that differs between the
\* table and the map is on its way, was stored by a request that failed or is a
\* row the select at startup broke off before, for any number of requests and any
\* capacity (server.go:102-115, postgres.go:207-236).
THEOREM StaleOnlyInFlightAlways == Spec => []StaleOnlyInFlight
<1>1. ASSUME Inv PROVE StaleOnlyInFlight
  <2>1. DOMAIN sensorConfigChan = 1..Len(sensorConfigChan)
    BY <1>1 DEF Inv, TypeOK
  <2> QED
    BY <1>1, <2>1 DEF Inv, StaleInv, InFlight, StaleOnlyInFlight
<1> QED
  BY <1>1, Invariance, PTL
=============================================================================
