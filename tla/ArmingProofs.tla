---------------------------- MODULE ArmingProofs ----------------------------
(***************************************************************************)
(* Proofs about Arming, for any sensors, requests and faulty services.     *)
(***************************************************************************)
EXTENDS Arming, TLAPS

-----------------------------------------------------------------------------
LEMMA NotEmpty == Empty # "true" /\ Empty # "false"
  BY DEF Empty

(* Type correctness, and whom a request is about *)

\* A request that reads, writes or publishes about one sensor has that sensor, one
\* for all has its value from the start, and only such a one has more to do.
SourceInv ==
    \A r \in Request :
        /\ (request[r].pc \in {"read", "write"} \/ (At(r, "publish") /\ request[r].kind # "all"))
           => request[r].source \in Sensor
        /\ At(r, "read") => request[r].kind = "toggle"
        /\ At(r, "readAll") => request[r].kind = "all" /\ request[r].armed \in Text
        /\ request[r].kind # "all" => request[r].todo = {}

Basic == TypeOK /\ SourceInv

LEMMA InitBasic == Init => Basic
  BY DEF Init, Basic, TypeOK, SourceInv, At, New, RequestPC

\* What a write does to the sensors with an uncertain value.
LEMMA TornByWrite ==
  ASSUME NEW r \in Request,
         torn' = torn \cup {request[q].source : q \in {r} \cap overlapped}
  PROVE  torn' = IF r \in overlapped THEN torn \cup {request[r].source} ELSE torn
  OBVIOUS

Record == [pc : RequestPC, kind : {"none", "set", "toggle", "all"},
           source : Sensor \cup {None}, armed : Text \cup {None},
           misread : BOOLEAN, todo : SUBSET Sensor]

\* What Basic says of one request.
Fine(q) ==
    /\ q \in Record
    /\ q.pc \in {"publish", "write"} =>
        /\ q.armed \in Text
        /\ q.kind = "toggle" => q.armed \in Switch
        /\ q.kind = "set" => q.armed # Empty
    /\ (q.pc \in {"read", "write"} \/ (q.pc = "publish" /\ q.kind # "all"))
       => q.source \in Sensor
    /\ q.pc = "read" => q.kind = "toggle"
    /\ q.pc = "readAll" => q.kind = "all" /\ q.armed \in Text
    /\ q.kind # "all" => q.todo = {}

LEMMA BasicIsFine ==
  ASSUME Basic, NEW r \in Request
  PROVE  Fine(request[r]) /\ request \in [Request -> Record]
  BY DEF Basic, TypeOK, SourceInv, Fine, Record, At

\* A step that replaces one request by a fine one keeps the requests fine.
LEMMA UpdateStep ==
  ASSUME Basic, NEW r \in Request, NEW q, Fine(q),
         request' = [request EXCEPT ![r] = q],
         arming' \in [Sensor -> Text \cup {None}], ha' \in [Sensor -> Text \cup {None}],
         overlapped' \subseteq Request, torn' \subseteq Sensor
  PROVE  Basic'
<1>1. \A p \in Request : Fine(request[p])
  BY BasicIsFine
<1>2. request \in [Request -> Record]
  BY BasicIsFine
<1>3. \A p \in Request : request'[p] = IF p = r THEN q ELSE request[p]
  BY <1>2
<1>4. \A p \in Request : Fine(request'[p])
  BY <1>1, <1>3
<1>5. request' \in [Request -> Record]
  BY <1>2 DEF Fine
<1>6. TypeOK'
  BY <1>4, <1>5 DEF TypeOK, Fine, Record
<1>7. SourceInv'
  BY <1>4 DEF SourceInv, Fine, At
<1> QED
  BY <1>6, <1>7 DEF Basic

LEMMA BasicStep == Basic /\ [Next]_vars => Basic'
<1> SUFFICES ASSUME Basic, [Next]_vars
             PROVE  Basic'
  OBVIOUS
<1>type. /\ arming \in [Sensor -> Text \cup {None}] /\ ha \in [Sensor -> Text \cup {None}]
         /\ overlapped \subseteq Request /\ torn \subseteq Sensor
         /\ \A r \in Request : Fine(request[r])
  BY BasicIsFine DEF Basic, TypeOK
<1>begin. ASSUME NEW r \in Request, NEW q, Fine(q), Begin(r), request' = [request EXCEPT ![r] = q]
          PROVE  Basic'
  BY <1>type, <1>begin, UpdateStep DEF Begin, Active
<1> USE DEF Fine, Record, RequestPC
<1>1. ASSUME NEW r \in Request, NEW s \in Sensor, NEW a \in Text, Set(r, s, a)
      PROVE  Basic'
  BY <1>1, <1>begin DEF Set, New
<1>2. ASSUME NEW r \in Request, NEW s \in Sensor, Toggle(r, s)
      PROVE  Basic'
  BY <1>2, <1>begin DEF Toggle, New
<1>3. ASSUME NEW r \in Request, NEW a \in Text, SetAll(r, a)
      PROVE  Basic'
  BY <1>3, <1>begin DEF SetAll, New
<1>4. ASSUME NEW r \in Request, ReadArming(r)
      PROVE  Basic'
  <2>1. PICK misread \in {FALSE, "redis" \in Faulty} :
           LET armedString == IF misread THEN None ELSE arming[request[r].source]
           IN request' = [request EXCEPT ![r].armed = Opposite(armedString),
                                         ![r].misread = misread, ![r].pc = "publish"]
    BY <1>4 DEF ReadArming
  <2> DEFINE v == Opposite(IF misread THEN None ELSE arming[request[r].source])
             q == [request[r] EXCEPT !.armed = v, !.misread = misread, !.pc = "publish"]
  <2>2. v \in Switch /\ v \in Text /\ misread \in BOOLEAN
    <3>1. \A x : Opposite(x) \in Switch /\ Opposite(x) \in Text
      BY ArmingAssumption DEF Opposite, Switch
    <3> DEFINE faulty == "redis" \in Faulty
    <3>2. misread \in {FALSE, faulty}
      OBVIOUS
    <3>3. faulty \in BOOLEAN
      OBVIOUS
    <3> HIDE DEF faulty
    <3>4. misread \in BOOLEAN
      BY <3>2, <3>3
    <3> QED
      BY <3>1, <3>4
  <2>3. request' = [request EXCEPT ![r] = q]
    BY <2>1
  <2> HIDE DEF v
  <2>4. request[r].source \in Sensor /\ request[r].kind = "toggle"
    BY <1>4, <1>type DEF ReadArming, At
  <2>5. Fine(q)
    BY <1>4, <1>type, <2>2, <2>4 DEF ReadArming, At
  <2> QED
    BY <1>4, <1>type, <2>3, <2>5, UpdateStep DEF ReadArming
<1>5. ASSUME NEW r \in Request, ReadAllArming(r)
      PROVE  Basic'
  <2> DEFINE keys == {s \in Sensor : arming[s] # None}
             q == [request[r] EXCEPT !.todo = keys, !.source = None,
                                     !.pc = IF keys = {} THEN "success" ELSE "publish"]
  <2>1. keys \in SUBSET Sensor
    OBVIOUS
  <2>2. request' = [request EXCEPT ![r] = q]
    BY <1>5 DEF ReadAllArming
  <2> HIDE DEF keys
  <2>3. request[r].kind = "all" /\ request[r].armed \in Text
    BY <1>5, <1>type DEF ReadAllArming, At
  <2>4. Fine(q)
    BY <1>type, <2>1, <2>3
  <2> HIDE DEF q
  <2> QED
    BY <1>5, <1>type, <2>2, <2>4, UpdateStep DEF ReadAllArming
<1>12. ASSUME NEW r \in Request, MissAllArming(r)
      PROVE  Basic'
  <2> DEFINE q == [request[r] EXCEPT !.misread = TRUE, !.pc = "success"]
  <2>1. Fine(q)
    BY <1>type
  <2>2. request' = [request EXCEPT ![r] = q] /\ UNCHANGED <<arming, ha, overlapped, torn>>
    BY <1>12 DEF MissAllArming
  <2> HIDE DEF q
  <2> QED
    BY <1>type, <2>1, <2>2, UpdateStep
<1>6. ASSUME NEW r \in Request, ReadAllArmingFails(r)
      PROVE  Basic'
  <2>1. Fine([request[r] EXCEPT !.pc = "error"])
    BY <1>type
  <2> QED
    BY <1>6, <1>type, <2>1, UpdateStep DEF ReadAllArmingFails, Goto
<1>7. ASSUME NEW r \in Request, NEW s \in Sensor, PublishHASensorArming(r, s)
      PROVE  Basic'
  <2> DEFINE q == [request[r] EXCEPT !.pc = "write", !.source = s]
  <2>1. request' = [request EXCEPT ![r] = q]
    BY <1>7 DEF PublishHASensorArming
  <2>2. request[r].armed \in Text /\ request[r].pc = "publish"
    BY <1>7, <1>type DEF PublishHASensorArming, At
  <2>3. Fine(q)
    BY <1>type, <2>2
  <2>4. torn' \subseteq Sensor
    BY <1>7, <1>type DEF PublishHASensorArming
  <2>5. ha' \in {ha, [ha EXCEPT ![s] = request[r].armed]}
    BY <1>7 DEF PublishHASensorArming
  <2>6. ha' \in [Sensor -> Text \cup {None}]
    BY <1>type, <2>2, <2>5
  <2> HIDE DEF q
  <2> QED
    BY <1>7, <1>type, <2>1, <2>3, <2>4, <2>6, UpdateStep DEF PublishHASensorArming
<1>8. ASSUME NEW r \in Request, WriteArming(r)
      PROVE  Basic'
  <2> DEFINE left == request[r].todo \ {request[r].source}
             q == [request[r] EXCEPT !.todo = left,
                                     !.pc = IF left = {} THEN "success" ELSE "publish"]
  <2>1. request' = [request EXCEPT ![r] = q]
    BY <1>8 DEF WriteArming
  <2>2. request[r].source \in Sensor /\ request[r].armed \in Text
    BY <1>8, <1>type DEF WriteArming, At
  <2>3. left \in SUBSET Sensor /\ (request[r].kind # "all" => left = {})
    BY <1>type
  <2>4. arming' \in [Sensor -> Text \cup {None}]
    BY <1>8, <1>type, <2>2 DEF WriteArming
  <2>5. torn' \subseteq Sensor
    BY <1>8, <1>type, <2>2, TornByWrite DEF WriteArming
  <2> HIDE DEF left
  <2>6. Fine(q)
    BY <1>type, <2>2, <2>3
  <2> HIDE DEF q
  <2> QED
    BY <1>8, <1>type, <2>1, <2>4, <2>5, <2>6, UpdateStep DEF WriteArming
<1>9. ASSUME NEW r \in Request, WriteArmingFails(r)
      PROVE  Basic'
  <2>1. Fine([request[r] EXCEPT !.pc = "error"])
    BY <1>type
  <2>2. request[r].source \in Sensor /\ request[r].armed \in Text
    BY <1>9, <1>type DEF WriteArmingFails, At
  <2>3. arming' \in [Sensor -> Text \cup {None}]
    BY <1>9, <1>type, <2>2 DEF WriteArmingFails
  <2>4. torn' \subseteq Sensor
    BY <1>9, <1>type, <2>2 DEF WriteArmingFails
  <2> QED
    BY <1>9, <1>type, <2>1, <2>3, <2>4, UpdateStep DEF WriteArmingFails, Goto
<1>10. CASE UNCHANGED vars
  BY <1>10 DEF vars, Basic, TypeOK, SourceInv, At
<1> QED
  BY <1>1, <1>2, <1>3, <1>4, <1>5, <1>6, <1>7, <1>8, <1>9, <1>10, <1>12 DEF Next

\* The keys, what Home Assistant was told and the requests are always of their
\* types, for any strings the bodies carry: a toggle publishes and writes only
\* "true" or "false", one that sets a sensor never the empty string
\* (web.go:132-162).
THEOREM TypeCorrect == Spec => []TypeOK
  BY InitBasic, BasicStep, PTL DEF Spec, Basic

-----------------------------------------------------------------------------
(* A request that has met no other one is alone *)

AloneInv ==
    \A r \in Active, q \in Active : r # q => r \in overlapped

\* A sensor whose last publish and write went well is in step, unless a request
\* is between the two; what an undisturbed request has published stands.
StepInv ==
    /\ \A s \in Sensor \ torn :
        (\A r \in Request : At(r, "write") => request[r].source # s)
        => ha[s] = arming[s]
    /\ \A r \in Request \ overlapped :
        (At(r, "write") /\ request[r].source \notin torn)
        => ha[request[r].source] = request[r].armed

\* An undisturbed request for all has left only what it still has to do, and an
\* undisturbed toggle goes to the opposite of what is stored.
KindInv ==
    \A r \in Request \ overlapped : request[r].pc \in {"publish", "write"} =>
        /\ request[r].kind = "all" /\ ~request[r].misread =>
            \A s \in Sensor \ request[r].todo : arming[s] \in {None, request[r].armed}
        /\ request[r].kind = "toggle" /\ ~request[r].misread =>
            request[r].armed = Opposite(arming[request[r].source])

Inv == Basic /\ AloneInv /\ StepInv /\ KindInv

LEMMA InitInv == Init => Inv
<1> SUFFICES ASSUME Init PROVE Inv
  OBVIOUS
<1>1. Basic
  BY InitBasic
<1>2. \A r \in Request : request[r].pc = "new"
  BY DEF Init, New
<1> QED
  BY <1>1, <1>2 DEF Init, Inv, AloneInv, StepInv, KindInv, Active, At

\* A request that begins overlaps those that are there, and they it.
LEMMA BeginStep ==
  ASSUME Inv, NEW r \in Request, Begin(r), NEW begun,
         request' = [request EXCEPT ![r] = begun],
         begun.pc \in {"publish", "read", "readAll"},
         begun.pc = "publish" => begun.kind = "set"
  PROVE  AloneInv' /\ StepInv' /\ KindInv'
<1> USE DEF Inv, Basic, TypeOK, At, Begin, Active, Done
<1>1. AloneInv'
  BY DEF AloneInv
<1>2. StepInv'
  BY DEF StepInv
<1>3. KindInv'
  BY DEF KindInv
<1> QED
  BY <1>1, <1>2, <1>3

LEMMA InvStep == Inv /\ [Next]_vars => Inv'
<1> SUFFICES ASSUME Inv, [Next]_vars
             PROVE  Inv'
  OBVIOUS
<1>1. Basic'
  BY BasicStep DEF Inv
<1> USE ArmingAssumption DEF Inv, Basic, TypeOK, SourceInv, At, Goto, Done, Active
<1>2. ASSUME NEW r \in Request, NEW s \in Sensor, NEW a \in Text, Set(r, s, a)
      PROVE  AloneInv' /\ StepInv' /\ KindInv'
  BY <1>2, BeginStep DEF Set, New
<1>3. ASSUME NEW r \in Request, NEW s \in Sensor, Toggle(r, s)
      PROVE  AloneInv' /\ StepInv' /\ KindInv'
  BY <1>3, BeginStep DEF Toggle, New
<1>11. ASSUME NEW r \in Request, NEW a \in Text, SetAll(r, a)
      PROVE  AloneInv' /\ StepInv' /\ KindInv'
  BY <1>11, BeginStep DEF SetAll, New
<1>4. ASSUME NEW r \in Request, ReadArming(r)
      PROVE  AloneInv' /\ StepInv' /\ KindInv'
  <2>1. AloneInv' /\ StepInv'
    BY <1>4 DEF ReadArming, AloneInv, StepInv
  <2>2. KindInv'
    BY <1>4 DEF ReadArming, KindInv
  <2> QED
    BY <2>1, <2>2
<1>5. ASSUME NEW r \in Request, ReadAllArming(r)
      PROVE  AloneInv' /\ StepInv' /\ KindInv'
  <2> DEFINE keys == {s \in Sensor : arming[s] # None}
             q == [request[r] EXCEPT !.todo = keys, !.source = None,
                                     !.pc = IF keys = {} THEN "success" ELSE "publish"]
  <2>1. \A p \in Request : request'[p] = IF p = r THEN q ELSE request[p]
    BY <1>5 DEF ReadAllArming
  <2>2. \A s \in Sensor \ keys : arming[s] = None
    OBVIOUS
  <2>3. /\ request[r].pc = "readAll" /\ request[r].kind = "all"
        /\ UNCHANGED <<arming, ha, overlapped, torn>>
    BY <1>5 DEF ReadAllArming
  <2> HIDE DEF keys
  <2>4. q.pc \in {"success", "publish"} /\ q.kind = "all" /\ q.todo = keys
    BY <2>3
  <2> HIDE DEF q
  <2>5. AloneInv'
    BY <2>1, <2>3, <2>4 DEF AloneInv
  <2>6. StepInv'
    BY <2>1, <2>3, <2>4 DEF StepInv
  <2>7. KindInv'
    BY <2>1, <2>2, <2>3, <2>4 DEF KindInv
  <2> QED
    BY <2>5, <2>6, <2>7
<1>12. ASSUME NEW r \in Request, MissAllArming(r)
      PROVE  AloneInv' /\ StepInv' /\ KindInv'
  BY <1>12 DEF MissAllArming, AloneInv, StepInv, KindInv
<1>6. ASSUME NEW r \in Request, ReadAllArmingFails(r)
      PROVE  AloneInv' /\ StepInv' /\ KindInv'
  BY <1>6 DEF ReadAllArmingFails, AloneInv, StepInv, KindInv
<1>7. ASSUME NEW r \in Request, NEW s \in Sensor, PublishHASensorArming(r, s)
      PROVE  AloneInv' /\ StepInv' /\ KindInv'
  <2>1. AloneInv'
    BY <1>7 DEF PublishHASensorArming, AloneInv
  <2>2. StepInv'
    BY <1>7 DEF PublishHASensorArming, AloneInv, StepInv
  <2>3. KindInv'
    BY <1>7 DEF PublishHASensorArming, KindInv, Target
  <2> QED
    BY <2>1, <2>2, <2>3
<1>8. ASSUME NEW r \in Request, WriteArming(r)
      PROVE  AloneInv' /\ StepInv' /\ KindInv'
  <2>1. torn' = IF r \in overlapped THEN torn \cup {request[r].source} ELSE torn
    BY <1>8, TornByWrite DEF WriteArming
  <2>2. AloneInv'
    BY <1>8 DEF WriteArming, AloneInv
  <2>3. StepInv'
    BY <1>8, <2>1 DEF WriteArming, AloneInv, StepInv
  <2>4. KindInv'
    BY <1>8 DEF WriteArming, AloneInv, KindInv
  <2> QED
    BY <2>2, <2>3, <2>4
<1>9. ASSUME NEW r \in Request, WriteArmingFails(r)
      PROVE  AloneInv' /\ StepInv' /\ KindInv'
  <2>1. AloneInv'
    BY <1>9 DEF WriteArmingFails, AloneInv
  <2>2. StepInv'
    BY <1>9 DEF WriteArmingFails, AloneInv, StepInv
  <2>3. KindInv'
    BY <1>9 DEF WriteArmingFails, AloneInv, KindInv
  <2> QED
    BY <2>1, <2>2, <2>3
<1>10. CASE UNCHANGED vars
  BY <1>10 DEF vars, AloneInv, StepInv, KindInv
<1> QED
  BY <1>1, <1>2, <1>3, <1>4, <1>5, <1>6, <1>7, <1>8, <1>9, <1>10, <1>11, <1>12 DEF Next

\* Only its own step moves a request to its successful end.
LEMMA Succeeds ==
  ASSUME Inv, [Next]_vars, NEW r \in Request,
         request[r].pc # "success", request'[r].pc = "success"
  PROVE  ReadAllArming(r) \/ MissAllArming(r) \/ WriteArming(r)
<1> USE DEF Inv, Basic, TypeOK, At, Goto
<1>1. ASSUME NEW p \in Request, NEW s \in Sensor, NEW a \in Text, Set(p, s, a)
      PROVE  FALSE
  BY <1>1 DEF Set, New
<1>2. ASSUME NEW p \in Request, NEW s \in Sensor, Toggle(p, s)
      PROVE  FALSE
  BY <1>2 DEF Toggle, New
<1>3. ASSUME NEW p \in Request, NEW a \in Text, SetAll(p, a)
      PROVE  FALSE
  BY <1>3 DEF SetAll, New
<1>4. ASSUME NEW p \in Request, ReadArming(p)
      PROVE  FALSE
  BY <1>4 DEF ReadArming
<1>5. ASSUME NEW p \in Request, ReadAllArming(p)
      PROVE  p = r
  BY <1>5 DEF ReadAllArming
<1>6. ASSUME NEW p \in Request, ReadAllArmingFails(p)
      PROVE  FALSE
  BY <1>6 DEF ReadAllArmingFails
<1>7. ASSUME NEW p \in Request, NEW s \in Sensor, PublishHASensorArming(p, s)
      PROVE  FALSE
  BY <1>7 DEF PublishHASensorArming
<1>8. ASSUME NEW p \in Request, WriteArming(p)
      PROVE  p = r
  BY <1>8 DEF WriteArming
<1>9. ASSUME NEW p \in Request, WriteArmingFails(p)
      PROVE  FALSE
  BY <1>9 DEF WriteArmingFails
<1>10. CASE UNCHANGED vars
  BY <1>10 DEF vars
<1>11. ASSUME NEW p \in Request, MissAllArming(p)
      PROVE  p = r
  BY <1>11 DEF MissAllArming
<1> QED
  BY <1>1, <1>2, <1>3, <1>4, <1>5, <1>6, <1>7, <1>8, <1>9, <1>10, <1>11 DEF Next

LEMMA Invariance == Spec => []Inv
  BY InitInv, InvStep, PTL DEF Spec

-----------------------------------------------------------------------------
\* Whatever requests overlap and calls fail, Home Assistant was told what Redis holds
\* of every sensor that no request is changing and whose last publish and write
\* met no error and no other request (web.go:132-179).
THEOREM HAFollowsRedisAlways == Spec => []HAFollowsRedis
<1>1. Inv => HAFollowsRedis
  BY DEF Inv, StepInv, HAFollowsRedis, At, Done
<1> QED
  BY <1>1, Invariance, PTL

\* Success of a request for all that met no other one and could list the keys means
\* all (web.go:125-150).
THEOREM AllMeansAllAlways == Spec => AllMeansAll
<1>1. ASSUME Inv, [Next]_vars, NEW r \in Request,
             request[r].kind = "all", ~request'[r].misread, r \notin overlapped,
             request[r].pc # "success", request'[r].pc = "success",
             NEW s \in Sensor
      PROVE  arming'[s] \in {None, request[r].armed}
  <2> USE ArmingAssumption DEF Inv, Basic, TypeOK, At, Goto
  <2>1. ReadAllArming(r) \/ WriteArming(r)
    BY <1>1, Succeeds DEF MissAllArming
  <2>2. CASE ReadAllArming(r)
    <3>1. request'[r].pc = "success" /\ r \in Request /\ s \in Sensor /\ Inv
      BY <1>1
    <3> DEFINE keys == {x \in Sensor : arming[x] # None}
    <3>2. /\ UNCHANGED arming
          /\ request' = [request EXCEPT ![r].todo = keys,
                           ![r].pc = IF keys = {} THEN "success" ELSE "publish",
                           ![r].source = None]
      BY <2>2 DEF ReadAllArming
    <3> HIDE DEF keys
    <3>3. request'[r].pc = IF keys = {} THEN "success" ELSE "publish"
      BY <3>1, <3>2
    <3>4. keys = {}
      BY <3>1, <3>3
    <3>5. arming[s] = None
      BY <3>1, <3>4 DEF keys
    <3> QED
      BY <3>2, <3>5
  <2>3. CASE WriteArming(r)
    BY <1>1, <2>3 DEF WriteArming, KindInv
  <2> QED
    BY <2>1, <2>2, <2>3
<1>2. Inv /\ [Next]_vars =>
        [\A r \in Request :
            (/\ request[r].kind = "all" /\ ~request'[r].misread /\ r \notin overlapped
             /\ request[r].pc # "success" /\ request'[r].pc = "success")
            => \A s \in Sensor : arming'[s] \in {None, request[r].armed}]_vars
  BY <1>1
<1> QED
  BY <1>2, Invariance, PTL DEF Spec, AllMeansAll

\* A toggle that met no other request and could read the key switches it
\* (web.go:152-158).
THEOREM ToggleSwitchesAlways == Spec => ToggleSwitches
<1>1. ASSUME Inv, [Next]_vars, NEW r \in Request,
             request[r].kind = "toggle", ~request[r].misread, r \notin overlapped,
             request[r].pc = "write", request'[r].pc = "success"
      PROVE  IsArmed(arming'[request[r].source]) # IsArmed(arming[request[r].source])
  <2>1. WriteArming(r)
    BY <1>1, Succeeds DEF ReadAllArming, MissAllArming, Inv, Basic, SourceInv, At
  <2>2. request[r].source \in Sensor /\ request[r].armed = Opposite(arming[request[r].source])
    BY <1>1 DEF Inv, Basic, SourceInv, KindInv, At
  <2>type. arming \in [Sensor -> Text \cup {None}]
    BY <1>1 DEF Inv, Basic, TypeOK
  <2>3. arming'[request[r].source] = Opposite(arming[request[r].source])
    <3>1. arming' = [arming EXCEPT ![request[r].source] = request[r].armed]
      BY <2>1 DEF WriteArming
    <3> QED
      BY <2>2, <2>type, <3>1
  <2>4. "true" \notin {None, Empty, "false"}
    BY ArmingAssumption, NotEmpty
  <2> QED
    BY <2>3, <2>4 DEF Opposite, IsArmed
<1>2. Inv /\ [Next]_vars =>
        [\A r \in Request :
            (/\ request[r].kind = "toggle" /\ ~request[r].misread /\ r \notin overlapped
             /\ request[r].pc = "write" /\ request'[r].pc = "success")
            => IsArmed(arming'[request[r].source]) # IsArmed(arming[request[r].source])]_vars
  BY <1>1
<1> QED
  BY <1>2, Invariance, PTL DEF Spec, ToggleSwitches
=============================================================================
