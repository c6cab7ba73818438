----------------------------- MODULE AgentProofs -----------------------------
(***************************************************************************)
(* Proofs about the agents by themselves, for any sensors, misfortunes and *)
(* links: their types, and the outlets they switch.  SensorSystemProofs    *)
(* and ProgramsProofs cite them for the agents they compose.               *)
(***************************************************************************)
EXTENDS Agent, SequenceTheorems, TLAPS

Record == [pc : {"down", "read", "write", "publish", "switch"},
           currentStatus : Position \cup {None},
           lastStatus : Position \cup {"UNKNOWN", None}]

-----------------------------------------------------------------------------
(* Type correctness *)

\* An agent between two steps of a poll has read its pin, and one that runs has a
\* last status.
StatusInv(a) ==
    /\ a.pc \in {"write", "publish", "switch"} => a.currentStatus \in Position
    /\ a.pc # "down" => a.lastStatus # None

TypeInv == TypeOK /\ \A s \in Sensor : StatusInv(agent[s])

LEMMA InitType == AgentAssumption /\ Init => TypeInv
<1> SUFFICES ASSUME AgentAssumption, Init PROVE TypeInv
  OBVIOUS
<1>1. /\ agent = [s \in Sensor |-> Down] /\ Down.pc = "down"
      /\ Down \in Record
  BY DEF Init, Down, Record
<1>2. \A s \in Sensor : Len(link[s]) <= LinkCapacity
  BY DEF Init, AgentAssumption
<1>3. /\ statusFile \in [Sensor -> Position \cup {None}] /\ link \in [Sensor -> Seq(Position)]
      /\ outlet \in [Sensor -> BOOLEAN] /\ behind \subseteq Sensor /\ disturbed \subseteq Sensor
      /\ door \in [Sensor -> Position]
  BY DEF Init
<1> QED
  BY <1>1, <1>2, <1>3 DEF TypeInv, TypeOK, StatusInv, Record

\* A step of one agent from its record to another one of the type.
LEMMA AgentMoves ==
  ASSUME TypeInv, NEW s \in Sensor, NEW b \in Record, StatusInv(b),
         agent' = [agent EXCEPT ![s] = b],
         door' \in [Sensor -> Position],
         statusFile' \in [Sensor -> Position \cup {None}],
         link' \in [Sensor -> Seq(Position)], \A q \in Sensor : Len(link'[q]) <= LinkCapacity,
         disturbed' \subseteq Sensor, outlet' \in [Sensor -> BOOLEAN], behind' \subseteq Sensor
  PROVE  TypeInv'
<1>1. agent \in [Sensor -> Record]
  BY DEF TypeInv, TypeOK, Record
<1>2. agent' \in [Sensor -> Record]
  BY <1>1
<1>3. \A q \in Sensor : StatusInv(agent[q])' 
  BY <1>1 DEF TypeInv, StatusInv
<1> QED
  BY <1>2, <1>3 DEF TypeInv, TypeOK, StatusInv, Record

\* A message leaves the link: it gets no longer.
LEMMA LinkShrinks ==
  ASSUME AgentAssumption, TypeInv, NEW s \in Sensor, NEW l \in Seq(Position), Len(l) <= Len(link[s]),
         link' = [link EXCEPT ![s] = l]
  PROVE  link' \in [Sensor -> Seq(Position)] /\ \A q \in Sensor : Len(link'[q]) <= LinkCapacity
<1>1. link \in [Sensor -> Seq(Position)] /\ \A q \in Sensor : Len(link[q]) <= LinkCapacity
  BY DEF TypeInv, TypeOK
<1>2. Len(l) \in Nat /\ Len(link[s]) \in Nat
  BY <1>1
<1>3. Len(l) <= LinkCapacity
  BY <1>1, <1>2 DEF AgentAssumption
<1>4. link'[s] = l /\ \A q \in Sensor \ {s} : link'[q] = link[q]
  BY <1>1
<1> QED
  BY <1>1, <1>3, <1>4

LEMMA RemoveShrinks ==
  ASSUME NEW l \in Seq(Position), NEW i \in DOMAIN l
  PROVE  RemoveAt(l, i) \in Seq(Position) /\ Len(RemoveAt(l, i)) <= Len(l)
<1>1. i \in 1..Len(l) /\ Len(l) \in Nat
  OBVIOUS
<1>2. /\ SubSeq(l, 1, i - 1) \in Seq(Position) /\ Len(SubSeq(l, 1, i - 1)) = i - 1
      /\ SubSeq(l, i + 1, Len(l)) \in Seq(Position) /\ Len(SubSeq(l, i + 1, Len(l))) = Len(l) - i
  BY <1>1, SubSeqProperties
<1>3. RemoveAt(l, i) \in Seq(Position) /\ Len(RemoveAt(l, i)) = (i - 1) + (Len(l) - i)
  BY <1>2, ConcatProperties DEF RemoveAt
<1> QED
  BY <1>1, <1>3

LEMMA TypeStep ==
  ASSUME AgentAssumption, TypeInv, [Next]_vars
  PROVE  TypeInv'
<1>type. /\ agent \in [Sensor -> Record] /\ door \in [Sensor -> Position]
         /\ statusFile \in [Sensor -> Position \cup {None}]
         /\ link \in [Sensor -> Seq(Position)] /\ \A q \in Sensor : Len(link[q]) <= LinkCapacity
         /\ disturbed \subseteq Sensor /\ outlet \in [Sensor -> BOOLEAN] /\ behind \subseteq Sensor
  BY DEF TypeInv, TypeOK, Record
<1>1. ASSUME NEW s \in Sensor, MoveDoor(s)
      PROVE  TypeInv'
  BY <1>1, <1>type DEF MoveDoor, outletVars, TypeInv, TypeOK, StatusInv, Position
<1>2. ASSUME NEW s \in Sensor, Start(s)
      PROVE  TypeInv'
  <2> DEFINE b == [Down EXCEPT !.pc = "read",
                     !.lastStatus = IF statusFile[s] = None THEN "UNKNOWN" ELSE statusFile[s]]
  <2>1. b \in Record /\ StatusInv(b)
    BY <1>type DEF Record, Down, StatusInv, AgentAssumption
  <2> QED
    BY <1>2, <1>type, <2>1, AgentMoves DEF Start, outletVars
<1>3. ASSUME NEW s \in Sensor, ReadPin(s)
      PROVE  TypeInv'
  <2> DEFINE b == [agent[s] EXCEPT !.currentStatus = door[s], !.pc = "write"]
  <2>1. agent[s].pc = "read" /\ StatusInv(agent[s])
    BY <1>3 DEF ReadPin, At, TypeInv
  <2>2. b \in Record /\ StatusInv(b)
    BY <1>type, <2>1 DEF Record, StatusInv
  <2>3. agent' = [agent EXCEPT ![s] = b]
    BY <1>3, <1>type DEF ReadPin
  <2> QED
    BY <1>3, <1>type, <2>2, <2>3, AgentMoves DEF ReadPin, outletVars
<1>4. ASSUME NEW s \in Sensor, WriteStatus(s) \/ WriteStatusFails(s)
      PROVE  TypeInv'
  <2> DEFINE a == agent[s]
             b == [a EXCEPT !.lastStatus = a.currentStatus,
                            !.pc = IF a.currentStatus # a.lastStatus THEN "publish" ELSE "read"]
  <2>1. a \in Record /\ a.currentStatus \in Position
    BY <1>4, <1>type DEF WriteStatus, WriteStatusFails, At, TypeInv, StatusInv
  <2>2. b \in Record /\ StatusInv(b)
    BY <2>1 DEF Record, StatusInv, AgentAssumption
  <2>3. agent' = [agent EXCEPT ![s] = b]
    BY <1>4, <1>type DEF WriteStatus, WriteStatusFails, Compare
  <2>4. /\ statusFile' \in [Sensor -> Position \cup {None}] /\ disturbed' \subseteq Sensor
        /\ UNCHANGED <<door, link, outlet, behind>>
    BY <1>4, <1>type, <2>1 DEF WriteStatus, WriteStatusFails, outletVars
  <2> HIDE DEF b
  <2> QED
    BY <1>type, <2>2, <2>3, <2>4, AgentMoves
<1>5. ASSUME NEW s \in Sensor, PublishSensorStatus(s) \/ PublishFails(s)
      PROVE  TypeInv'
  <2> DEFINE b == [agent[s] EXCEPT !.pc = AfterPublish]
  <2>1. /\ agent[s] \in Record /\ agent[s].currentStatus \in Position
        /\ agent[s].lastStatus # None
    BY <1>5, <1>type DEF PublishSensorStatus, PublishFails, At, TypeInv, StatusInv
  <2>2. b \in Record /\ StatusInv(b)
    BY <2>1 DEF Record, StatusInv, AfterPublish
  <2>3. agent' = [agent EXCEPT ![s] = b]
    BY <1>5, <1>type DEF PublishSensorStatus, PublishFails
  <2>4. /\ link' \in [Sensor -> Seq(Position)]
        /\ \A q \in Sensor : Len(link'[q]) <= LinkCapacity
    <3>1. CASE PublishSensorStatus(s)
      <4>1. /\ Append(link[s], agent[s].currentStatus) \in Seq(Position)
            /\ Len(Append(link[s], agent[s].currentStatus)) = Len(link[s]) + 1
        BY <1>type, <2>1
      <4>2. Len(link[s]) \in Nat /\ Len(link[s]) < LinkCapacity
        BY <1>type, <3>1 DEF PublishSensorStatus
      <4> QED
        BY <1>type, <3>1, <4>1, <4>2 DEF PublishSensorStatus, AgentAssumption
    <3>2. CASE PublishFails(s)
      BY <1>type, <3>2 DEF PublishFails
    <3> QED
      BY <1>5, <3>1, <3>2
  <2>5. disturbed' \subseteq Sensor /\ UNCHANGED <<door, statusFile, outlet, behind>>
    BY <1>5, <1>type DEF PublishSensorStatus, PublishFails, outletVars
  <2> HIDE DEF b
  <2> QED
    BY <1>type, <2>2, <2>3, <2>4, <2>5, AgentMoves
<1>6. ASSUME NEW s \in Sensor, SwitchOutlet(s) \/ SwitchOutletFails(s)
      PROVE  TypeInv'
  <2> DEFINE b == [agent[s] EXCEPT !.pc = "read"]
  <2>1. agent[s] \in Record /\ agent[s].lastStatus # None
    BY <1>6, <1>type DEF SwitchOutlet, SwitchOutletFails, At, TypeInv, StatusInv
  <2>2. b \in Record /\ StatusInv(b)
    BY <2>1 DEF Record, StatusInv
  <2>3. agent' = [agent EXCEPT ![s] = b]
    BY <1>6, <1>type DEF SwitchOutlet, SwitchOutletFails
  <2>4. /\ outlet' \in [Sensor -> BOOLEAN] /\ behind' \subseteq Sensor
        /\ UNCHANGED <<door, statusFile, link, disturbed>>
    BY <1>6, <1>type DEF SwitchOutlet, SwitchOutletFails
  <2> HIDE DEF b
  <2> QED
    BY <1>type, <2>2, <2>3, <2>4, AgentMoves
<1>7. ASSUME NEW s \in Sensor, Exit(s)
      PROVE  TypeInv'
  <2>1. Down \in Record /\ StatusInv(Down)
    BY DEF Record, Down, StatusInv
  <2>2. /\ statusFile' \in [Sensor -> Position \cup {None}] /\ disturbed' \subseteq Sensor
        /\ behind' \subseteq Sensor /\ UNCHANGED <<door, link, outlet>>
    BY <1>7, <1>type DEF Exit
  <2>3. agent' = [agent EXCEPT ![s] = Down]
    BY <1>7 DEF Exit
  <2> QED
    BY <1>type, <2>1, <2>2, <2>3, AgentMoves
<1>8. ASSUME NEW s \in Sensor, Lose(s) \/ Deliver(s)
      PROVE  TypeInv'
  <2>1. PICK l \in Seq(Position) :
          Len(l) <= Len(link[s]) /\ link' = [link EXCEPT ![s] = l]
    <3>1. link[s] \in Seq(Position)
      BY <1>type
    <3>2. CASE Lose(s)
      BY <3>1, <3>2, RemoveShrinks DEF Lose
    <3>3. CASE Deliver(s)
      <4>1. Tail(link[s]) \in Seq(Position) /\ Len(Tail(link[s])) <= Len(link[s])
        BY <3>1, <3>3, HeadTailProperties DEF Deliver
      <4> QED
        BY <3>3, <4>1 DEF Deliver
    <3> QED
      BY <1>8, <3>2, <3>3
  <2>2. /\ disturbed' \subseteq Sensor
        /\ UNCHANGED <<door, agent, statusFile, outlet, behind>>
    BY <1>8, <1>type DEF Lose, Deliver, outletVars
  <2>3. link' \in [Sensor -> Seq(Position)] /\ \A q \in Sensor : Len(link'[q]) <= LinkCapacity
    BY <2>1, LinkShrinks
  <2> QED
    BY <2>2, <2>3 DEF TypeInv, TypeOK
<1>9. CASE UNCHANGED vars
  BY <1>9 DEF vars, outletVars, TypeInv, TypeOK
<1> QED
  BY <1>1, <1>2, <1>3, <1>4, <1>5, <1>6, <1>7, <1>8, <1>9 DEF Next, Step

\* The doors, the agents, their files and their links are always of their types;
\* no link holds more than its capacity and a running agent has a last status.
THEOREM TypeCorrect ==
  ASSUME AgentAssumption
  PROVE  Spec => []TypeOK
<1>1. Init => TypeInv
  BY InitType
<1>2. TypeInv /\ [Next]_vars => TypeInv'
  BY TypeStep
<1> QED
  BY <1>1, <1>2, PTL DEF Spec, TypeInv

-----------------------------------------------------------------------------
(* The outlet *)

\* An outlet in state o is switched as the status v asks for.
Fits(o, v) == o = (v = "OPEN")

\* A change goes to the file before it goes to the outlet; otherwise the outlet of
\* an agent that missed none fits both its last status and its file.
OutletInv(s) ==
    /\ s \notin disturbed /\ agent[s].pc \in {"publish", "switch"} =>
        /\ agent[s].lastStatus = agent[s].currentStatus
        /\ statusFile[s] = agent[s].currentStatus
    /\ s \notin disturbed \cup behind =>
        /\ agent[s].pc \in {"read", "write"} =>
            (agent[s].lastStatus # "UNKNOWN" => Fits(outlet[s], agent[s].lastStatus))
        /\ agent[s].pc \in {"down", "read", "write"} =>
            (statusFile[s] # None => Fits(outlet[s], statusFile[s]))

OutletsInv == \A s \in Sensor : OutletInv(s)

LEMMA InitOutlets == Init => OutletsInv
<1> SUFFICES ASSUME Init, NEW s \in Sensor PROVE OutletInv(s)
  BY DEF OutletsInv
<1>1. agent[s].pc = "down" /\ statusFile[s] = None
  BY DEF Init, Down
<1> QED
  BY <1>1 DEF OutletInv

\* A step of the agent to b, after which the file holds f and the outlet is in
\* state o.
LEMMA OutletMoves ==
  ASSUME TypeInv, OutletsInv, NEW s \in Sensor,
         NEW b \in Record, NEW f \in Position \cup {None}, NEW o \in BOOLEAN,
         agent' = [agent EXCEPT ![s] = b], statusFile' = [statusFile EXCEPT ![s] = f],
         outlet' = [outlet EXCEPT ![s] = o],
         disturbed' \in {disturbed, disturbed \cup {s}},
         behind' \in {behind, behind \cup {s}, behind \ {s}},
         s \notin disturbed' /\ b.pc \in {"publish", "switch"} =>
            b.lastStatus = b.currentStatus /\ f = b.currentStatus,
         s \notin disturbed' \cup behind' =>
            /\ b.pc \in {"read", "write"} =>
                (b.lastStatus # "UNKNOWN" => Fits(o, b.lastStatus))
            /\ b.pc \in {"down", "read", "write"} => (f # None => Fits(o, f))
  PROVE  OutletsInv'
<1>types. /\ agent \in [Sensor -> Record] /\ outlet \in [Sensor -> BOOLEAN]
          /\ statusFile \in [Sensor -> Position \cup {None}]
  BY DEF TypeInv, TypeOK, Record
<1>1. agent'[s] = b /\ statusFile'[s] = f /\ outlet'[s] = o
  BY <1>types
<1>2. OutletInv(s)'
  BY <1>1 DEF OutletInv
<1>3. ASSUME NEW q \in Sensor \ {s}
      PROVE  OutletInv(q)'
  <2>1. /\ agent'[q] = agent[q] /\ statusFile'[q] = statusFile[q] /\ outlet'[q] = outlet[q]
        /\ (q \in disturbed' <=> q \in disturbed) /\ (q \in behind' <=> q \in behind)
    BY <1>types
  <2> QED
    BY <2>1 DEF OutletsInv, OutletInv
<1> QED
  BY <1>2, <1>3 DEF OutletsInv

LEMMA OutletStep ==
  ASSUME OutletEnabled, TypeInv, OutletsInv, NEW s \in Sensor, Step(s)
  PROVE  OutletsInv'
<1> DEFINE a == agent[s]
<1>type. /\ a \in Record /\ StatusInv(a) /\ OutletInv(s) /\ door[s] \in Position
         /\ statusFile[s] \in Position \cup {None} /\ outlet[s] \in BOOLEAN
         /\ agent \in [Sensor -> Record] /\ statusFile \in [Sensor -> Position \cup {None}]
  BY DEF TypeInv, TypeOK, Record, OutletsInv
<1>same. /\ statusFile = [statusFile EXCEPT ![s] = statusFile[s]]
         /\ outlet = [outlet EXCEPT ![s] = outlet[s]]
  BY DEF TypeInv, TypeOK
<1> USE DEF At, outletVars
<1>1. CASE MoveDoor(s) \/ Lose(s)
  <2>1. /\ disturbed' \in {disturbed, disturbed \cup {s}}
        /\ UNCHANGED <<agent, statusFile, outlet, behind>>
    BY <1>1 DEF MoveDoor, Lose
  <2> QED
    BY <2>1 DEF OutletsInv, OutletInv
<1>2. CASE Start(s)
  <2> DEFINE b == [Down EXCEPT
                     !.pc = "read",
                     !.lastStatus = IF statusFile[s] = None THEN "UNKNOWN" ELSE statusFile[s]]
  <2>1. /\ agent' = [agent EXCEPT ![s] = b] /\ a.pc = "down"
        /\ UNCHANGED <<statusFile, disturbed, outlet, behind>>
    BY <1>2 DEF Start
  <2>2. /\ b \in Record /\ b.pc = "read"
        /\ b.lastStatus = IF statusFile[s] = None THEN "UNKNOWN" ELSE statusFile[s]
    BY <1>type DEF Record, Down
  <2> HIDE DEF b
  <2> QED
    BY <1>same, <1>type, <2>1, <2>2, OutletMoves DEF OutletInv
<1>3. CASE ReadPin(s)
  <2> DEFINE b == [a EXCEPT !.currentStatus = door[s], !.pc = "write"]
  <2>1. /\ agent' = [agent EXCEPT ![s] = b] /\ a.pc = "read"
        /\ UNCHANGED <<statusFile, disturbed, outlet, behind>>
    BY <1>3, <1>type DEF ReadPin
  <2>2. b \in Record /\ b.pc = "write" /\ b.lastStatus = a.lastStatus
    BY <1>type DEF Record
  <2> HIDE DEF b
  <2> QED
    BY <1>same, <1>type, <2>1, <2>2, OutletMoves DEF OutletInv
<1>4. ASSUME a.pc = "write", Compare(s)
      PROVE  \E b \in Record :
              /\ agent' = [agent EXCEPT ![s] = b]
              /\ b.currentStatus = a.currentStatus /\ b.lastStatus = a.currentStatus
              /\ b.pc = IF a.currentStatus # a.lastStatus THEN "publish" ELSE "read"
  <2> DEFINE b == [a EXCEPT !.lastStatus = a.currentStatus,
                            !.pc = IF a.currentStatus # a.lastStatus THEN "publish" ELSE "read"]
  <2>1. agent' = [agent EXCEPT ![s] = b]
    BY <1>4, <1>type DEF Compare
  <2>2. /\ b \in Record
        /\ b.currentStatus = a.currentStatus /\ b.lastStatus = a.currentStatus
        /\ b.pc = IF a.currentStatus # a.lastStatus THEN "publish" ELSE "read"
    BY <1>type, <1>4 DEF Record, StatusInv
  <2> QED
    BY <2>1, <2>2
<1>5. CASE WriteStatus(s)
  <2>1. /\ a.pc = "write" /\ a.currentStatus \in Position
        /\ statusFile' = [statusFile EXCEPT ![s] = a.currentStatus]
        /\ UNCHANGED <<disturbed, outlet, behind>> /\ Compare(s)
    BY <1>5, <1>type DEF WriteStatus, StatusInv
  <2>2. PICK b \in Record :
          /\ agent' = [agent EXCEPT ![s] = b]
          /\ b.currentStatus = a.currentStatus /\ b.lastStatus = a.currentStatus
          /\ b.pc = IF a.currentStatus # a.lastStatus THEN "publish" ELSE "read"
    BY <1>4, <2>1
  <2>3. b.pc = "read" /\ s \notin disturbed \cup behind => Fits(outlet[s], a.currentStatus)
    BY <1>type, <2>1, <2>2 DEF OutletInv, Position
  <2> QED
    BY <1>same, <1>type, <2>1, <2>2, <2>3, OutletMoves
<1>6. CASE WriteStatusFails(s)
  <2>1. /\ a.pc = "write" /\ disturbed' = disturbed \cup {s}
        /\ UNCHANGED <<outlet, behind>> /\ Compare(s)
    BY <1>6 DEF WriteStatusFails
  <2>2. PICK b \in Record : agent' = [agent EXCEPT ![s] = b]
    BY <1>4, <2>1
  <2>3. PICK f \in {statusFile[s], None} : statusFile' = [statusFile EXCEPT ![s] = f]
    BY <1>6, <1>same DEF WriteStatusFails
  <2> QED
    BY <1>same, <1>type, <2>1, <2>2, <2>3, OutletMoves
<1>7. CASE PublishSensorStatus(s) \/ PublishFails(s)
  <2> DEFINE b == [a EXCEPT !.pc = "switch"]
  <2>1. /\ agent' = [agent EXCEPT ![s] = b] /\ a.pc = "publish"
        /\ disturbed' \in {disturbed, disturbed \cup {s}}
        /\ UNCHANGED <<statusFile, outlet, behind>>
    BY <1>7, <1>type DEF PublishSensorStatus, PublishFails, AfterPublish
  <2>2. b \in Record /\ b.pc = "switch" /\ b.currentStatus = a.currentStatus
        /\ b.lastStatus = a.lastStatus
    BY <1>type DEF Record
  <2> HIDE DEF b
  <2> QED
    BY <1>same, <1>type, <2>1, <2>2, OutletMoves DEF OutletInv
<1>8. CASE SwitchOutlet(s)
  <2> DEFINE b == [a EXCEPT !.pc = "read"]
  <2>1. /\ agent' = [agent EXCEPT ![s] = b] /\ a.pc = "switch"
        /\ outlet' = [outlet EXCEPT ![s] = a.currentStatus = "OPEN"] /\ behind' = behind \ {s}
        /\ UNCHANGED <<statusFile, disturbed>>
    BY <1>8, <1>type DEF SwitchOutlet
  <2>2. b \in Record /\ b.pc = "read" /\ b.lastStatus = a.lastStatus
    BY <1>type DEF Record
  <2>3. PICK o \in BOOLEAN : outlet' = [outlet EXCEPT ![s] = o] /\ Fits(o, a.currentStatus)
    BY <2>1 DEF Fits
  <2> HIDE DEF b
  <2>4. s \notin disturbed => /\ b.lastStatus = a.currentStatus
                              /\ statusFile[s] = a.currentStatus
    BY <1>type, <2>1, <2>2 DEF OutletInv
  <2>5. statusFile' = [statusFile EXCEPT ![s] = statusFile[s]]
    BY <1>same, <2>1
  <2>6. agent' = [agent EXCEPT ![s] = b] /\ disturbed' = disturbed /\ behind' = behind \ {s}
    BY <2>1
  <2> QED
    BY <1>type, <2>2, <2>3, <2>4, <2>5, <2>6, OutletMoves
<1>9. CASE SwitchOutletFails(s)
  <2> DEFINE b == [a EXCEPT !.pc = "read"]
  <2>1. /\ agent' = [agent EXCEPT ![s] = b] /\ behind' = behind \cup {s}
        /\ UNCHANGED <<statusFile, disturbed, outlet>>
    BY <1>9, <1>type DEF SwitchOutletFails
  <2>2. b \in Record /\ b.pc = "read"
    BY <1>type DEF Record
  <2> HIDE DEF b
  <2> QED
    BY <1>same, <1>type, <2>1, <2>2, OutletMoves
<1>10. CASE Exit(s)
  <2> DEFINE b == Down
  <2>1. /\ agent' = [agent EXCEPT ![s] = b] /\ UNCHANGED outlet
        /\ disturbed' \in {disturbed, disturbed \cup {s}} /\ behind' \in {behind, behind \cup {s}}
        /\ s \notin disturbed' \cup behind' => a.pc = "read" /\ UNCHANGED <<statusFile, disturbed, behind>>
    BY <1>10 DEF Exit
  <2>2. b \in Record /\ b.pc = "down"
    BY DEF Record, Down
  <2>3. PICK f \in {statusFile[s], None} : statusFile' = [statusFile EXCEPT ![s] = f]
    BY <1>10, <1>same DEF Exit
  <2>4. statusFile'[s] = f
    BY <2>3, <1>type
  <2> HIDE DEF b
  <2> QED
    BY <1>same, <1>type, <2>1, <2>2, <2>3, <2>4, OutletMoves DEF OutletInv
<1> QED
  BY <1>1, <1>2, <1>3, <1>5, <1>6, <1>7, <1>8, <1>9, <1>10 DEF Step

\* The outlet of an agent that sleeps between two polls fits its last status,
\* however often it was restarted, unless a switching or the status file went
\* wrong, for any number of agents (agent/main.go:152-203).
THEOREM OutletFollowsAgentAlways ==
  ASSUME AgentAssumption
  PROVE  Spec => []OutletFollowsAgent
<1> DEFINE I == TypeInv /\ (OutletEnabled => OutletsInv)
<1>1. Init => I
  BY InitType, InitOutlets
<1>2. I /\ [Next]_vars => I'
  <2> SUFFICES ASSUME I, [Next]_vars
               PROVE  I'
    OBVIOUS
  <2>1. TypeInv'
    BY TypeStep
  <2>2. CASE UNCHANGED <<agent, statusFile, disturbed, outlet, behind>>
    BY <2>1, <2>2 DEF OutletsInv, OutletInv
  <2>3. ASSUME NEW s \in Sensor, Deliver(s)
        PROVE  UNCHANGED <<agent, statusFile, disturbed, outlet, behind>>
    BY <2>3 DEF Deliver, outletVars
  <2> QED
    BY <2>1, <2>2, <2>3, OutletStep DEF Next, vars, outletVars
<1>3. I => OutletFollowsAgent
  BY DEF TypeInv, TypeOK, OutletsInv, OutletInv, Fits, OutletFollowsAgent, At
<1> QED
  BY <1>1, <1>2, <1>3, PTL DEF Spec
=============================================================================
