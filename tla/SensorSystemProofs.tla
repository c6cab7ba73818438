-------------------------- MODULE SensorSystemProofs --------------------------
(***************************************************************************)
(* Proofs about the agents together with the server, for any sensors,      *)
(* misfortunes, links, timers and faulty services.  What AgentProofs and   *)
(* SensorServerProofs show of either part is shown to hold of the whole.   *)
(***************************************************************************)
EXTENDS SensorSystem, SequenceTheorems, TLAPS

AP == INSTANCE AgentProofs
SP == INSTANCE SensorServerProofs WITH Reports <- {"OPEN", "CLOSED"},
                                       Events <- ServerEvents \cup {"repeat"}

-----------------------------------------------------------------------------
(* The parts of the whole *)

LEMMA AgentConstants == AP!AgentAssumption
  BY SystemAssumption DEF AP!AgentAssumption, AP!Position, Server!Status

LEMMA ServerConstants ==
  /\ {"OPEN", "CLOSED"} \subseteq SP!Status
  /\ Faulty \subseteq SP!Service
  /\ ServerEvents \cup {"repeat"} \subseteq SP!Event
  /\ MockMode \in BOOLEAN
  /\ None \notin Sensor \cup Timer \cup SP!Status
  BY SystemAssumption DEF SP!Status, SP!Service, SP!Event, Server!Status, Server!Service, Server!Event

LEMMA SameInit == Server!Init => SP!Init
  BY DEF Server!Init, SP!Init, Server!Idle, SP!Idle, Server!Unused, SP!Unused

LEMMA SameReceive ==
  ASSUME NEW s \in Sensor, NEW st \in {"OPEN", "CLOSED"}
  PROVE  /\ Server!ReceiveStatus(s, st) => SP!ReceiveStatus(s, st)
         /\ Server!ReceiveHeartbeat(s) => SP!ReceiveHeartbeat(s)
  BY DEF Server!ReceiveStatus, SP!ReceiveStatus, Server!ReceiveHeartbeat, SP!ReceiveHeartbeat,
     Server!Idle, SP!Idle, Server!At, SP!At, Server!timers, SP!timers, Server!sinks, SP!sinks

LEMMA SameStep == ServerStep => SP!Next
<1> SUFFICES ASSUME ServerStep PROVE SP!Next
  OBVIOUS
<1> USE DEF Server!At, SP!At, Server!Goto, SP!Goto, Server!timers, SP!timers, Server!sinks,
        SP!sinks, Server!Idle, SP!Idle, Server!Unused, SP!Unused
<1>1. CASE Server!HandlerStep
  <2>1. Server!ReadState => SP!ReadState
    BY DEF Server!ReadState, SP!ReadState
  <2>2. Server!WriteFirst => SP!WriteFirst
    BY DEF Server!WriteFirst, SP!WriteFirst
  <2>3. Server!ReadArming => SP!ReadArming
    BY DEF Server!ReadArming, SP!ReadArming
  <2>4. Server!PublishHA => SP!PublishHA
    BY DEF Server!PublishHA, SP!PublishHA, Server!JustOpened, SP!JustOpened
  <2>5. Server!Push => SP!Push
    BY DEF Server!Push, SP!Push
  <2>6. Server!SetTimer => SP!SetTimer
    BY DEF Server!SetTimer, SP!SetTimer, Server!StartTimer, SP!StartTimer, Server!StopTimer,
       SP!StopTimer, Server!LeaveTimer, SP!LeaveTimer, Server!Free, SP!Free
  <2>7. Server!WriteState => SP!WriteState
    BY DEF Server!WriteState, SP!WriteState
  <2>8. Server!SendMessage => SP!SendMessage
    BY DEF Server!SendMessage, SP!SendMessage, Server!Tell, SP!Tell
  <2>9. Server!InsertRow => SP!InsertRow
    BY DEF Server!InsertRow, SP!InsertRow
  <2> QED
    BY <1>1, <2>1, <2>2, <2>3, <2>4, <2>5, <2>6, <2>7, <2>8, <2>9
       DEF Server!HandlerStep, SP!HandlerStep, SP!Next
<1>2. CASE Server!HandlerFails
  <2>1. Server!RedisFails => SP!RedisFails
    BY DEF Server!RedisFails, SP!RedisFails, Server!Abort, SP!Abort
  <2>2. Server!PublishHAFails => SP!PublishHAFails
    BY DEF Server!PublishHAFails, SP!PublishHAFails, Server!Abort, SP!Abort
  <2>3. Server!PushFails => SP!PushFails
    BY DEF Server!PushFails, SP!PushFails, Server!Abort, SP!Abort
  <2>4. Server!InsertRowFails => SP!InsertRowFails
    BY DEF Server!InsertRowFails, SP!InsertRowFails, Server!Abort, SP!Abort
  <2> QED
    BY <1>2, <2>1, <2>2, <2>3, <2>4 DEF Server!HandlerFails, SP!HandlerFails, SP!Next
<1>3. ASSUME NEW t \in Timer
      PROVE  /\ Server!Fire(t) => SP!Fire(t)
             /\ Server!HandleOpenTimeout(t) => SP!HandleOpenTimeout(t)
  BY DEF Server!Fire, SP!Fire, Server!HandleOpenTimeout, SP!HandleOpenTimeout,
     Server!PushOrLog, SP!PushOrLog
<1>4. ASSUME NEW s \in Sensor
      PROVE  /\ Server!HeartbeatExpires(s) => SP!HeartbeatExpires(s)
             /\ Server!SetArming(s) => SP!SetArming(s)
  BY DEF Server!HeartbeatExpires, SP!HeartbeatExpires, Server!SetArming, SP!SetArming
<1>5. ASSUME NEW s \in Sensor, Server!LapseStep(s)
      PROVE  SP!LapseStep(s)
  <2>1. Server!LapseReadState(s) => SP!LapseReadState(s)
    BY DEF Server!LapseReadState, SP!LapseReadState
  <2>2. Server!LapseWriteState(s) => SP!LapseWriteState(s)
    BY DEF Server!LapseWriteState, SP!LapseWriteState
  <2>3. Server!LapsePush(s) => SP!LapsePush(s)
    BY DEF Server!LapsePush, SP!LapsePush, Server!PushOrLog, SP!PushOrLog
  <2>4. Server!LapseSendMessage(s) => SP!LapseSendMessage(s)
    BY DEF Server!LapseSendMessage, SP!LapseSendMessage, Server!Tell, SP!Tell
  <2>5. Server!LapseInsertRow(s) => SP!LapseInsertRow(s)
    BY DEF Server!LapseInsertRow, SP!LapseInsertRow
  <2> QED
    BY <1>5, <2>1, <2>2, <2>3, <2>4, <2>5 DEF Server!LapseStep, SP!LapseStep
<1>6. Server!Restart => SP!Restart
  BY DEF Server!Restart, SP!Restart
<1> QED
  BY <1>1, <1>2, <1>3, <1>4, <1>5, <1>6 DEF ServerStep, SP!Next

LEMMA SameAgent ==
  ASSUME NEW s \in Sensor
  PROVE  /\ Agents!Step(s) => AP!Step(s)
         /\ Agents!Deliver(s) => AP!Deliver(s)
<1> USE DEF Agents!At, AP!At, Agents!outletVars, AP!outletVars, Agents!Down, AP!Down
<1>1. Agents!MoveDoor(s) => AP!MoveDoor(s)
  BY DEF Agents!MoveDoor, AP!MoveDoor
<1>2. Agents!Start(s) => AP!Start(s)
  BY DEF Agents!Start, AP!Start
<1>3. Agents!ReadPin(s) => AP!ReadPin(s)
  BY DEF Agents!ReadPin, AP!ReadPin
<1>4. Agents!WriteStatus(s) => AP!WriteStatus(s)
  BY DEF Agents!WriteStatus, AP!WriteStatus, Agents!Compare, AP!Compare
<1>5. Agents!WriteStatusFails(s) => AP!WriteStatusFails(s)
  BY DEF Agents!WriteStatusFails, AP!WriteStatusFails, Agents!Compare, AP!Compare
<1>6. Agents!PublishSensorStatus(s) => AP!PublishSensorStatus(s)
  BY DEF Agents!PublishSensorStatus, AP!PublishSensorStatus, Agents!AfterPublish, AP!AfterPublish
<1>7. Agents!PublishFails(s) => AP!PublishFails(s)
  BY DEF Agents!PublishFails, AP!PublishFails, Agents!AfterPublish, AP!AfterPublish
<1>8. /\ Agents!SwitchOutlet(s) => AP!SwitchOutlet(s)
      /\ Agents!SwitchOutletFails(s) => AP!SwitchOutletFails(s)
  BY DEF Agents!SwitchOutlet, AP!SwitchOutlet, Agents!SwitchOutletFails, AP!SwitchOutletFails
<1>9. Agents!Exit(s) => AP!Exit(s)
  BY DEF Agents!Exit, AP!Exit
<1>10. Agents!Lose(s) => AP!Lose(s)
  BY DEF Agents!Lose, AP!Lose, Agents!RemoveAt, AP!RemoveAt
<1>11. Agents!Deliver(s) => AP!Deliver(s)
  BY DEF Agents!Deliver, AP!Deliver
<1> QED
  BY <1>1, <1>2, <1>3, <1>4, <1>5, <1>6, <1>7, <1>8, <1>9, <1>10, <1>11
     DEF Agents!Step, AP!Step

LEMMA AgentsPart == [Next]_vars => [AP!Next]_(AP!vars)
<1> SUFFICES ASSUME [Next]_vars PROVE AP!Next \/ UNCHANGED agentVars
  BY DEF AP!vars, AP!outletVars, agentVars
<1>1. CASE AgentStep
  BY <1>1, SameAgent DEF AgentStep, AP!Next
<1>2. ASSUME NEW s \in Sensor, Deliver(s) \/ Heartbeat(s)
      PROVE  AP!Next \/ UNCHANGED agentVars
  BY <1>2, SameAgent DEF Deliver, Heartbeat, AP!Next
<1>3. CASE ServerStep \/ UNCHANGED vars
  BY <1>3 DEF ServerStep, vars
<1> QED
  BY <1>1, <1>2, <1>3 DEF Next

LEMMA ServerPart ==
  ASSUME link \in [Sensor -> Seq({"OPEN", "CLOSED"})], [Next]_vars
  PROVE  [SP!Next]_(SP!vars)
<1> SUFFICES SP!Next \/ UNCHANGED serverVars
  BY DEF SP!vars, serverVars
<1>1. CASE AgentStep \/ UNCHANGED vars
  BY <1>1 DEF AgentStep, vars
<1>2. ASSUME NEW s \in Sensor, Deliver(s)
      PROVE  SP!Next
  <2>1. Head(link[s]) \in {"OPEN", "CLOSED"}
    BY <1>2 DEF Deliver, Agents!Deliver
  <2> QED
    BY <1>2, <2>1, SameReceive DEF Deliver, SP!Next
<1>3. ASSUME NEW s \in Sensor, Heartbeat(s)
      PROVE  SP!Next
  <2>1. SP!ReceiveHeartbeat(s)
    BY <1>3, SameReceive DEF Heartbeat
  <2> QED
    BY <2>1 DEF SP!Next
<1>4. CASE ServerStep
  BY <1>4, SameStep
<1> QED
  BY <1>1, <1>2, <1>3, <1>4 DEF Next

LEMMA AgentTypes == Spec => [](AP!TypeInv /\ link \in [Sensor -> Seq({"OPEN", "CLOSED"})])
<1>1. Agents!Init => AP!Init
  BY DEF Agents!Init, AP!Init, Agents!Down, AP!Down, Agents!Position, AP!Position
<1>2. Init => AP!TypeInv
  BY <1>1, AP!InitType, AgentConstants DEF Init
<1>3. AP!TypeInv /\ [Next]_vars => AP!TypeInv'
  BY AP!TypeStep, AgentConstants, AgentsPart
<1>4. AP!TypeInv => link \in [Sensor -> Seq({"OPEN", "CLOSED"})]
  BY DEF AP!TypeInv, AP!TypeOK, AP!Position
<1> QED
  BY <1>2, <1>3, <1>4, PTL DEF Spec

\* The server of the system is the server of SensorServer: whatever the agents do,
\* it goes only through behaviours of that specification, so that all that is
\* proved of it, the door monitor it implements included, holds in the system.
THEOREM SystemRunsServer == Spec => SP!Spec
<1>1. Init => SP!Init
  BY SameInit DEF Init
<1>2. link \in [Sensor -> Seq({"OPEN", "CLOSED"})] /\ [Next]_vars => [SP!Next]_(SP!vars)
  BY ServerPart
<1> QED
  BY <1>1, <1>2, AgentTypes, PTL DEF Spec, SP!Spec

-----------------------------------------------------------------------------
(* What the server knows of the agents *)

Position == {"OPEN", "CLOSED"}

\* What the server will have been told last once the link is empty.
Expected(s) == IF link[s] = <<>> THEN reported[s] ELSE link[s][Len(link[s])]

Types ==
    /\ door \in [Sensor -> Position]
    /\ agent \in [Sensor -> [pc : {"down", "read", "write", "publish", "switch"},
                             currentStatus : Position \cup {None},
                             lastStatus : Position \cup {"UNKNOWN", None}]]
    /\ statusFile \in [Sensor -> Position \cup {None}]
    /\ link \in [Sensor -> Seq(Position)]
    /\ reported \in [Sensor -> Position \cup {None}]

\* The last status of an agent that was told v last.
AsLast(v) == IF v = None THEN "UNKNOWN" ELSE v

\* What is in flight alternates, and begins with something else than what the
\* server was told last.
Alternates(s) ==
    \A i \in 1..Len(link[s]) :
        link[s][i] # (IF i = 1 THEN reported[s] ELSE link[s][i - 1])

\* What an agent, its file and its link have to do with each other as long as the
\* sensor is undisturbed: an agent that is about to publish has a change and has
\* written it to its file; the last status and the file are otherwise what the
\* server is about to be told last.
InStep(s) ==
    /\ agent[s].pc \in {"read", "write", "switch"} => agent[s].lastStatus = AsLast(Expected(s))
    /\ agent[s].pc = "publish" =>
        /\ agent[s].lastStatus = agent[s].currentStatus
        /\ agent[s].currentStatus # Expected(s)
        /\ statusFile[s] = agent[s].currentStatus
    /\ agent[s].pc # "publish" => statusFile[s] = Expected(s)
    /\ Alternates(s)

\* An agent past the reading of its pin has a status.
Follows(s) ==
    /\ agent[s].pc \in {"write", "publish"} => agent[s].currentStatus \in Position
    /\ s \notin disturbed => InStep(s)

Inv == Types /\ \A s \in Sensor : Follows(s)

LEMMA InitInv == Init => Inv
<1> SUFFICES ASSUME Init PROVE Inv
  OBVIOUS
<1>1. /\ door \in [Sensor -> Position]
      /\ agent = [s \in Sensor |-> [pc |-> "down", currentStatus |-> None, lastStatus |-> None]]
      /\ statusFile = [s \in Sensor |-> None] /\ link = [s \in Sensor |-> <<>>]
      /\ reported = [s \in Sensor |-> None]
  BY DEF Init, Agents!Init, Agents!Down, Agents!Position, Server!Init, Position
<1>2. Types
  BY <1>1 DEF Types
<1> QED
  BY <1>1, <1>2 DEF Inv, Follows, InStep, Alternates, Expected

\* What a step that does not concern a sensor keeps.
LEMMA Others ==
  ASSUME Inv, NEW s \in Sensor,
         agent'[s] = agent[s], statusFile'[s] = statusFile[s],
         link'[s] = link[s], reported'[s] = reported[s], disturbed \subseteq disturbed'
  PROVE  Follows(s)'
  BY DEF Inv, Follows, InStep, Alternates, Expected

-----------------------------------------------------------------------------
(* The server *)

\* Only the arrival of a report changes what was reported.
LEMMA ServerKeepsReported == ServerStep => UNCHANGED <<agentVars, reported>>
<1> SUFFICES ASSUME ServerStep PROVE UNCHANGED <<agentVars, reported>>
  OBVIOUS
<1>0. UNCHANGED agentVars
  BY DEF ServerStep
<1>1. CASE Server!HandlerStep
  BY <1>0, <1>1 DEF Server!HandlerStep, Server!ReadState, Server!WriteFirst, Server!ReadArming,
     Server!PublishHA, Server!Push, Server!SetTimer, Server!WriteState, Server!SendMessage,
     Server!InsertRow
<1>2. CASE Server!HandlerFails
  BY <1>0, <1>2 DEF Server!HandlerFails, Server!RedisFails, Server!PublishHAFails,
     Server!PushFails, Server!InsertRowFails, Server!Abort
<1>3. CASE \E t \in Timer : Server!Fire(t) \/ Server!HandleOpenTimeout(t)
  BY <1>0, <1>3 DEF Server!Fire, Server!HandleOpenTimeout
<1>4. CASE \E s \in Sensor : Server!HeartbeatExpires(s) \/ Server!LapseStep(s)
  BY <1>0, <1>4 DEF Server!HeartbeatExpires, Server!LapseStep, Server!LapseReadState,
     Server!LapseWriteState, Server!LapsePush, Server!LapseSendMessage, Server!LapseInsertRow
<1>5. CASE (\E s \in Sensor : Server!SetArming(s)) \/ Server!Restart
  BY <1>0, <1>5 DEF Server!SetArming, Server!Restart
<1> QED
  BY <1>1, <1>2, <1>3, <1>4, <1>5 DEF ServerStep

-----------------------------------------------------------------------------
(* The agents *)

LEMMA NoneIsNoPosition == None \notin Position
  BY SystemAssumption DEF Position, Server!Status

\* What differs from what the server will have been told last can be sent.
LEMMA AppendAlternates ==
  ASSUME NEW s \in Sensor, link[s] \in Seq(Position), Alternates(s), NEW v \in Position,
         v # Expected(s), link'[s] = Append(link[s], v), UNCHANGED reported
  PROVE  Alternates(s)'
<1>1. /\ Len(link'[s]) = Len(link[s]) + 1 /\ Len(link[s]) \in Nat
      /\ \A i \in 1..Len(link[s]) : link'[s][i] = link[s][i]
      /\ link'[s][Len(link[s]) + 1] = v
  OBVIOUS
<1>2. ASSUME NEW i \in 1..Len(link[s])
      PROVE  link'[s][i] # (IF i = 1 THEN reported[s] ELSE link'[s][i - 1])
  <2>1. i = 1 \/ i - 1 \in 1..Len(link[s])
    BY <1>1
  <2> QED
    BY <1>1, <1>2, <2>1 DEF Alternates
<1>3. v # (IF Len(link[s]) + 1 = 1 THEN reported[s] ELSE link'[s][Len(link[s])])
  <2>1. CASE link[s] = <<>>
    BY <2>1 DEF Expected
  <2>2. CASE link[s] # <<>>
    <3>1. Len(link[s]) \in 1..Len(link[s])
      BY <1>1, <2>2, EmptySeq
    <3> QED
      BY <1>1, <2>2, <3>1 DEF Expected
  <2> QED
    BY <2>1, <2>2
<1>4. \A i \in 1..Len(link'[s]) : i \in 1..Len(link[s]) \/ i = Len(link[s]) + 1
  BY <1>1
<1>5. (Len(link[s]) + 1) - 1 = Len(link[s])
  BY <1>1
<1> QED
  BY <1>1, <1>2, <1>3, <1>4, <1>5 DEF Alternates

\* A step that changes the state of one agent only.
LEMMA Local ==
  ASSUME Inv, NEW s \in Sensor, Types', Follows(s)', UNCHANGED reported,
         \A q \in Sensor \ {s} : /\ agent'[q] = agent[q] /\ statusFile'[q] = statusFile[q]
                                 /\ link'[q] = link[q],
         disturbed \subseteq disturbed'
  PROVE  Inv'
<1>1. ASSUME NEW q \in Sensor \ {s}
      PROVE  Follows(q)'
  BY Others
<1> QED
  BY <1>1 DEF Inv

AgentRecord == [pc : {"down", "read", "write", "publish", "switch"},
                currentStatus : Position \cup {None},
                lastStatus : Position \cup {"UNKNOWN", None}]

LEMMA AgentKeeps ==
  ASSUME Inv, NEW s \in Sensor, Agents!Step(s), UNCHANGED reported
  PROVE  Inv'
<1> DEFINE a == agent[s]
           last == Expected(s)
<1>type. /\ a \in AgentRecord /\ agent \in [Sensor -> AgentRecord]
         /\ statusFile \in [Sensor -> Position \cup {None}]
         /\ link \in [Sensor -> Seq(Position)]
         /\ Follows(s) /\ Types
  BY DEF Inv, Types, AgentRecord
<1> USE DEF Agents!At, Agents!outletVars
<1>1. CASE Agents!MoveDoor(s)
  <2>1. /\ door' = [door EXCEPT ![s] = IF door[s] = "OPEN" THEN "CLOSED" ELSE "OPEN"]
        /\ UNCHANGED <<agent, statusFile, link, disturbed>>
    BY <1>1 DEF Agents!MoveDoor
  <2>2. Types'
    BY <1>type, <2>1 DEF Types, Position
  <2> QED
    BY <2>1, <2>2, <1>type, Local, Others
\* The agent alone: from a step to the next one with these statuses.
<1>go. ASSUME NEW b \in AgentRecord, agent' = [agent EXCEPT ![s] = b],
              UNCHANGED <<door, link>>, disturbed \subseteq disturbed',
              statusFile' = statusFile
                \/ \E f \in Position \cup {None} : statusFile' = [statusFile EXCEPT ![s] = f],
              /\ b.pc \in {"write", "publish"} => b.currentStatus \in Position
              /\ s \notin disturbed' =>
                    /\ b.pc \in {"read", "write", "switch"} => b.lastStatus = AsLast(last)
                    /\ b.pc = "publish" =>
                        /\ b.lastStatus = b.currentStatus /\ b.currentStatus # last
                        /\ statusFile'[s] = b.currentStatus
                    /\ b.pc # "publish" => statusFile'[s] = last
       PROVE  Inv'
  <2>1. Types'
    BY <1>go, <1>type DEF Types, AgentRecord
  <2>2. agent'[s] = b /\ Expected(s)' = last
    BY <1>go, <1>type DEF Expected
  <2>3. Follows(s)'
    <3>1. s \notin disturbed' => Alternates(s)'
      BY <1>type, <1>go DEF Follows, InStep, Alternates
    <3>2. AsLast(last) = AsLast(Expected(s))'
      BY <2>2 DEF AsLast
    <3> QED
      BY <1>go, <2>2, <3>1, <3>2 DEF Follows, InStep
  <2>4. \A q \in Sensor \ {s} : /\ agent'[q] = agent[q] /\ statusFile'[q] = statusFile[q]
                               /\ link'[q] = link[q]
    BY <1>go, <1>type
  <2> QED
    BY <1>go, <2>1, <2>3, <2>4, Local
<1>2. CASE Agents!Start(s)
  <2> DEFINE b == [Agents!Down EXCEPT
                     !.pc = "read",
                     !.lastStatus = IF statusFile[s] = None THEN "UNKNOWN" ELSE statusFile[s]]
  <2>1. /\ agent' = [agent EXCEPT ![s] = b] /\ a.pc = "down"
        /\ UNCHANGED <<door, statusFile, link, disturbed>>
    BY <1>2 DEF Agents!Start
  <2>2. /\ b \in AgentRecord /\ b.pc = "read"
        /\ b.lastStatus = IF statusFile[s] = None THEN "UNKNOWN" ELSE statusFile[s]
    BY <1>type DEF AgentRecord, Position, Agents!Down
  <2> HIDE DEF b
  <2> QED
    BY <2>1, <2>2, <1>type, <1>go DEF Follows, InStep, AsLast
<1>3. CASE Agents!ReadPin(s)
  <2> DEFINE b == [a EXCEPT !.currentStatus = door[s], !.pc = "write"]
  <2>1. /\ agent' = [agent EXCEPT ![s] = b] /\ a.pc = "read" /\ door[s] \in Position
        /\ UNCHANGED <<door, statusFile, link, disturbed>>
    BY <1>3, <1>type DEF Agents!ReadPin, Types
  <2>2. b \in AgentRecord /\ b.pc = "write" /\ b.currentStatus = door[s]
        /\ b.lastStatus = a.lastStatus
    BY <1>type, <2>1 DEF AgentRecord
  <2> HIDE DEF b
  <2> QED
    BY <2>1, <2>2, <1>type, <1>go DEF Follows, InStep
<1>4. ASSUME a.pc = "write", Agents!Compare(s)
      PROVE  \E b \in AgentRecord :
              /\ agent' = [agent EXCEPT ![s] = b]
              /\ b.currentStatus = a.currentStatus /\ b.lastStatus = a.currentStatus
              /\ b.pc = IF a.currentStatus # a.lastStatus THEN "publish" ELSE "read"
  <2> DEFINE b == [a EXCEPT !.lastStatus = a.currentStatus,
                            !.pc = IF a.currentStatus # a.lastStatus THEN "publish" ELSE "read"]
  <2>1. agent' = [agent EXCEPT ![s] = b]
    BY <1>4 DEF Agents!Compare
  <2>2. /\ b \in AgentRecord
        /\ b.currentStatus = a.currentStatus /\ b.lastStatus = a.currentStatus
        /\ b.pc = IF a.currentStatus # a.lastStatus THEN "publish" ELSE "read"
    BY <1>type, <1>4 DEF AgentRecord, Follows
  <2> QED
    BY <2>1, <2>2
<1>5. CASE Agents!WriteStatus(s)
  <2>1. /\ a.pc = "write" /\ a.currentStatus \in Position
        /\ statusFile' = [statusFile EXCEPT ![s] = a.currentStatus]
        /\ UNCHANGED <<door, link, disturbed>> /\ Agents!Compare(s)
    BY <1>5, <1>type DEF Agents!WriteStatus, Follows
  <2>2. PICK b \in AgentRecord :
          /\ agent' = [agent EXCEPT ![s] = b]
          /\ b.currentStatus = a.currentStatus /\ b.lastStatus = a.currentStatus
          /\ b.pc = IF a.currentStatus # a.lastStatus THEN "publish" ELSE "read"
    BY <1>4, <2>1
  <2>3. statusFile'[s] = a.currentStatus
    BY <1>type, <2>1
  <2>4. s \notin disturbed => a.lastStatus = AsLast(last)
    BY <1>type, <2>1 DEF Follows, InStep
  <2>5. s \notin disturbed => (b.pc = "read" <=> a.currentStatus = last)
    BY <2>1, <2>2, <2>4, NoneIsNoPosition DEF AsLast, Position
  <2>6. s \notin disturbed /\ b.pc = "read" => b.lastStatus = AsLast(last)
    BY <2>1, <2>2, <2>5, NoneIsNoPosition DEF AsLast
  <2> QED
    BY <2>1, <2>2, <2>3, <2>5, <2>6, <1>go
<1>6. CASE Agents!WriteStatusFails(s)
  <2>1. /\ a.pc = "write" /\ a.currentStatus \in Position /\ s \in disturbed'
        /\ statusFile' = statusFile \/ statusFile' = [statusFile EXCEPT ![s] = None]
        /\ disturbed \subseteq disturbed' /\ UNCHANGED <<door, link>> /\ Agents!Compare(s)
    BY <1>6, <1>type DEF Agents!WriteStatusFails, Follows
  <2>2. PICK b \in AgentRecord :
          agent' = [agent EXCEPT ![s] = b] /\ b.currentStatus = a.currentStatus
    BY <1>4, <2>1
  <2> QED
    BY <2>1, <2>2, <1>go
<1>7. CASE Agents!PublishSensorStatus(s)
  <2> DEFINE b == [a EXCEPT !.pc = Agents!AfterPublish]
  <2>1. /\ a.pc = "publish" /\ a.currentStatus \in Position
        /\ link' = [link EXCEPT ![s] = Append(link[s], a.currentStatus)]
        /\ agent' = [agent EXCEPT ![s] = b]
        /\ UNCHANGED <<door, statusFile, disturbed>>
    BY <1>7, <1>type DEF Agents!PublishSensorStatus, Follows
  <2>2. /\ b \in AgentRecord /\ b.pc \in {"read", "switch"}
        /\ b.currentStatus = a.currentStatus /\ b.lastStatus = a.lastStatus
    BY <1>type DEF AgentRecord, Agents!AfterPublish
  <2> HIDE DEF b
  <2>3. /\ link'[s] = Append(link[s], a.currentStatus) /\ link[s] \in Seq(Position)
        /\ link' \in [Sensor -> Seq(Position)]
    BY <1>type, <2>1
  <2>4. link'[s] # <<>> /\ link'[s][Len(link'[s])] = a.currentStatus
    BY <2>1, <2>3
  <2>5. Expected(s)' = a.currentStatus
    BY <2>4 DEF Expected
  <2>6. Types'
    BY <1>type, <2>1, <2>2, <2>3 DEF Types, AgentRecord
  <2>7. agent'[s] = b
    BY <1>type, <2>1
  <2>8. Follows(s)'
    <3>1. ASSUME s \notin disturbed
          PROVE  /\ a.lastStatus = a.currentStatus /\ statusFile[s] = a.currentStatus
                 /\ a.currentStatus # Expected(s) /\ Alternates(s)
      BY <1>type, <2>1, <3>1 DEF Follows, InStep
    <3>2. s \notin disturbed => Alternates(s)'
      BY <1>type, <2>1, <2>3, <3>1, AppendAlternates
    <3>3. AsLast(a.currentStatus) = a.currentStatus
      BY <2>1, NoneIsNoPosition DEF AsLast
    <3> QED
      BY <1>type, <2>1, <2>2, <2>5, <2>7, <3>1, <3>2, <3>3 DEF Follows, InStep
  <2>9. \A q \in Sensor \ {s} : /\ agent'[q] = agent[q] /\ statusFile'[q] = statusFile[q]
                               /\ link'[q] = link[q]
    BY <1>type, <2>1
  <2> QED
    BY <2>1, <2>6, <2>8, <2>9, Local
<1>8. CASE Agents!PublishFails(s)
  <2> DEFINE b == [a EXCEPT !.pc = Agents!AfterPublish]
  <2>1. /\ a.pc = "publish" /\ agent' = [agent EXCEPT ![s] = b]
        /\ disturbed \subseteq disturbed' /\ s \in disturbed' /\ UNCHANGED <<door, statusFile, link>>
    BY <1>8 DEF Agents!PublishFails
  <2>2. b \in AgentRecord /\ b.pc \in {"read", "switch"}
    BY <1>type DEF AgentRecord, Agents!AfterPublish
  <2> HIDE DEF b
  <2> QED
    BY <2>1, <2>2, <1>go
<1>9. CASE Agents!SwitchOutlet(s) \/ Agents!SwitchOutletFails(s)
  <2> DEFINE b == [a EXCEPT !.pc = "read"]
  <2>1. /\ a.pc = "switch" /\ agent' = [agent EXCEPT ![s] = b]
        /\ UNCHANGED <<door, statusFile, link, disturbed>>
    BY <1>9 DEF Agents!SwitchOutlet, Agents!SwitchOutletFails
  <2>2. b \in AgentRecord /\ b.pc = "read" /\ b.lastStatus = a.lastStatus
    BY <1>type DEF AgentRecord
  <2> HIDE DEF b
  <2> QED
    BY <2>1, <2>2, <1>type, <1>go DEF Follows, InStep
<1>10. CASE Agents!Exit(s)
  <2> DEFINE b == [pc |-> "down", currentStatus |-> None, lastStatus |-> None]
  <2>1. /\ agent' = [agent EXCEPT ![s] = b] /\ UNCHANGED <<door, link>>
        /\ disturbed \subseteq disturbed'
        /\ statusFile' = statusFile \/ statusFile' = [statusFile EXCEPT ![s] = None]
        /\ s \notin disturbed' => UNCHANGED statusFile /\ a.pc # "publish" /\ s \notin disturbed
    BY <1>10 DEF Agents!Exit, Agents!Down
  <2>2. b \in AgentRecord /\ b.pc = "down"
    BY DEF AgentRecord
  <2> HIDE DEF b
  <2> QED
    BY <2>1, <2>2, <1>type, <1>go DEF Follows, InStep
<1>11. CASE Agents!Lose(s)
  <2>1. PICK i \in DOMAIN link[s] :
          link' = [link EXCEPT ![s] = Agents!RemoveAt(link[s], i)]
    BY <1>11 DEF Agents!Lose
  <2>2. /\ disturbed \subseteq disturbed' /\ s \in disturbed'
        /\ UNCHANGED <<door, agent, statusFile>>
    BY <1>11 DEF Agents!Lose
  <2>3. Agents!RemoveAt(link[s], i) \in Seq(Position)
    <3>1. link[s] \in Seq(Position) /\ i \in 1..Len(link[s])
      BY <1>type
    <3>2. /\ SubSeq(link[s], 1, i - 1) \in Seq(Position)
          /\ SubSeq(link[s], i + 1, Len(link[s])) \in Seq(Position)
      BY <3>1, SubSeqProperties
    <3> QED
      BY <3>2, ConcatProperties DEF Agents!RemoveAt
  <2>4. Types'
    BY <1>type, <2>1, <2>2, <2>3 DEF Types
  <2>5. Follows(s)'
    BY <1>type, <2>2 DEF Follows
  <2>6. \A q \in Sensor \ {s} : link'[q] = link[q]
    BY <1>type, <2>1
  <2> QED
    BY <2>2, <2>4, <2>5, <2>6, Local
<1> QED
  BY <1>1, <1>2, <1>3, <1>5, <1>6, <1>7, <1>8, <1>9, <1>10, <1>11 DEF Agents!Step

-----------------------------------------------------------------------------
(* The message between them, and the whole *)

LEMMA DeliverKeeps ==
  ASSUME Inv, NEW s \in Sensor, Deliver(s)
  PROVE  Inv'
<1>type. /\ link \in [Sensor -> Seq(Position)] /\ reported \in [Sensor -> Position \cup {None}]
         /\ link[s] \in Seq(Position) /\ link[s] # <<>> /\ Types
  BY DEF Inv, Types, Deliver, Agents!Deliver
<1>1. /\ link' = [link EXCEPT ![s] = Tail(link[s])]
      /\ reported' = [reported EXCEPT ![s] = Head(link[s])]
      /\ UNCHANGED <<door, agent, statusFile, disturbed>>
  BY DEF Deliver, Agents!Deliver, Server!ReceiveStatus
<1>2. /\ Head(link[s]) \in Position /\ Head(link[s]) = link[s][1]
      /\ Tail(link[s]) \in Seq(Position)
  BY <1>type
<1>3. Types'
  BY <1>type, <1>1, <1>2 DEF Types
<1>4. Expected(s)' = Expected(s)
  <2>1. link'[s] = Tail(link[s]) /\ reported'[s] = link[s][1]
    BY <1>type, <1>1, <1>2
  <2>2. CASE Len(link[s]) = 1
    <3>1. Tail(link[s]) = <<>>
      <4>1. Len(Tail(link[s])) = 0 /\ Tail(link[s]) \in Seq(Position)
        BY <1>type, <1>2, <2>2
      <4> QED
        BY <4>1, EmptySeq
    <3> QED
      BY <1>type, <2>1, <2>2, <3>1 DEF Expected
  <2>3. CASE Len(link[s]) # 1
    <3>1. /\ Len(link[s]) \in Nat \ {0, 1}
          /\ Tail(link[s]) # <<>> /\ Len(Tail(link[s])) = Len(link[s]) - 1
      <4>1. Len(link[s]) \in Nat /\ Len(link[s]) # 0
        BY <1>type, EmptySeq
      <4>2. Len(Tail(link[s])) = Len(link[s]) - 1
        BY <1>type, <4>1
      <4>3. Len(link[s]) \in Nat \ {0, 1}
        BY <2>3, <4>1
      <4>4. Len(Tail(link[s])) # 0
        BY <4>2, <4>3
      <4>5. Tail(link[s]) # <<>>
        BY <4>4, EmptySeq
      <4> QED
        BY <4>2, <4>3, <4>5
    <3>2. Tail(link[s])[Len(link[s]) - 1] = link[s][Len(link[s])]
      BY <1>type, <3>1
    <3> QED
      BY <1>type, <2>1, <3>1, <3>2 DEF Expected
  <2> QED
    BY <2>2, <2>3
<1>5. Alternates(s) => Alternates(s)'
  <2>1. link'[s] = Tail(link[s]) /\ reported'[s] = link[s][1] /\ link[s] # <<>>
    BY <1>type, <1>1, <1>2
  <2>2. /\ Len(link[s]) \in Nat /\ Len(Tail(link[s])) = Len(link[s]) - 1
        /\ \A i \in 1..Len(Tail(link[s])) : Tail(link[s])[i] = link[s][i + 1]
    BY <1>type, <2>1, HeadTailProperties
  <2> SUFFICES ASSUME Alternates(s), NEW i \in 1..Len(Tail(link[s]))
               PROVE  link'[s][i] # (IF i = 1 THEN reported'[s] ELSE link'[s][i - 1])
    BY <2>1 DEF Alternates
  <2>3. /\ i + 1 \in 1..Len(link[s]) /\ i + 1 # 1 /\ (i + 1) - 1 = i
        /\ i # 1 => i - 1 \in 1..Len(Tail(link[s])) /\ (i - 1) + 1 = i
    BY <2>2
  <2>4. link[s][i + 1] # link[s][i]
    BY <2>3 DEF Alternates
  <2> QED
    BY <2>1, <2>2, <2>3, <2>4
<1>6. ASSUME NEW q \in Sensor
      PROVE  Follows(q)'
  <2>1. CASE q = s
    BY <1>type, <1>1, <1>4, <1>5, <2>1 DEF Inv, Follows, InStep
  <2>2. CASE q # s
    BY <1>type, <1>1, <2>2, Others
  <2> QED
    BY <2>1, <2>2
<1> QED
  BY <1>3, <1>6 DEF Inv

LEMMA InvStep == Inv /\ [Next]_vars => Inv'
<1> SUFFICES ASSUME Inv, [Next]_vars
             PROVE  Inv'
  OBVIOUS
<1>1. ASSUME UNCHANGED <<agentVars, reported>>
      PROVE  Inv'
  BY <1>1 DEF agentVars, Inv, Types, Follows, InStep, Alternates, Expected
<1>2. CASE AgentStep
  BY <1>2, AgentKeeps DEF AgentStep, serverVars
<1>3. ASSUME NEW s \in Sensor, Deliver(s)
      PROVE  Inv'
  BY <1>3, DeliverKeeps
<1>4. ASSUME NEW s \in Sensor, Heartbeat(s)
      PROVE  Inv'
  BY <1>1, <1>4 DEF Heartbeat, Server!ReceiveHeartbeat
<1>5. CASE ServerStep
  BY <1>1, <1>5, ServerKeepsReported
<1>6. CASE UNCHANGED vars
  BY <1>1, <1>6 DEF vars, serverVars
<1> QED
  BY <1>2, <1>3, <1>4, <1>5, <1>6 DEF Next

LEMMA Invariance == Spec => []Inv
  BY InitInv, InvStep, PTL DEF Spec

-----------------------------------------------------------------------------
(* What holds of the whole *)

\* The state of the agents and of the server is of its types while they run
\* together.
THEOREM TypesCorrect == Spec => []TypeOK
<1>1. AP!TypeInv => Agents!TypeOK
  BY DEF AP!TypeInv, AP!TypeOK, Agents!TypeOK, AP!Position, Agents!Position
<1>2. Spec => []SP!TypeOK
  BY SystemRunsServer, SP!TypeCorrect, ServerConstants, PTL
<1>3. SP!TypeOK => Server!TypeOK
  BY DEF SP!TypeOK, Server!TypeOK, SP!HandlerPC, Server!HandlerPC, SP!LapsePC, Server!LapsePC,
     SP!Status, Server!Status, SP!Notification, Server!Notification
<1> QED
  BY <1>1, <1>2, <1>3, AgentTypes, PTL DEF TypeOK

\* What the server promises of any reports it promises of those of the agents: its
\* stores and pages do not contradict the last report, its timers fit it, an armed
\* opening is stored only after ntfy has answered its push, be it with a refusal, and
\* every step is one of the door monitor's (server.go:362-560).
THEOREM SystemKeepsPromises ==
  Spec => /\ [](SP!ViewsAgree /\ SP!TimerMatchesState)
          /\ SP!ArmedOpeningAnnounced
          /\ SP!MonitorsDoors
  BY SystemRunsServer, SP!ViewsAgreeAlways, SP!TimerMatchesStateAlways,
     SP!ArmedOpeningIsAnnounced, SP!ServerMonitorsDoors, ServerConstants, PTL

\* However often agents and server end and start again and doors move, the server
\* is not behind the agent of a sensor nothing went wrong about: with nothing in
\* flight, what the agent calls its last status is what the server was told last
\* (agent/main.go:152-204).
THEOREM ServerFollowsAgentAlways == Spec => []ServerFollowsAgent
<1>1. Inv => ServerFollowsAgent
  BY DEF Inv, Follows, InStep, AsLast, Expected, ServerFollowsAgent
<1> QED
  BY <1>1, Invariance, PTL

-----------------------------------------------------------------------------
(* False alarms *)

\* A handler that is idle is woken by a report only.
LEMMA IdleStays == ServerStep /\ handler.pc = "idle" => handler'.pc = "idle"
<1> SUFFICES ASSUME ServerStep, handler.pc = "idle" PROVE handler'.pc = "idle"
  OBVIOUS
<1>1. CASE Server!HandlerStep
  BY <1>1 DEF Server!HandlerStep, Server!ReadState, Server!WriteFirst, Server!ReadArming,
     Server!PublishHA, Server!Push, Server!SetTimer, Server!WriteState, Server!SendMessage,
     Server!InsertRow, Server!At
<1>2. CASE Server!HandlerFails
  BY <1>2 DEF Server!HandlerFails, Server!RedisFails, Server!PublishHAFails,
     Server!PushFails, Server!InsertRowFails, Server!Abort
<1>3. CASE \E t \in Timer : Server!Fire(t) \/ Server!HandleOpenTimeout(t)
  BY <1>3 DEF Server!Fire, Server!HandleOpenTimeout
<1>4. CASE \E s \in Sensor : Server!HeartbeatExpires(s) \/ Server!LapseStep(s)
  BY <1>4 DEF Server!HeartbeatExpires, Server!LapseStep, Server!LapseReadState,
     Server!LapseWriteState, Server!LapsePush, Server!LapseSendMessage, Server!LapseInsertRow
<1>5. CASE (\E s \in Sensor : Server!SetArming(s)) \/ Server!Restart
  BY <1>5 DEF Server!SetArming, Server!Restart, Server!Idle
<1> QED
  BY <1>1, <1>2, <1>3, <1>4, <1>5 DEF ServerStep

\* Of an undisturbed sensor the server never receives what it was told last.
LEMMA ReportsAlternate ==
  ASSUME Inv, [Next]_vars, NEW s \in Sensor \ disturbed, NEW st \in {"OPEN", "CLOSED"},
         SP!ReceiveStatus(s, st)
  PROVE  st # reported[s]
<1>1. /\ handler.pc = "idle" /\ handler'.pc = "readState"
      /\ handler'.source = s /\ handler'.status = st
  BY DEF SP!ReceiveStatus, SP!At, SP!Idle
<1>2. ~ (AgentStep \/ ServerStep \/ UNCHANGED vars \/ \E q \in Sensor : Heartbeat(q))
  BY <1>1, IdleStays DEF AgentStep, serverVars, vars, Heartbeat, Server!ReceiveHeartbeat
<1>3. PICK q \in Sensor : Deliver(q)
  BY <1>2 DEF Next
<1>4. q = s /\ Head(link[s]) = st /\ link[s] # <<>>
  BY <1>1, <1>3 DEF Deliver, Agents!Deliver, Server!ReceiveStatus, Server!Idle
<1>5. link[s] \in Seq(Position) /\ Alternates(s)
  BY DEF Inv, Types, Follows, InStep
<1>6. 1 \in 1..Len(link[s]) /\ link[s][1] = st
  BY <1>4, <1>5, EmptySeq
<1> QED
  BY <1>5, <1>6 DEF Alternates

LEMMA DisturbedStays == [Next]_vars => disturbed \subseteq disturbed'
<1> SUFFICES ASSUME [Next]_vars PROVE disturbed \subseteq disturbed'
  OBVIOUS
<1>1. CASE AgentStep
  <2>1. PICK s \in Sensor : Agents!Step(s)
    BY <1>1 DEF AgentStep
  <2> QED
    BY <2>1 DEF Agents!Step, Agents!MoveDoor, Agents!Start, Agents!ReadPin, Agents!WriteStatus,
       Agents!WriteStatusFails, Agents!PublishSensorStatus, Agents!PublishFails,
       Agents!SwitchOutlet, Agents!SwitchOutletFails, Agents!Exit, Agents!Lose
<1>2. CASE \E s \in Sensor : Deliver(s) \/ Heartbeat(s)
  BY <1>2 DEF Deliver, Heartbeat, Agents!Deliver, agentVars
<1>3. CASE ServerStep \/ UNCHANGED vars
  BY <1>3 DEF ServerStep, vars, agentVars
<1> QED
  BY <1>1, <1>2, <1>3 DEF Next

\* What SensorServerProofs shows of a server all of whose sensors alternate holds
\* of each sensor that nothing went wrong about.
UndisturbedInv == SP!PushInv /\ \A s \in Sensor \ disturbed : SP!AlarmInv(s)

LEMMA UndisturbedStep ==
  ASSUME Faulty \cap {"redis", "ha"} = {}
  PROVE  Inv /\ AP!TypeInv /\ SP!Inv /\ UndisturbedInv /\ [Next]_vars => UndisturbedInv'
<1> SUFFICES ASSUME Inv, AP!TypeInv, SP!Inv, UndisturbedInv, [Next]_vars
             PROVE  UndisturbedInv'
  OBVIOUS
<1>1. [SP!Next]_(SP!vars)
  BY ServerPart DEF Inv, Types, Position
<1>2. SP!PushInv'
  BY <1>1, SP!PushStep, ServerConstants DEF SP!Inv, UndisturbedInv
<1>3. ASSUME NEW s \in Sensor \ disturbed'
      PROVE  SP!AlarmInv(s)'
  <2>1. s \in Sensor \ disturbed /\ SP!AlarmInv(s) /\ SP!PushInv
    BY DisturbedStays DEF UndisturbedInv
  <2>2. \A st \in {"OPEN", "CLOSED"} :
          SP!ReceiveStatus(s, st) => st \in {"OPEN", "CLOSED"} /\ st # reported[s]
    BY <2>1, ReportsAlternate
  <2> QED
    BY <1>1, <2>1, <2>2, SP!AlarmStep, ServerConstants
<1> QED
  BY <1>2, <1>3 DEF UndisturbedInv

\* With neither Redis nor Home Assistant failing, an open timeout starts for a
\* sensor whose last report, handled to its end, is CLOSED only if something went
\* wrong about that sensor: nothing that happens to others matters
\* (agent/main.go:152-188, server.go:481-497).
THEOREM FalseAlarmsTakeDisturbance ==
  ASSUME Faulty \cap {"redis", "ha"} = {}
  PROVE  Spec => FalseAlarmTakesDisturbance
<1> DEFINE OnlyDisturbed ==
      \A t \in Timer :
        LET s == timer[t].source
        IN (timer[t].state = "running" /\ timer'[t].state = "firing"
            /\ Server!Settled(s) /\ s \notin disturbed)
           => reported[s] # "CLOSED"
<1>1. Init => UndisturbedInv
  BY DEF Init, Server!Init, Server!Unused, Server!Idle, UndisturbedInv, SP!AlarmInv, SP!PushInv,
     SP!Running, SP!At
<1>2. Spec => []SP!Inv
  BY SystemRunsServer, SP!Invariance, ServerConstants, PTL
<1>3. Spec => []UndisturbedInv
  BY <1>1, <1>2, Invariance, AgentTypes, UndisturbedStep, PTL DEF Spec
<1>4. SP!Inv /\ UndisturbedInv => OnlyDisturbed
  BY DEF SP!Inv, SP!Basic, SP!TypeOK, SP!TimerInv, UndisturbedInv, SP!AlarmInv, SP!Running,
     Server!Settled
<1> QED
  BY <1>2, <1>3, <1>4, PTL DEF Spec, FalseAlarmTakesDisturbance
=============================================================================
