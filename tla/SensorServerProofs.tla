------------------------- MODULE SensorServerProofs -------------------------
(***************************************************************************)
(* Proofs about SensorServer, for any sensors, timers, reports, events and *)
(* faulty services.                                                        *)
(***************************************************************************)
EXTENDS SensorServer, TLAPS

-----------------------------------------------------------------------------
(* Type correctness, and whom the handler and the timers are about *)

\* The handler is idle exactly when it has no source; a report being handled is
\* the last one received from its sensor.
HandlerInv ==
    /\ handler.pc = "idle" => handler.source = None
    /\ handler.pc # "idle" =>
        /\ handler.source \in Sensor
        /\ handler.status \in Status
        /\ reported[handler.source] = handler.status

\* A timer that runs, or has run, was started for a sensor.
TimerInv ==
    \A t \in Timer : timer[t].state # "unused" => timer[t].source \in Sensor

Basic == TypeOK /\ HandlerInv /\ TimerInv

LEMMA InitBasic == Init => Basic
  BY DEF Init, Basic, TypeOK, HandlerInv, TimerInv, Idle, Unused, HandlerPC, LapsePC

LEMMA BasicStep == Basic /\ [Next]_vars => Basic'
<1> SUFFICES ASSUME Basic, [Next]_vars
             PROVE  Basic'
  OBVIOUS
<1> USE ServerAssumption DEF Basic, TypeOK, HandlerInv, TimerInv, At, Goto,
        timers, sinks, Status, HandlerPC, LapsePC, Notification
<1>1. ASSUME NEW s \in Sensor, NEW st \in Reports, ReceiveStatus(s, st)
      PROVE  Basic'
  BY <1>1 DEF ReceiveStatus, Idle
<1>2. CASE HandlerStep
  <2>1. CASE ReadState
    BY <2>1 DEF ReadState
  <2>2. CASE WriteFirst
    BY <2>2 DEF WriteFirst, Idle
  <2>3. CASE ReadArming
    BY <2>3 DEF ReadArming
  <2>4. CASE PublishHA
    BY <2>4 DEF PublishHA
  <2>5. CASE Push
    BY <2>5 DEF Push
  <2>6. CASE SetTimer
    <3>1. CASE StartTimer
      BY <2>6, <3>1 DEF SetTimer, StartTimer
    <3>2. CASE StopTimer
      BY <2>6, <3>2 DEF SetTimer, StopTimer
    <3>3. CASE LeaveTimer
      BY <2>6, <3>3 DEF SetTimer, LeaveTimer
    <3> QED
      BY <2>6, <3>1, <3>2, <3>3 DEF SetTimer
  <2>7. CASE WriteState
    BY <2>7 DEF WriteState
  <2>8. CASE SendMessage
    BY <2>8 DEF SendMessage, Tell
  <2>9. CASE InsertRow
    BY <2>9 DEF InsertRow, Idle
  <2> QED
    BY <1>2, <2>1, <2>2, <2>3, <2>4, <2>5, <2>6, <2>7, <2>8, <2>9 DEF HandlerStep
<1>3. CASE HandlerFails
  <2>1. CASE RedisFails
    BY <2>1 DEF RedisFails, Abort, Idle
  <2>2. CASE PublishHAFails
    BY <2>2 DEF PublishHAFails, Abort, Idle
  <2>3. CASE PushFails
    <3>1. handler.source \in Sensor /\ "opened" \in Notification
      BY <2>3 DEF PushFails, Abort
    <3>2. ntfy' \in [Sensor -> SUBSET Notification]
      BY <2>3, <3>1 DEF PushFails
    <3>3. TypeOK'
      BY <2>3, <3>1, <3>2 DEF PushFails, Abort, Idle
    <3>4. HandlerInv' /\ TimerInv'
      BY <2>3 DEF PushFails, Abort, Idle
    <3> QED
      BY <3>3, <3>4
  <2>4. CASE InsertRowFails
    BY <2>4 DEF InsertRowFails, Abort, Idle
  <2> QED
    BY <1>3, <2>1, <2>2, <2>3, <2>4 DEF HandlerFails
<1>4. ASSUME NEW t \in Timer, Fire(t)
      PROVE  Basic'
  BY <1>4 DEF Fire
<1>5. ASSUME NEW t \in Timer, HandleOpenTimeout(t)
      PROVE  Basic'
  <2>1. timer[t].source \in Sensor
    BY <1>5 DEF HandleOpenTimeout
  <2>2. ntfy' \in [Sensor -> SUBSET Notification]
    BY <1>5, <2>1 DEF HandleOpenTimeout, PushOrLog
  <2>3. TypeOK'
    BY <1>5, <2>2 DEF HandleOpenTimeout
  <2>4. HandlerInv' /\ TimerInv'
    BY <1>5 DEF HandleOpenTimeout
  <2> QED
    BY <2>3, <2>4
<1>6. ASSUME NEW s \in Sensor, ReceiveHeartbeat(s)
      PROVE  Basic'
  BY <1>6 DEF ReceiveHeartbeat
<1>7. ASSUME NEW s \in Sensor, HeartbeatExpires(s)
      PROVE  Basic'
  BY <1>7 DEF HeartbeatExpires
<1>8. ASSUME NEW s \in Sensor, LapseStep(s)
      PROVE  Basic'
  <2>1. CASE LapseReadState(s)
    BY <2>1 DEF LapseReadState
  <2>2. CASE LapseWriteState(s)
    BY <2>2 DEF LapseWriteState
  <2>3. CASE LapsePush(s)
    BY <2>3 DEF LapsePush, PushOrLog
  <2>4. CASE LapseSendMessage(s)
    BY <2>4 DEF LapseSendMessage, Tell
  <2>5. CASE LapseInsertRow(s)
    BY <2>5 DEF LapseInsertRow
  <2> QED
    BY <1>8, <2>1, <2>2, <2>3, <2>4, <2>5 DEF LapseStep
<1>9. ASSUME NEW s \in Sensor, SetArming(s)
      PROVE  Basic'
  BY <1>9 DEF SetArming
<1>10. CASE Restart
  BY <1>10 DEF Restart, Idle, Unused
<1>11. CASE UNCHANGED vars
  BY <1>11 DEF vars
<1> QED
  BY <1>1, <1>2, <1>3, <1>4, <1>5, <1>6, <1>7, <1>8, <1>9, <1>10, <1>11 DEF Next

\* The state of the server and of its stores is always of its type.
THEOREM TypeCorrect == Spec => []TypeOK
  BY InitBasic, BasicStep, PTL DEF Spec, Basic

-----------------------------------------------------------------------------
(* How far the stores have come *)

\* A sensor without a Redis key was never shown anywhere and never timed.
FirstInv ==
    \A s \in Sensor : redis[s] = None =>
        /\ ha[s] = None /\ ws[s] = None /\ db[s] = None
        /\ delayTimerMap[s] = None
        /\ lapse[s] \in {"none", "readState"}

\* Whether the key exists was read at the handler's first step and has not
\* changed since.
KeyInv ==
    /\ At("writeFirst") => redis[handler.source] = None
    /\ handler.pc \in {"readArming", "publishHA", "push", "setTimer", "writeState",
                       "sendMessage", "insertRow"}
       => redis[handler.source] # None

\* What the handler has written stands, but for an UNKNOWN written over it.
ProgressInv ==
    /\ handler.pc \in {"push", "setTimer", "writeState", "sendMessage", "insertRow"}
       => ha[handler.source] = handler.status
    /\ handler.pc \in {"sendMessage", "insertRow"}
       => redis[handler.source] \in {handler.status, "UNKNOWN"}
    /\ At("insertRow") /\ "socket" \notin Faulty
       => ws[handler.source] \in {handler.status, "UNKNOWN"}

StoreInv == FirstInv /\ KeyInv /\ ProgressInv

LEMMA InitStore == Init => StoreInv /\ ViewsAgree
  BY DEF Init, StoreInv, FirstInv, KeyInv, ProgressInv, At, Idle, ViewsAgree, Views

LEMMA StoreStep == Basic /\ StoreInv /\ [Next]_vars => StoreInv'
<1> SUFFICES ASSUME Basic, StoreInv, [Next]_vars
             PROVE  StoreInv'
  OBVIOUS
<1> USE ServerAssumption DEF Basic, TypeOK, HandlerInv, StoreInv, FirstInv,
        KeyInv, ProgressInv, At, Goto, timers, sinks, Status
<1>1. ASSUME NEW s \in Sensor, NEW st \in Reports, ReceiveStatus(s, st)
      PROVE  StoreInv'
  BY <1>1 DEF ReceiveStatus, Idle
<1>2. CASE HandlerStep
  <2>1. CASE ReadState
    BY <2>1 DEF ReadState
  <2>2. CASE WriteFirst
    BY <2>2 DEF WriteFirst, Idle
  <2>3. CASE ReadArming
    BY <2>3 DEF ReadArming
  <2>4. CASE PublishHA
    BY <2>4 DEF PublishHA
  <2>5. CASE Push
    BY <2>5 DEF Push
  <2>6. CASE SetTimer
    BY <2>6 DEF SetTimer, StartTimer, StopTimer, LeaveTimer
  <2>7. CASE WriteState
    BY <2>7 DEF WriteState
  <2>8. CASE SendMessage
    BY <2>8 DEF SendMessage, Tell
  <2>9. CASE InsertRow
    BY <2>9 DEF InsertRow, Idle
  <2> QED
    BY <1>2, <2>1, <2>2, <2>3, <2>4, <2>5, <2>6, <2>7, <2>8, <2>9 DEF HandlerStep
<1>3. CASE HandlerFails
  <2>1. CASE RedisFails
    BY <2>1 DEF RedisFails, Abort, Idle
  <2>2. CASE PublishHAFails
    BY <2>2 DEF PublishHAFails, Abort, Idle
  <2>3. CASE PushFails
    BY <2>3 DEF PushFails, Abort, Idle
  <2>4. CASE InsertRowFails
    BY <2>4 DEF InsertRowFails, Abort, Idle
  <2> QED
    BY <1>3, <2>1, <2>2, <2>3, <2>4 DEF HandlerFails
<1>4. ASSUME NEW t \in Timer, Fire(t) \/ HandleOpenTimeout(t)
      PROVE  StoreInv'
  BY <1>4 DEF Fire, HandleOpenTimeout
<1>5. ASSUME NEW s \in Sensor, ReceiveHeartbeat(s) \/ HeartbeatExpires(s) \/ SetArming(s)
      PROVE  StoreInv'
  BY <1>5 DEF ReceiveHeartbeat, HeartbeatExpires, SetArming
<1>6. ASSUME NEW s \in Sensor, LapseStep(s)
      PROVE  StoreInv'
  <2>1. CASE LapseReadState(s)
    BY <2>1 DEF LapseReadState
  <2>2. CASE LapseWriteState(s)
    BY <2>2 DEF LapseWriteState
  <2>3. CASE LapsePush(s)
    BY <2>3 DEF LapsePush
  <2>4. CASE LapseSendMessage(s)
    BY <2>4 DEF LapseSendMessage, Tell
  <2>5. CASE LapseInsertRow(s)
    BY <2>5 DEF LapseInsertRow
  <2> QED
    BY <1>6, <2>1, <2>2, <2>3, <2>4, <2>5 DEF LapseStep
<1>7. CASE Restart
  BY <1>7 DEF Restart, Idle
<1>8. CASE UNCHANGED vars
  BY <1>8 DEF vars
<1> QED
  BY <1>1, <1>2, <1>3, <1>4, <1>5, <1>6, <1>7, <1>8 DEF Next

-----------------------------------------------------------------------------
(* The views of a sensor agree *)

LEMMA ViewsStep == Basic /\ StoreInv /\ ViewsAgree /\ [Next]_vars => ViewsAgree'
<1> SUFFICES ASSUME Basic, StoreInv, ViewsAgree, [Next]_vars
             PROVE  ViewsAgree'
  OBVIOUS
<1> USE ServerAssumption DEF Basic, TypeOK, HandlerInv, StoreInv, FirstInv,
        KeyInv, ProgressInv, ViewsAgree, Views, Settled, At, Goto,
        timers, sinks, Status
<1>1. ASSUME NEW s \in Sensor, NEW st \in Reports, ReceiveStatus(s, st)
      PROVE  ViewsAgree'
  BY <1>1 DEF ReceiveStatus, Idle
<1>2. CASE HandlerStep
  <2>1. CASE ReadState
    BY <2>1 DEF ReadState
  <2>2. CASE WriteFirst
    BY <2>2 DEF WriteFirst, Idle
  <2>3. CASE ReadArming
    BY <2>3 DEF ReadArming
  <2>4. CASE PublishHA
    BY <2>4 DEF PublishHA
  <2>5. CASE Push
    BY <2>5 DEF Push
  <2>6. CASE SetTimer
    BY <2>6 DEF SetTimer
  <2>7. CASE WriteState
    BY <2>7 DEF WriteState
  <2>8. CASE SendMessage
    BY <2>8 DEF SendMessage, Tell
  <2>9. CASE InsertRow
    BY <2>9 DEF InsertRow, Idle
  <2> QED
    BY <1>2, <2>1, <2>2, <2>3, <2>4, <2>5, <2>6, <2>7, <2>8, <2>9 DEF HandlerStep
<1>3. CASE HandlerFails
  <2>1. CASE RedisFails
    BY <2>1 DEF RedisFails, Abort, Idle
  <2>2. CASE PublishHAFails
    BY <2>2 DEF PublishHAFails, Abort, Idle
  <2>3. CASE PushFails
    BY <2>3 DEF PushFails, Abort, Idle
  <2>4. CASE InsertRowFails
    BY <2>4 DEF InsertRowFails, Abort, Idle
  <2> QED
    BY <1>3, <2>1, <2>2, <2>3, <2>4 DEF HandlerFails
<1>4. ASSUME NEW t \in Timer, Fire(t) \/ HandleOpenTimeout(t)
      PROVE  ViewsAgree'
  BY <1>4 DEF Fire, HandleOpenTimeout
<1>5. ASSUME NEW s \in Sensor, ReceiveHeartbeat(s) \/ HeartbeatExpires(s) \/ SetArming(s)
      PROVE  ViewsAgree'
  BY <1>5 DEF ReceiveHeartbeat, HeartbeatExpires, SetArming
<1>6. ASSUME NEW s \in Sensor, LapseStep(s)
      PROVE  ViewsAgree'
  <2>1. CASE LapseReadState(s)
    BY <2>1 DEF LapseReadState
  <2>2. CASE LapseWriteState(s)
    BY <2>2 DEF LapseWriteState
  <2>3. CASE LapsePush(s)
    BY <2>3 DEF LapsePush
  <2>4. CASE LapseSendMessage(s)
    BY <2>4 DEF LapseSendMessage, Tell
  <2>5. CASE LapseInsertRow(s)
    BY <2>5 DEF LapseInsertRow
  <2> QED
    BY <1>6, <2>1, <2>2, <2>3, <2>4, <2>5 DEF LapseStep
<1>7. CASE Restart
  BY <1>7 DEF Restart, Idle
<1>8. CASE UNCHANGED vars
  BY <1>8 DEF vars
<1> QED
  BY <1>1, <1>2, <1>3, <1>4, <1>5, <1>6, <1>7, <1>8 DEF Next

-----------------------------------------------------------------------------
(* The timer of a sensor fits its state *)

\* A map entry is a timer started for that sensor, so no two entries are the same.
MapInv ==
    \A s \in Sensor : delayTimerMap[s] # None =>
        /\ timer[delayTimerMap[s]].source = s
        /\ timer[delayTimerMap[s]].state # "unused"

\* What the timer switch has done stands while the handler goes on.
SwitchInv ==
    handler.pc \in {"writeState", "sendMessage", "insertRow"} =>
        LET t == delayTimerMap[handler.source]
        IN /\ handler.status = "OPEN" => t # None /\ timer[t].state # "stopped"
           /\ handler.status = "CLOSED" => t = None \/ timer[t].state # "running"

MatchInv == MapInv /\ SwitchInv /\ TimerMatchesState

LEMMA InitMatch == Init => MatchInv
  BY DEF Init, MatchInv, MapInv, SwitchInv, TimerMatchesState, Idle

LEMMA MatchStep == Basic /\ StoreInv /\ MatchInv /\ [Next]_vars => MatchInv'
<1> SUFFICES ASSUME Basic, StoreInv, MatchInv, [Next]_vars
             PROVE  MatchInv'
  OBVIOUS
<1> USE ServerAssumption DEF Basic, TypeOK, HandlerInv, StoreInv, FirstInv,
        KeyInv, ProgressInv, MatchInv, MapInv, SwitchInv, TimerMatchesState,
        Settled, At, Goto, timers, sinks, Status
<1>1. ASSUME NEW s \in Sensor, NEW st \in Reports, ReceiveStatus(s, st)
      PROVE  MatchInv'
  BY <1>1 DEF ReceiveStatus, Idle
<1>2. CASE HandlerStep
  <2>1. CASE ReadState
    BY <2>1 DEF ReadState
  <2>2. CASE WriteFirst
    BY <2>2 DEF WriteFirst, Idle
  <2>3. CASE ReadArming
    BY <2>3 DEF ReadArming
  <2>4. CASE PublishHA
    BY <2>4 DEF PublishHA
  <2>5. CASE Push
    BY <2>5 DEF Push
  <2>6. CASE SetTimer
    <3>1. CASE StartTimer
      BY <2>6, <3>1 DEF SetTimer, StartTimer, Free
    <3>2. CASE StopTimer
      BY <2>6, <3>2 DEF SetTimer, StopTimer
    <3>3. CASE LeaveTimer
      BY <2>6, <3>3 DEF SetTimer, LeaveTimer
    <3> QED
      BY <2>6, <3>1, <3>2, <3>3 DEF SetTimer
  <2>7. CASE WriteState
    BY <2>7 DEF WriteState
  <2>8. CASE SendMessage
    BY <2>8 DEF SendMessage, Tell
  <2>9. CASE InsertRow
    BY <2>9 DEF InsertRow, Idle
  <2> QED
    BY <1>2, <2>1, <2>2, <2>3, <2>4, <2>5, <2>6, <2>7, <2>8, <2>9 DEF HandlerStep
<1>3. CASE HandlerFails
  <2>1. CASE RedisFails
    BY <2>1 DEF RedisFails, Abort, Idle
  <2>2. CASE PublishHAFails
    BY <2>2 DEF PublishHAFails, Abort, Idle
  <2>3. CASE PushFails
    BY <2>3 DEF PushFails, Abort, Idle
  <2>4. CASE InsertRowFails
    BY <2>4 DEF InsertRowFails, Abort, Idle
  <2> QED
    BY <1>3, <2>1, <2>2, <2>3, <2>4 DEF HandlerFails
<1>4. ASSUME NEW t \in Timer, Fire(t) \/ HandleOpenTimeout(t)
      PROVE  MatchInv'
  <2>1. /\ timer' \in {[timer EXCEPT ![t].state = "firing"], [timer EXCEPT ![t].state = "fired"]}
        /\ timer[t].state \in {"running", "firing"}
        /\ UNCHANGED <<handler, redis, delayTimerMap, torn>>
    BY <1>4 DEF Fire, HandleOpenTimeout
  <2>2. /\ \A u \in Timer : timer'[u].source = timer[u].source
        /\ \A u \in Timer \ {t} : timer'[u].state = timer[u].state
        /\ timer'[t].state \in {"firing", "fired"}
    BY <2>1
  <2>3. MapInv'
    BY <2>1, <2>2
  <2>4. SwitchInv'
    BY <2>1, <2>2
  <2>5. TimerMatchesState'
    BY <2>1, <2>2
  <2> QED
    BY <2>3, <2>4, <2>5
<1>5. ASSUME NEW s \in Sensor, ReceiveHeartbeat(s) \/ HeartbeatExpires(s) \/ SetArming(s)
      PROVE  MatchInv'
  BY <1>5 DEF ReceiveHeartbeat, HeartbeatExpires, SetArming
<1>6. ASSUME NEW s \in Sensor, LapseStep(s)
      PROVE  MatchInv'
  <2>1. CASE LapseReadState(s)
    BY <2>1 DEF LapseReadState
  <2>2. CASE LapseWriteState(s)
    BY <2>2 DEF LapseWriteState
  <2>3. CASE LapsePush(s)
    BY <2>3 DEF LapsePush
  <2>4. CASE LapseSendMessage(s)
    BY <2>4 DEF LapseSendMessage, Tell
  <2>5. CASE LapseInsertRow(s)
    BY <2>5 DEF LapseInsertRow
  <2> QED
    BY <1>6, <2>1, <2>2, <2>3, <2>4, <2>5 DEF LapseStep
<1>7. CASE Restart
  BY <1>7 DEF Restart, Idle
<1>8. CASE UNCHANGED vars
  BY <1>8 DEF vars
<1> QED
  BY <1>1, <1>2, <1>3, <1>4, <1>5, <1>6, <1>7, <1>8 DEF Next

Inv == Basic /\ StoreInv /\ ViewsAgree /\ MatchInv

LEMMA InvInit == Init => Inv
  BY InitBasic, InitStore, InitMatch DEF Inv

LEMMA InvStep == Inv /\ [Next]_vars => Inv'
  BY BasicStep, StoreStep, ViewsStep, MatchStep DEF Inv

LEMMA Invariance == Spec => []Inv
  BY InvInit, InvStep, PTL DEF Spec

\* Redis, Home Assistant, the websocket, Postgres and the last report never
\* contradict each other about a sensor whose last report was handled to its end.
THEOREM ViewsAgreeAlways == Spec => []ViewsAgree
  BY Invariance, PTL DEF Inv

\* The timer the server holds for such a sensor fits the status in Redis.
THEOREM TimerMatchesStateAlways == Spec => []TimerMatchesState
  BY Invariance, PTL DEF Inv, MatchInv

-----------------------------------------------------------------------------
(* An armed opening is announced before it is stored *)

\* From the first read to the write of the handler, Redis holds what was read or
\* an UNKNOWN written over it.  A handler past the push of an armed opening has
\* had its answer.
AnnounceInv ==
    /\ handler.pc \in {"readArming", "publishHA", "push", "setTimer", "writeState"}
       => redis[handler.source] \in {handler.last, "UNKNOWN"}
    /\ handler.pc \in {"setTimer", "writeState"} /\ JustOpened /\ handler.armed
       => {"opened", "refused"} \cap ntfy[handler.source] # {}

LEMMA InitAnnounce == Init => AnnounceInv
  BY DEF Init, AnnounceInv, Idle

LEMMA AnnounceStep == Basic /\ AnnounceInv /\ [Next]_vars => AnnounceInv'
<1> SUFFICES ASSUME Basic, AnnounceInv, [Next]_vars
             PROVE  AnnounceInv'
  OBVIOUS
<1> USE ServerAssumption DEF Basic, TypeOK, HandlerInv, TimerInv, AnnounceInv,
        JustOpened, At, Goto, timers, sinks, Status, Notification
<1>1. ASSUME NEW s \in Sensor, NEW st \in Reports, ReceiveStatus(s, st)
      PROVE  AnnounceInv'
  BY <1>1 DEF ReceiveStatus, Idle
<1>2. CASE HandlerStep
  <2>1. CASE ReadState
    BY <2>1 DEF ReadState
  <2>2. CASE ReadArming
    BY <2>2 DEF ReadArming
  <2>3. CASE PublishHA
    BY <2>3 DEF PublishHA
  <2>4. CASE Push
    <3>1. PICK answer \in {"opened", "refused"} :
            ntfy' = [ntfy EXCEPT ![handler.source] = @ \cup {answer}]
      BY <2>4 DEF Push
    <3>2. /\ handler.source \in Sensor /\ handler.pc = "push"
          /\ handler' = [handler EXCEPT !.pc = "setTimer"] /\ UNCHANGED redis
      BY <2>4 DEF Push
    <3>3. answer \in ntfy'[handler.source]
      BY <3>1, <3>2
    <3>4. {"opened", "refused"} \cap ntfy'[handler.source] # {}
      BY <3>1, <3>3
    <3> QED
      BY <3>2, <3>4
  <2>5. CASE SetTimer
    BY <2>5 DEF SetTimer
  <2>6. CASE WriteFirst \/ InsertRow
    BY <2>6 DEF WriteFirst, InsertRow, Idle
  <2>7. CASE WriteState \/ SendMessage
    BY <2>7 DEF WriteState, SendMessage
  <2> QED
    BY <1>2, <2>1, <2>2, <2>3, <2>4, <2>5, <2>6, <2>7 DEF HandlerStep
<1>3. CASE HandlerFails
  BY <1>3 DEF HandlerFails, RedisFails, PublishHAFails, PushFails,
              InsertRowFails, Abort, Idle
<1>4. ASSUME NEW t \in Timer, Fire(t) \/ HandleOpenTimeout(t)
      PROVE  AnnounceInv'
  <2>1. CASE Fire(t)
    BY <2>1 DEF Fire
  <2>2. CASE HandleOpenTimeout(t)
    BY <2>2 DEF HandleOpenTimeout, PushOrLog
  <2> QED
    BY <1>4, <2>1, <2>2
<1>5. ASSUME NEW s \in Sensor, ReceiveHeartbeat(s) \/ HeartbeatExpires(s) \/ SetArming(s)
      PROVE  AnnounceInv'
  BY <1>5 DEF ReceiveHeartbeat, HeartbeatExpires, SetArming
<1>6. ASSUME NEW s \in Sensor, LapseStep(s)
      PROVE  AnnounceInv'
  <2>1. CASE LapsePush(s)
    BY <2>1 DEF LapsePush, PushOrLog
  <2>2. CASE ~LapsePush(s)
    BY <1>6, <2>2 DEF LapseStep, LapseReadState, LapseWriteState,
                      LapseSendMessage, LapseInsertRow
  <2> QED
    BY <2>1, <2>2
<1>7. CASE Restart
  BY <1>7 DEF Restart, Idle
<1>8. CASE UNCHANGED vars
  BY <1>8 DEF vars
<1> QED
  BY <1>1, <1>2, <1>3, <1>4, <1>5, <1>6, <1>7, <1>8 DEF Next

\* Redis never turns from CLOSED to OPEN for a sensor read as armed before ntfy has
\* answered the push of the opening, be it with a refusal in JSON, which passes
\* for a push (server.go:465-505 and 547-560).
THEOREM ArmedOpeningIsAnnounced == Spec => ArmedOpeningAnnounced
<1> DEFINE Announced ==
      \A s \in Sensor :
        (/\ redis[s] = "CLOSED" /\ redis'[s] = "OPEN"
         /\ handler.source = s /\ handler.armed)
        => {"opened", "refused"} \cap ntfy[s] # {}
<1>1. Inv /\ AnnounceInv /\ [Next]_vars => [Announced]_vars
  <2> SUFFICES ASSUME Inv, AnnounceInv, Next, NEW s \in Sensor,
                      redis[s] = "CLOSED", redis'[s] = "OPEN",
                      handler.source = s, handler.armed
               PROVE  {"opened", "refused"} \cap ntfy[s] # {}
    OBVIOUS
  <2> USE ServerAssumption DEF Inv, Basic, TypeOK, HandlerInv, StoreInv, KeyInv,
          At, Goto, timers, sinks, Status
  <2>1. At("writeState") /\ handler.status = "OPEN"
    <3>1. CASE HandlerStep
      BY <3>1 DEF HandlerStep, ReadState, WriteFirst, ReadArming, PublishHA, Push,
                  SetTimer, WriteState, SendMessage, InsertRow
    <3>2. CASE HandlerFails
      BY <3>2 DEF HandlerFails, RedisFails, PublishHAFails, PushFails,
                  InsertRowFails, Abort
    <3>3. CASE \E r \in Sensor : LapseStep(r)
      BY <3>3 DEF LapseStep, LapseReadState, LapseWriteState, LapsePush,
                  LapseSendMessage, LapseInsertRow
    <3>4. CASE ~HandlerStep /\ ~HandlerFails /\ ~(\E r \in Sensor : LapseStep(r))
      BY <3>4 DEF Next, ReceiveStatus, Fire, HandleOpenTimeout, ReceiveHeartbeat,
                  HeartbeatExpires, SetArming, Restart
    <3> QED
      BY <3>1, <3>2, <3>3, <3>4
  <2>2. handler.last = "CLOSED"
    BY <2>1 DEF AnnounceInv
  <2> QED
    BY <2>1, <2>2 DEF AnnounceInv, JustOpened
<1>2. Spec => []AnnounceInv
  <2>1. Inv /\ AnnounceInv /\ [Next]_vars => AnnounceInv'
    BY AnnounceStep DEF Inv
  <2> QED
    BY <2>1, InitAnnounce, Invariance, PTL DEF Spec
<1> QED
  BY <1>1, <1>2, Invariance, PTL DEF Spec, ArmedOpeningAnnounced

-----------------------------------------------------------------------------
(* Alarms of sensors that alternate *)

\* Sensors report OPEN and CLOSED in turn, and neither Redis nor Home Assistant
\* returns an error: the two services called before the timer switch on every
\* path.  The push may fail, as only an opening is pushed.
Alternating ==
    /\ "repeat" \notin Events
    /\ Reports \subseteq {"OPEN", "CLOSED"}
    /\ Faulty \cap {"redis", "ha"} = {}

Running(t, s) == timer[t].state = "running" /\ timer[t].source = s

\* Every running timer of s can be stopped through the map.  None runs when the
\* last report of s is not OPEN, unless that report is on its way to the timer
\* switch; nor when an OPEN of s is on its way there.
AlarmInv(s) ==
    \A t \in Timer : Running(t, s) =>
        /\ delayTimerMap[s] = t
        /\ handler.source # s => reported[s] = "OPEN"
        /\ handler.source = s =>
            /\ handler.pc \in {"readState", "writeFirst", "readArming",
                              "publishHA", "push", "setTimer"}
               => handler.status = "CLOSED"
            /\ handler.pc \in {"writeState", "sendMessage", "insertRow"}
               => handler.status = "OPEN"

\* Only an opening is pushed.
PushInv == At("push") => handler.status = "OPEN"

LEMMA PushStep == Basic /\ PushInv /\ [Next]_vars => PushInv'
<1> SUFFICES ASSUME Basic, PushInv, [Next]_vars
             PROVE  PushInv'
  OBVIOUS
<1>type. handler \in [pc : HandlerPC, source : Sensor \cup {None}, status : Status \cup {None},
                     last : Status \cup {None}, armed : BOOLEAN]
  BY DEF Basic, TypeOK
<1> USE DEF PushInv, At, Goto, timers, sinks
<1>1. CASE UNCHANGED handler
  BY <1>1
<1>2. ASSUME handler'.pc # "push"
      PROVE  PushInv'
  BY <1>2
<1>3. CASE HandlerStep
  <2>1. CASE PublishHA
    BY <1>type, <2>1 DEF PublishHA, JustOpened
  <2>2. CASE ReadState \/ ReadArming \/ Push
    BY <1>type, <2>2 DEF ReadState, ReadArming, Push
  <2>3. CASE SetTimer \/ WriteState \/ SendMessage
    BY <1>type, <2>3 DEF SetTimer, WriteState, SendMessage
  <2>4. CASE WriteFirst \/ InsertRow
    BY <2>4 DEF WriteFirst, InsertRow, Idle
  <2> QED
    BY <1>3, <2>1, <2>2, <2>3, <2>4 DEF HandlerStep
<1>4. CASE HandlerFails
  BY <1>4 DEF HandlerFails, RedisFails, PublishHAFails, PushFails, InsertRowFails, Abort, Idle
<1>5. CASE Restart \/ \E s \in Sensor, st \in Reports : ReceiveStatus(s, st)
  <2>1. CASE Restart
    BY <2>1 DEF Restart, Idle
  <2>2. ASSUME NEW s \in Sensor, NEW st \in Reports, ReceiveStatus(s, st)
        PROVE  PushInv'
    BY <2>2 DEF ReceiveStatus, Idle
  <2> QED
    BY <1>5, <2>1, <2>2
<1>6. CASE UNCHANGED vars
  BY <1>1, <1>6 DEF vars
<1>7. CASE \/ \E t \in Timer : Fire(t) \/ HandleOpenTimeout(t)
           \/ \E s \in Sensor : \/ ReceiveHeartbeat(s) \/ HeartbeatExpires(s)
                                \/ LapseStep(s) \/ SetArming(s)
  BY <1>1, <1>7 DEF Fire, HandleOpenTimeout, ReceiveHeartbeat, HeartbeatExpires, SetArming,
     LapseStep, LapseReadState, LapseWriteState, LapsePush, LapseSendMessage, LapseInsertRow
<1> QED
  BY <1>3, <1>4, <1>5, <1>6, <1>7 DEF Next

\* What is asked of a sensor is asked of s only: the others may repeat whatever
\* they like.
LEMMA AlarmStep ==
  ASSUME Faulty \cap {"redis", "ha"} = {}, Inv, PushInv, [Next]_vars,
         NEW s \in Sensor, AlarmInv(s),
         \A st \in Reports :
            ReceiveStatus(s, st) => st \in {"OPEN", "CLOSED"} /\ st # reported[s]
  PROVE  AlarmInv(s)'
<1> USE ServerAssumption DEF Inv, Basic, TypeOK, HandlerInv, TimerInv, StoreInv,
        FirstInv, KeyInv, MatchInv, MapInv, AlarmInv, PushInv, Running,
        At, Goto, timers, sinks, Status
<1> DEFINE Goal == AlarmInv(s)'
<1>0. ASSUME UNCHANGED <<handler, timer, delayTimerMap, reported>>
      PROVE  Goal
  BY ONLY <1>0, AlarmInv(s) DEF AlarmInv, Running, At
<1>1. ASSUME NEW q \in Sensor, NEW st \in Reports, ReceiveStatus(q, st)
      PROVE  Goal
  <2>1. /\ handler.pc = "idle" /\ handler.source = None /\ None \notin Sensor
        /\ handler' = [Idle EXCEPT !.pc = "readState", !.source = q, !.status = st]
        /\ reported' = [reported EXCEPT ![q] = st] /\ UNCHANGED timers
    BY <1>1 DEF ReceiveStatus
  <2>2. handler'.pc = "readState" /\ handler'.source = q /\ handler'.status = st
    BY ONLY <2>1 DEF Idle
  <2>3. q = s => st \in {"OPEN", "CLOSED"} /\ st # reported[s]
    BY <1>1
  <2>4. q # s => reported'[s] = reported[s]
    BY ONLY <2>1
  <2> QED
    BY ONLY <2>1, <2>2, <2>3, <2>4, AlarmInv(s) DEF AlarmInv, Running, timers
<1>2. CASE HandlerStep
  <2>1. CASE ReadState
    BY <2>1 DEF ReadState
  <2>2. CASE WriteFirst
    BY <2>2 DEF WriteFirst, Idle
  <2>3. CASE ReadArming
    BY <2>3 DEF ReadArming
  <2>4. CASE PublishHA
    BY <2>4 DEF PublishHA, JustOpened
  <2>5. CASE Push
    BY <2>5 DEF Push
  <2>6. CASE SetTimer
    <3>1. CASE StartTimer
      BY <2>6, <3>1 DEF SetTimer, StartTimer, Free
    <3>2. CASE StopTimer
      BY <2>6, <3>2 DEF SetTimer, StopTimer
    <3>3. CASE LeaveTimer
      BY <2>6, <3>3 DEF SetTimer, LeaveTimer
    <3> QED
      BY <2>6, <3>1, <3>2, <3>3 DEF SetTimer
  <2>7. CASE WriteState
    BY <2>7 DEF WriteState
  <2>8. CASE SendMessage
    BY <2>8 DEF SendMessage
  <2>9. CASE InsertRow
    BY <2>9 DEF InsertRow, Idle
  <2> QED
    BY <1>2, <2>1, <2>2, <2>3, <2>4, <2>5, <2>6, <2>7, <2>8, <2>9 DEF HandlerStep
<1>3. CASE HandlerFails
  <2>1. CASE PushFails
    BY <2>1 DEF PushFails, Abort, Idle
  <2>2. CASE InsertRowFails
    BY <2>2 DEF InsertRowFails, Abort, Idle
  <2> QED
    BY <1>3, <2>1, <2>2 DEF HandlerFails, RedisFails, PublishHAFails, Abort
<1>4. ASSUME NEW t \in Timer, Fire(t) \/ HandleOpenTimeout(t)
      PROVE  Goal
  <2>1. UNCHANGED <<handler, delayTimerMap, reported>>
    BY ONLY <1>4 DEF Fire, HandleOpenTimeout
  <2>2. timer \in [Timer -> [state : {"unused", "running", "firing", "fired", "stopped"},
                            source : Sensor \cup {None}, armed : BOOLEAN]]
    BY ONLY Inv DEF Inv, Basic, TypeOK
  <2>3. \A u \in Timer : Running(u, s)' => Running(u, s)
    BY ONLY <1>4, <2>2 DEF Fire, HandleOpenTimeout, Running
  <2> QED
    BY ONLY <2>1, <2>3, AlarmInv(s) DEF AlarmInv
<1>5. ASSUME NEW q \in Sensor, ReceiveHeartbeat(q) \/ HeartbeatExpires(q) \/ SetArming(q)
      PROVE  Goal
  BY ONLY <1>0, <1>5 DEF ReceiveHeartbeat, HeartbeatExpires, SetArming, timers
<1>6. ASSUME NEW q \in Sensor, LapseStep(q)
      PROVE  Goal
  BY ONLY <1>0, <1>6 DEF LapseStep, LapseReadState, LapseWriteState, LapsePush,
        LapseSendMessage, LapseInsertRow, timers
<1>7. CASE Restart
  BY <1>7 DEF Restart, Idle, Unused
<1>8. CASE UNCHANGED vars
  BY ONLY <1>0, <1>8 DEF vars
<1> QED
  BY <1>1, <1>2, <1>3, <1>4, <1>5, <1>6, <1>7, <1>8 DEF Next

\* With alternating sensors no open timeout starts for a sensor that is closed,
\* whatever the push service, the websocket and Postgres do, and although the
\* server may restart and heartbeats may time out at any step.
THEOREM AlternationMeansNoFalseAlarm ==
  ASSUME Alternating
  PROVE  Spec => AlarmOnlyWhileOpen
<1> DEFINE AlarmInvs == PushInv /\ \A s \in Sensor : AlarmInv(s)
           OnlyWhileOpen ==
      \A t \in Timer :
        LET s == timer[t].source
        IN (timer[t].state = "running" /\ timer'[t].state = "firing" /\ Settled(s))
           => reported[s] # "CLOSED"
<1>1. Init => AlarmInvs
  BY DEF Init, AlarmInv, PushInv, Running, At, Idle, Unused
<1>2. Inv /\ AlarmInvs /\ [Next]_vars => AlarmInvs'
  <2> SUFFICES ASSUME Inv, AlarmInvs, [Next]_vars
               PROVE  AlarmInvs'
    OBVIOUS
  <2>1. \A s \in Sensor, st \in Reports :
          ReceiveStatus(s, st) => st \in {"OPEN", "CLOSED"} /\ st # reported[s]
    BY DEF ReceiveStatus, Alternating
  <2>2. \A s \in Sensor : AlarmInv(s)'
    BY <2>1, AlarmStep DEF Alternating
  <2> QED
    BY <2>2, PushStep DEF Inv
<1>3. Inv /\ AlarmInvs => OnlyWhileOpen
  BY DEF Inv, Basic, TypeOK, TimerInv, AlarmInv, Running, Settled
<1>4. Spec => []AlarmInvs
  BY <1>1, <1>2, Invariance, PTL DEF Spec
<1> QED
  BY <1>3, <1>4, Invariance, PTL DEF Spec, AlarmOnlyWhileOpen

-----------------------------------------------------------------------------
(***************************************************************************)
(* SensorServer implements DoorMonitor: every step of the server is a step *)
(* of the door monitor or leaves everything the monitor sees unchanged.    *)
(***************************************************************************)

\* An opening is judged by the status read at the handler's first step; since
\* then it can only have become UNKNOWN.
LastInv ==
    /\ handler.pc \in {"readArming", "publishHA", "push"} =>
        redis[handler.source] \in {handler.last, "UNKNOWN"}
    /\ At("push") => JustOpened

RefinementInv == Basic /\ StoreInv /\ MatchInv /\ LastInv

LEMMA LastStep == Basic /\ StoreInv /\ LastInv /\ [Next]_vars => LastInv'
<1> SUFFICES ASSUME Basic, StoreInv, LastInv, [Next]_vars
             PROVE  LastInv'
  OBVIOUS
<1> USE ServerAssumption DEF Basic, TypeOK, HandlerInv, LastInv, JustOpened, At, Goto,
        timers, sinks, Status
<1>1. ASSUME NEW s \in Sensor, NEW st \in Reports, ReceiveStatus(s, st)
      PROVE  LastInv'
  BY <1>1 DEF ReceiveStatus, Idle
<1>2. CASE HandlerStep
  <2>1. CASE ReadState
    BY <2>1 DEF ReadState
  <2>2. CASE WriteFirst \/ InsertRow
    BY <2>2 DEF WriteFirst, InsertRow, Idle
  <2>3. CASE ReadArming
    BY <2>3 DEF ReadArming
  <2>4. CASE PublishHA
    BY <2>4 DEF PublishHA
  <2>5. CASE Push \/ SetTimer \/ WriteState \/ SendMessage
    BY <2>5 DEF Push, SetTimer, WriteState, SendMessage
  <2> QED
    BY <1>2, <2>1, <2>2, <2>3, <2>4, <2>5 DEF HandlerStep
<1>3. CASE HandlerFails
  BY <1>3 DEF HandlerFails, RedisFails, PublishHAFails, PushFails, InsertRowFails, Abort, Idle
<1>4. ASSUME NEW t \in Timer, Fire(t) \/ HandleOpenTimeout(t)
      PROVE  LastInv'
  BY <1>4 DEF Fire, HandleOpenTimeout
<1>5. ASSUME NEW s \in Sensor, ReceiveHeartbeat(s) \/ HeartbeatExpires(s) \/ SetArming(s)
      PROVE  LastInv'
  BY <1>5 DEF ReceiveHeartbeat, HeartbeatExpires, SetArming
<1>6. ASSUME NEW s \in Sensor, LapseStep(s)
      PROVE  LastInv'
  <2>1. CASE LapseWriteState(s)
    BY <2>1 DEF LapseWriteState
  <2>2. CASE LapseReadState(s) \/ LapsePush(s) \/ LapseSendMessage(s) \/ LapseInsertRow(s)
    BY <2>2 DEF LapseReadState, LapsePush, LapseSendMessage, LapseInsertRow
  <2> QED
    BY <1>6, <2>1, <2>2 DEF LapseStep
<1>7. CASE Restart
  BY <1>7 DEF Restart, Idle
<1>8. CASE UNCHANGED vars
  BY <1>8 DEF vars
<1> QED
  BY <1>1, <1>2, <1>3, <1>4, <1>5, <1>6, <1>7, <1>8 DEF Next

LEMMA RefinementInvAlways == Spec => []RefinementInv
<1>1. Init => LastInv
  BY DEF Init, LastInv, At, Idle
<1> QED
  BY <1>1, InitBasic, InitStore, InitMatch, BasicStep, StoreStep, MatchStep, LastStep, PTL
  DEF Spec, RefinementInv

-----------------------------------------------------------------------------
(* What the monitor sees *)

Clocks == [s \in Sensor |-> RunningFor(s)]

Seen == <<reported, redis, Told, Clocks>>

LEMMA SameClocks == UNCHANGED timer => UNCHANGED Clocks
  BY DEF Clocks, RunningFor

LEMMA SameTold == UNCHANGED ntfy => UNCHANGED Told
  BY DEF Told

\* What a push or a refusal adds to what the user was told.
LEMMA MoreTold ==
  ASSUME TypeOK, NEW s \in Sensor, NEW n \in Notification,
         ntfy' = [ntfy EXCEPT ![s] = @ \cup {n}]
  PROVE  /\ n # "refused" => Told' = [Told EXCEPT ![s] = @ \cup {n}]
         /\ n = "refused" => UNCHANGED Told
<1>1. \A r \in Sensor : ntfy'[r] = IF r = s THEN ntfy[r] \cup {n} ELSE ntfy[r]
  BY DEF TypeOK
<1>2. \A r \in Sensor : Told'[r] = ntfy'[r] \ {"refused"} /\ Told[r] = ntfy[r] \ {"refused"}
  BY DEF Told
<1>3. CASE n # "refused"
  <2>1. \A r \in Sensor : Told'[r] = IF r = s THEN Told[r] \cup {n} ELSE Told[r]
    <3>1. \A N : (N \cup {n}) \ {"refused"} = (N \ {"refused"}) \cup {n}
      BY <1>3
    <3> QED
      BY <1>1, <1>2, <3>1
  <2> QED
    BY <1>3, <2>1 DEF Told
<1>4. CASE n = "refused"
  <2>1. \A r \in Sensor : Told'[r] = Told[r]
    <3>1. \A N : (N \cup {n}) \ {"refused"} = N \ {"refused"}
      BY <1>4
    <3> QED
      BY <1>1, <1>2, <3>1
  <2> QED
    BY <1>4, <2>1 DEF Told
<1> QED
  BY <1>3, <1>4

\* Of the handler's steps the monitor sees the push, the switch of the timer and
\* the writes to Redis.
LEMMA HandlerRefines ==
  ASSUME RefinementInv, HandlerStep \/ HandlerFails
  PROVE  Monitor!Next \/ UNCHANGED Seen
<1> DEFINE s == handler.source
<1> USE ServerAssumption DEF RefinementInv, Basic, TypeOK, HandlerInv, StoreInv, KeyInv,
        LastInv, JustOpened, At, Goto, timers, sinks, Status
<1>1. ASSUME UNCHANGED <<reported, ntfy, timer>>, s \in Sensor, reported[s] # None,
             redis' \in {redis, [redis EXCEPT ![s] = reported[s]]}
      PROVE  Monitor!Next \/ UNCHANGED Seen
  <2>1. UNCHANGED Clocks /\ UNCHANGED Told
    BY <1>1, SameClocks, SameTold
  <2>2. CASE UNCHANGED redis
    BY <1>1, <2>1, <2>2 DEF Seen
  <2>3. CASE redis' = [redis EXCEPT ![s] = reported[s]]
    <3>1. Monitor!Store(s)
      BY <1>1, <2>1, <2>3 DEF Monitor!Store, Clocks
    <3> QED
      BY <3>1, <1>1 DEF Monitor!Next
  <2> QED
    BY <1>1, <2>2, <2>3
<1>2. ASSUME UNCHANGED <<reported, redis, timer>>, At("push"),
             ntfy' \in {ntfy, [ntfy EXCEPT ![s] = @ \cup {"opened"}],
                             [ntfy EXCEPT ![s] = @ \cup {"refused"}]}
      PROVE  Monitor!Next \/ UNCHANGED Seen
  <2>1. UNCHANGED Clocks
    BY <1>2, SameClocks
  <2>2. CASE UNCHANGED ntfy
    BY <1>2, <2>1, <2>2, SameTold DEF Seen
  <2>3. CASE ntfy' = [ntfy EXCEPT ![s] = @ \cup {"opened"}]
    <3>1. s \in Sensor /\ reported[s] = "OPEN" /\ redis[s] \in {"CLOSED", "UNKNOWN"}
      BY <1>2
    <3>2. Told' = [Told EXCEPT ![s] = @ \cup {"opened"}]
      BY <2>3, <3>1, MoreTold DEF Notification
    <3>3. Monitor!Announce(s)
      BY <1>2, <2>1, <3>1, <3>2 DEF Monitor!Announce, Clocks
    <3> QED
      BY <3>1, <3>3 DEF Monitor!Next
  <2>4. CASE ntfy' = [ntfy EXCEPT ![s] = @ \cup {"refused"}]
    <3>1. s \in Sensor
      BY <1>2
    <3>2. UNCHANGED Told
      BY <2>4, <3>1, MoreTold DEF Notification
    <3> QED
      BY <1>2, <2>1, <3>2 DEF Seen
  <2> QED
    BY <1>2, <2>2, <2>3, <2>4
<1>3. CASE ReadState \/ ReadArming \/ PublishHA \/ SendMessage \/ InsertRow \/ PublishHAFails
           \/ InsertRowFails
  <2>1. UNCHANGED <<reported, redis, ntfy, timer>>
    BY <1>3 DEF ReadState, ReadArming, PublishHA, SendMessage, InsertRow, PublishHAFails,
                InsertRowFails, Abort
  <2> QED
    BY <2>1, SameClocks, SameTold DEF Seen
<1>4. CASE WriteFirst
  <2>1. UNCHANGED <<reported, ntfy, timer>> /\ s \in Sensor /\ reported[s] # None
    BY <1>4 DEF WriteFirst
  <2>2. redis' = [redis EXCEPT ![s] = reported[s]]
    BY <1>4 DEF WriteFirst
  <2> QED
    BY <1>1, <2>1, <2>2
<1>5. CASE WriteState
  <2>1. UNCHANGED <<reported, ntfy, timer>> /\ s \in Sensor /\ reported[s] # None
    BY <1>5 DEF WriteState
  <2>2. redis' = [redis EXCEPT ![s] = reported[s]]
    BY <1>5 DEF WriteState
  <2> QED
    BY <1>1, <2>1, <2>2
<1>6. CASE RedisFails
  <2>1. UNCHANGED <<reported, ntfy, timer>> /\ s \in Sensor /\ reported[s] # None
    BY <1>6 DEF RedisFails, Abort
  <2>2. redis' \in {redis, [redis EXCEPT ![s] = reported[s]]}
    BY <1>6 DEF RedisFails, Abort
  <2> QED
    BY <1>1, <2>1, <2>2
<1>7. CASE Push
  BY <1>2, <1>7 DEF Push
<1>8. CASE PushFails
  BY <1>2, <1>8 DEF PushFails, Abort
<1>9. CASE SetTimer
  <2>1. UNCHANGED <<reported, redis, Told>> /\ s \in Sensor /\ redis[s] # None
        /\ reported[s] = handler.status
    BY <1>9, SameTold DEF SetTimer
  <2>2. CASE StartTimer
    <3>1. PICK t \in Timer :
            /\ Free(t)
            /\ timer' = [timer EXCEPT ![t] = [state |-> "running", source |-> s,
                                              armed |-> handler.armed]]
      BY <2>2 DEF StartTimer
    <3>2. \A r \in Sensor : t \notin RunningFor(r)
      BY <3>1 DEF Free, RunningFor
    <3>3. Clocks' = [Clocks EXCEPT ![s] = @ \cup {t}]
      <4>1. \A r \in Sensor : RunningFor(r)' = IF r = s THEN RunningFor(r) \cup {t} ELSE RunningFor(r)
        BY <3>1, <3>2, <2>1 DEF RunningFor
      <4> QED
        BY <4>1 DEF Clocks
    <3>4. Monitor!StartClock(s, t)
      BY <2>1, <2>2, <3>2, <3>3 DEF Monitor!StartClock, StartTimer, Clocks
    <3> QED
      BY <2>1, <3>4 DEF Monitor!Next
  <2>3. CASE StopTimer
    <3> DEFINE t == delayTimerMap[s]
    <3>1. CASE t # None /\ timer[t].state = "running"
      <4>1. t \in Timer /\ timer[t].source = s
        BY <3>1, <2>1 DEF MatchInv, MapInv
      <4>2. timer' = [timer EXCEPT ![t].state = "stopped"]
        BY <2>3, <3>1 DEF StopTimer
      <4>3. \A r \in Sensor : RunningFor(r)' = IF r = s THEN RunningFor(r) \ {t} ELSE RunningFor(r)
        BY <4>1, <4>2 DEF RunningFor
      <4>4. Clocks' = [Clocks EXCEPT ![s] = @ \ {t}]
        BY <4>3 DEF Clocks
      <4>5. t \in RunningFor(s)
        BY <3>1, <4>1 DEF RunningFor
      <4>6. Monitor!StopClock(s, t)
        BY <2>1, <2>3, <4>4, <4>5 DEF Monitor!StopClock, StopTimer, Clocks
      <4> QED
        BY <2>1, <4>1, <4>6 DEF Monitor!Next
    <3>2. CASE ~(t # None /\ timer[t].state = "running")
      <4>1. UNCHANGED timer
        BY <2>3, <3>2 DEF StopTimer
      <4> QED
        BY <2>1, <4>1, SameClocks DEF Seen
    <3> QED
      BY <3>1, <3>2
  <2>4. CASE LeaveTimer
    BY <2>1, <2>4, SameClocks DEF LeaveTimer, Seen
  <2> QED
    BY <1>9, <2>2, <2>3, <2>4 DEF SetTimer
<1> QED
  BY <1>3, <1>4, <1>5, <1>6, <1>7, <1>8, <1>9 DEF HandlerStep, HandlerFails

\* A timer that ends alarms once; one whose goroutine starts still runs.
LEMMA TimerRefines ==
  ASSUME RefinementInv, NEW t \in Timer, Fire(t) \/ HandleOpenTimeout(t)
  PROVE  Monitor!Next \/ UNCHANGED Seen
<1> USE DEF RefinementInv, Basic, TypeOK, sinks
<1>1. CASE Fire(t)
  <2>1. \A r \in Sensor : RunningFor(r)' = RunningFor(r)
    BY <1>1 DEF Fire, RunningFor
  <2> QED
    BY <1>1, <2>1, SameTold DEF Fire, Seen, Clocks
<1>2. CASE HandleOpenTimeout(t)
  <2> DEFINE s == timer[t].source
  <2>1. s \in Sensor
    BY <1>2 DEF HandleOpenTimeout, TimerInv
  <2>2. t \in RunningFor(s)
    BY <1>2 DEF HandleOpenTimeout, RunningFor
  <2>3. \A r \in Sensor : RunningFor(r)' = IF r = s THEN RunningFor(r) \ {t} ELSE RunningFor(r)
    BY <1>2 DEF HandleOpenTimeout, RunningFor
  <2>4. Clocks' = [Clocks EXCEPT ![s] = @ \ {t}]
    BY <2>3 DEF Clocks
  <2>5. ntfy' \in {ntfy, [ntfy EXCEPT ![s] = @ \cup {"openTooLong"}]}
    BY <1>2 DEF HandleOpenTimeout, PushOrLog
  <2>6. Told' \in {Told, [Told EXCEPT ![s] = @ \cup {"openTooLong"}]}
    <3> HIDE DEF s
    <3> QED
      BY <2>1, <2>5, SameTold, MoreTold DEF Notification
  <2>7. Monitor!Alarm(s, t)
    BY <1>2, <2>1, <2>2, <2>4, <2>6 DEF HandleOpenTimeout, Monitor!Alarm, Clocks
  <2> QED
    BY <2>1, <2>7 DEF Monitor!Next
<1> QED
  BY <1>1, <1>2

\* A heartbeat timeout makes a sensor lost and tells so.
LEMMA LapseRefines ==
  ASSUME RefinementInv, NEW s \in Sensor, LapseStep(s)
  PROVE  Monitor!Next \/ UNCHANGED Seen
<1> USE DEF RefinementInv, Basic, TypeOK, StoreInv, FirstInv, timers, sinks
<1>1. UNCHANGED Clocks
  BY SameClocks DEF LapseStep, LapseReadState, LapseWriteState, LapsePush, LapseSendMessage,
                    LapseInsertRow
<1>2. CASE LapseWriteState(s)
  <2>1. redis[s] # None /\ UNCHANGED <<reported, Told>>
    BY <1>2, SameTold DEF LapseWriteState
  <2>2. redis' \in {redis, [redis EXCEPT ![s] = "UNKNOWN"]}
    BY <1>2 DEF LapseWriteState
  <2>3. CASE UNCHANGED redis
    BY <1>1, <2>1, <2>3 DEF Seen
  <2>4. CASE redis' = [redis EXCEPT ![s] = "UNKNOWN"]
    BY <1>1, <2>1, <2>4 DEF Monitor!Lose, Monitor!Next, Clocks
  <2> QED
    BY <2>2, <2>3, <2>4
<1>3. CASE LapsePush(s)
  <2>1. redis[s] # None /\ UNCHANGED <<reported, redis>>
    BY <1>3 DEF LapsePush
  <2>2. CASE UNCHANGED ntfy
    BY <1>1, <2>1, <2>2, SameTold DEF Seen
  <2>3. CASE ntfy' = [ntfy EXCEPT ![s] = @ \cup {"lostConnection"}]
    <3>1. Told' = [Told EXCEPT ![s] = @ \cup {"lostConnection"}]
      BY <2>3, MoreTold DEF Notification
    <3> QED
      BY <1>1, <2>1, <3>1 DEF Monitor!TellLost, Monitor!Next, Clocks
  <2> QED
    BY <1>3, <2>2, <2>3 DEF LapsePush, PushOrLog
<1>4. CASE LapseReadState(s) \/ LapseSendMessage(s) \/ LapseInsertRow(s)
  BY <1>1, <1>4, SameTold DEF LapseReadState, LapseSendMessage, LapseInsertRow, Seen
<1> QED
  BY <1>2, <1>3, <1>4 DEF LapseStep

LEMMA StepRefines == RefinementInv /\ [Next]_vars => [Monitor!Next]_Seen
<1> SUFFICES ASSUME RefinementInv, [Next]_vars
             PROVE  Monitor!Next \/ UNCHANGED Seen
  OBVIOUS
<1> USE DEF RefinementInv, Basic, TypeOK, timers, sinks
<1>1. ASSUME NEW s \in Sensor, NEW st \in Reports, ReceiveStatus(s, st)
      PROVE  Monitor!Next
  <2>1. st \in Monitor!Known
    BY ServerAssumption DEF Monitor!Known, Status
  <2>2. UNCHANGED Clocks
    BY <1>1, SameClocks DEF ReceiveStatus
  <2>t. Told' = [Told EXCEPT ![s] = {}]
    <3>1. \A r \in Sensor : ntfy'[r] = IF r = s THEN {} ELSE ntfy[r]
      BY <1>1 DEF ReceiveStatus
    <3> QED
      BY <3>1 DEF Told
  <2>3. Monitor!Report(s, st)
    BY <1>1, <2>2, <2>t DEF ReceiveStatus, Monitor!Report, Clocks
  <2> QED
    BY <2>1, <2>3 DEF Monitor!Next
<1>2. CASE HandlerStep \/ HandlerFails
  BY <1>2, HandlerRefines
<1>3. ASSUME NEW t \in Timer, Fire(t) \/ HandleOpenTimeout(t)
      PROVE  Monitor!Next \/ UNCHANGED Seen
  BY <1>3, TimerRefines
<1>4. ASSUME NEW s \in Sensor, LapseStep(s)
      PROVE  Monitor!Next \/ UNCHANGED Seen
  BY <1>4, LapseRefines
<1>5. ASSUME NEW s \in Sensor, ReceiveHeartbeat(s) \/ HeartbeatExpires(s) \/ SetArming(s)
      PROVE  UNCHANGED Seen
  BY <1>5, SameClocks, SameTold DEF ReceiveHeartbeat, HeartbeatExpires, SetArming, Seen
<1>6. CASE Restart
  <2>1. \A r \in Sensor : RunningFor(r)' = {}
    BY <1>6 DEF Restart, Unused, RunningFor
  <2>2. Monitor!Restart
    BY <1>6, <2>1, SameTold DEF Restart, Monitor!Restart, Clocks
  <2> QED
    BY <2>2 DEF Monitor!Next
<1>7. CASE UNCHANGED vars
  BY <1>7, SameClocks, SameTold DEF vars, Seen
<1> QED
  BY <1>1, <1>2, <1>3, <1>4, <1>5, <1>6, <1>7 DEF Next

-----------------------------------------------------------------------------
\* The server does only what the door monitor may do, for any number of sensors
\* and timers and whatever fails (server.go:362-529).
THEOREM ServerMonitorsDoors == Spec => MonitorsDoors
<1>1. Init => Monitor!Init
  <2>1. Init => Clocks = [s \in Sensor |-> {}]
    BY DEF Init, Unused, Clocks, RunningFor
  <2>2. Init => Told = [s \in Sensor |-> {}]
    BY DEF Init, Told
  <2> QED
    BY <2>1, <2>2 DEF Init, Monitor!Init, Clocks
<1>2. RefinementInv /\ [Next]_vars => [Monitor!Next]_(Monitor!vars)
  BY StepRefines DEF Seen, Monitor!vars, Clocks
<1> QED
  BY <1>1, <1>2, RefinementInvAlways, PTL DEF Spec, MonitorsDoors, Monitor!Spec
=============================================================================
