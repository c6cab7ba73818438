---------------------------- MODULE SensorServer ----------------------------
(***************************************************************************)
(* The server's handling of sensor reports and heartbeats: the MQTT        *)
(* subscriptions of cmd/server.go with the timers they start, the stores   *)
(* they write (Redis, Home Assistant, the dashboard's websocket, Postgres) *)
(* and the notifications they push.                                        *)
(*                                                                         *)
(* Three kinds of goroutine interleave.  The MQTT client delivers messages *)
(* in order and one at a time, so handleSensorStatusSubscribe is one       *)
(* process, `handler', that makes one call to a service per step.  Every   *)
(* time.AfterFunc timer runs its function in a goroutine of its own:       *)
(* handleOpenTimeout for the timer heap `timer', handleHeartbeatTimeout    *)
(* for `heartbeatTimer', whose program counter is lapse[s].                *)
(***************************************************************************)
EXTENDS Naturals

CONSTANTS
    Sensor,      \* the sensors' names
    Timer,       \* identities of open-timeout timers: bounds those alive at once
    None,        \* no value: a missing Redis key, a nil map entry
    Reports,     \* the statuses a sensor sends
    Events,      \* what else may happen around the server
    Faulty,      \* the services whose calls may return an error
    MockMode     \* ServerConfig.MockMode

Status == {"OPEN", "CLOSED", "UNKNOWN"}
Service == {"redis", "ha", "ntfy", "socket", "postgres"}

\* A sensor sends the status it sent last once more, its heartbeats stop, a user
\* arms or disarms it, the server process is replaced.
Event == {"repeat", "lapse", "arm", "restart"}

ASSUME ServerAssumption ==
    /\ Reports \subseteq Status
    /\ Faulty \subseteq Service
    /\ Events \subseteq Event
    /\ MockMode \in BOOLEAN
    /\ None \notin Sensor \cup Timer \cup Status

VARIABLES
    handler,         \* the activation of handleSensorStatusSubscribe
    redis,           \* the status in each sensor's state key, or None
    arming,          \* is each sensor's arming key there, and neither "" nor "false"?
    timer,           \* the heap of open-timeout timers
    delayTimerMap,   \* the timer the server holds for each sensor, or None
    heartbeatTimer,  \* is the timer in heartbeatTimerMap running?
    lapse,           \* the call handleHeartbeatTimeout makes next
    ha,              \* the status Home Assistant was told last, or None
    ws,              \* the status written to the websocket last, or None
    db,              \* the status of the row inserted last, or None
    ntfy,            \* what was pushed about a sensor since its last report, or refused
    reported,        \* the last report received from each sensor, or None
    torn             \* sensors whose last report was not handled to the end

sinks == <<ha, ws, db>>
timers == <<timer, delayTimerMap>>
vars == <<handler, redis, arming, timer, delayTimerMap, heartbeatTimer, lapse,
          ha, ws, db, ntfy, reported, torn>>

HandlerPC == {"idle", "readState", "writeFirst", "readArming", "publishHA",
              "push", "setTimer", "writeState", "sendMessage", "insertRow"}
LapsePC == {"none", "readState", "writeState", "push", "sendMessage", "insertRow"}
Notification == {"opened", "openTooLong", "lostConnection", "refused"}

Idle == [pc |-> "idle", source |-> None, status |-> None,
         last |-> None, armed |-> FALSE]

Unused == [state |-> "unused", source |-> None, armed |-> FALSE]

\* Type correctness of the server's state and of the stores it writes.
TypeOK ==
    /\ handler \in [pc : HandlerPC, source : Sensor \cup {None},
                    status : Status \cup {None}, last : Status \cup {None},
                    armed : BOOLEAN]
    /\ redis \in [Sensor -> Status \cup {None}]
    /\ arming \in [Sensor -> BOOLEAN]
    /\ timer \in [Timer -> [state : {"unused", "running", "firing", "fired", "stopped"},
                            source : Sensor \cup {None}, armed : BOOLEAN]]
    /\ delayTimerMap \in [Sensor -> Timer \cup {None}]
    /\ heartbeatTimer \in [Sensor -> BOOLEAN]
    /\ lapse \in [Sensor -> LapsePC]
    /\ ha \in [Sensor -> Status \cup {None}]
    /\ ws \in [Sensor -> Status \cup {None}]
    /\ db \in [Sensor -> Status \cup {None}]
    /\ ntfy \in [Sensor -> SUBSET Notification]
    /\ reported \in [Sensor -> Status \cup {None}]
    /\ torn \subseteq Sensor

Init ==
    /\ handler = Idle
    /\ redis = [s \in Sensor |-> None]
    /\ arming \in [Sensor -> BOOLEAN]
    /\ timer = [t \in Timer |-> Unused]
    /\ delayTimerMap = [s \in Sensor |-> None]
    /\ heartbeatTimer = [s \in Sensor |-> FALSE]
    /\ lapse = [s \in Sensor |-> "none"]
    /\ ha = [s \in Sensor |-> None]
    /\ ws = [s \in Sensor |-> None]
    /\ db = [s \in Sensor |-> None]
    /\ ntfy = [s \in Sensor |-> {}]
    /\ reported = [s \in Sensor |-> None]
    /\ torn = {}

-----------------------------------------------------------------------------
(* handleSensorStatusSubscribe, one service call at a time *)

At(pc) == handler.pc = pc
Goto(pc) == handler' = [handler EXCEPT !.pc = pc]

\* Mutant: every report of OPEN counts.
JustOpenedAgain == handler.last # None /\ handler.status = "OPEN"

\* The condition under which a sensor "was just opened".
JustOpened == handler.last \in {"CLOSED", "UNKNOWN"} /\ handler.status = "OPEN"

\* A report arrives and is stamped with the server's clock.
ReceiveStatus(s, st) ==
    /\ At("idle")
    /\ "repeat" \in Events \/ st # reported[s]
    /\ handler' = [Idle EXCEPT !.pc = "readState", !.source = s, !.status = st]
    /\ reported' = [reported EXCEPT ![s] = st]
    /\ ntfy' = [ntfy EXCEPT ![s] = {}]
    /\ UNCHANGED <<redis, arming, timers, heartbeatTimer, lapse, sinks, torn>>

ReadState ==
    /\ At("readState")
    /\ LET last == redis[handler.source]
       IN handler' = [handler EXCEPT
                        !.last = last,
                        !.pc = IF last = None THEN "writeFirst" ELSE "readArming"]
    /\ UNCHANGED <<redis, arming, timers, heartbeatTimer, lapse, sinks, ntfy,
                   reported, torn>>

\* The first report ever only fills the Redis key: no notification, no timer,
\* nothing to Home Assistant, the websocket or Postgres.
WriteFirst ==
    /\ At("writeFirst")
    /\ redis' = [redis EXCEPT ![handler.source] = handler.status]
    /\ torn' = torn \ {handler.source}
    /\ handler' = Idle
    /\ UNCHANGED <<arming, timers, heartbeatTimer, lapse, sinks, ntfy, reported>>

\* Mutant: a missing arming key is passed on instead of counting as disarmed.
ReadArmingRaw ==
    /\ At("readArming")
    /\ handler' = [handler EXCEPT !.armed = IF arming[handler.source] THEN TRUE ELSE None,
                                  !.pc = "publishHA"]
    /\ UNCHANGED <<redis, arming, timers, heartbeatTimer, lapse, sinks, ntfy,
                   reported, torn>>

ReadArming ==
    /\ At("readArming")
    /\ handler' = [handler EXCEPT !.armed = arming[handler.source],
                                  !.pc = "publishHA"]
    /\ UNCHANGED <<redis, arming, timers, heartbeatTimer, lapse, sinks, ntfy,
                   reported, torn>>

\* Mutant: Home Assistant is told of openings only.
PublishHAOnOpening ==
    /\ At("publishHA")
    /\ ha' = IF JustOpened THEN [ha EXCEPT ![handler.source] = handler.status] ELSE ha
    /\ Goto(IF JustOpened /\ handler.armed THEN "push" ELSE "setTimer")
    /\ UNCHANGED <<redis, arming, timers, heartbeatTimer, lapse, ws, db, ntfy,
                   reported, torn>>

PublishHA ==
    /\ At("publishHA")
    /\ ha' = [ha EXCEPT ![handler.source] = handler.status]
    /\ Goto(IF JustOpened /\ handler.armed THEN "push" ELSE "setTimer")
    /\ UNCHANGED <<redis, arming, timers, heartbeatTimer, lapse, ws, db, ntfy,
                   reported, torn>>

\* sendPushNotification returns an error when the post or the decoding of the
\* answer does.  It does not ask for the answer's status: an error of ntfy that
\* comes with a JSON body passes for a push.
Push ==
    /\ At("push")
    /\ \E answer \in IF "ntfy" \in Faulty THEN {"opened", "refused"} ELSE {"opened"} :
        ntfy' = [ntfy EXCEPT ![handler.source] = @ \cup {answer}]
    /\ Goto("setTimer")
    /\ UNCHANGED <<redis, arming, timers, heartbeatTimer, lapse, sinks,
                   reported, torn>>

\* The garbage collector: a timer that has ended can be allocated again, unless
\* the map entry of another sensor refers to it.
Free(t) ==
    \/ timer[t].state = "unused"
    \/ /\ timer[t].state \in {"fired", "stopped"}
       /\ \A s \in Sensor \ {handler.source} : delayTimerMap[s] # t

\* Mutant: a sensor that has a timer in the map gets no new one.
StartTimerOnce ==
    /\ handler.status = "OPEN"
    /\ \/ delayTimerMap[handler.source] # None /\ UNCHANGED timers
       \/ /\ delayTimerMap[handler.source] = None
          /\ \E t \in Timer :
              /\ Free(t)
              /\ timer' = [timer EXCEPT ![t] = [state |-> "running",
                                                source |-> handler.source,
                                                armed |-> handler.armed]]
              /\ delayTimerMap' = [delayTimerMap EXCEPT ![handler.source] = t]

\* OPEN starts a timer whose function captures this report's `armed'.  The map
\* entry is overwritten: a timer already running for the sensor goes on running.
StartTimer ==
    /\ handler.status = "OPEN"
    /\ \E t \in Timer :
        /\ Free(t)
        /\ timer' = [timer EXCEPT ![t] = [state |-> "running",
                                          source |-> handler.source,
                                          armed |-> handler.armed]]
        /\ delayTimerMap' = [delayTimerMap EXCEPT ![handler.source] = t]

\* Mutant: CLOSED forgets to stop the timer.
StopTimerForgotten == handler.status = "CLOSED" /\ UNCHANGED timers

\* CLOSED stops the timer in the map, which stays there.
StopTimer ==
    /\ handler.status = "CLOSED"
    /\ LET t == delayTimerMap[handler.source]
       IN timer' = IF t # None /\ timer[t].state = "running"
                   THEN [timer EXCEPT ![t].state = "stopped"]
                   ELSE timer
    /\ UNCHANGED delayTimerMap

\* Any other status is logged as not recognized.
LeaveTimer ==
    /\ handler.status \notin {"OPEN", "CLOSED"}
    /\ UNCHANGED timers

SetTimer ==
    /\ At("setTimer")
    /\ StartTimer \/ StopTimer \/ LeaveTimer
    /\ Goto("writeState")
    /\ UNCHANGED <<redis, arming, heartbeatTimer, lapse, sinks, ntfy, reported,
                   torn>>

WriteState ==
    /\ At("writeState")
    /\ redis' = [redis EXCEPT ![handler.source] = handler.status]
    /\ Goto("sendMessage")
    /\ UNCHANGED <<arming, timers, heartbeatTimer, lapse, sinks, ntfy, reported,
                   torn>>

\* WebServer.SendMessage: with no websocket open, or when the write to it
\* fails, the message is dropped without an error.
Tell(s, st) ==
    \/ ws' = [ws EXCEPT ![s] = st]
    \/ "socket" \in Faulty /\ UNCHANGED ws

SendMessage ==
    /\ At("sendMessage")
    /\ Tell(handler.source, handler.status)
    /\ Goto("insertRow")
    /\ UNCHANGED <<redis, arming, timers, heartbeatTimer, lapse, ha, db, ntfy,
                   reported, torn>>

InsertRow ==
    /\ At("insertRow")
    /\ db' = [db EXCEPT ![handler.source] = handler.status]
    /\ torn' = torn \ {handler.source}
    /\ handler' = Idle
    /\ UNCHANGED <<redis, arming, timers, heartbeatTimer, lapse, ha, ws, ntfy,
                   reported>>

-----------------------------------------------------------------------------
(* Errors.  A call that returns an error ends the handler; a call that       *)
(* changes something may have done so before its answer was lost.            *)

Abort(pcs, service) ==
    /\ handler.pc \in pcs
    /\ service \in Faulty
    /\ handler' = Idle
    /\ torn' = torn \cup {handler.source}
    /\ UNCHANGED <<arming, timers, heartbeatTimer, lapse, ws, reported>>

RedisFails ==
    /\ Abort({"readState", "readArming", "writeFirst", "writeState"}, "redis")
    /\ \/ UNCHANGED redis
       \/ /\ handler.pc \in {"writeFirst", "writeState"}
          /\ redis' = [redis EXCEPT ![handler.source] = handler.status]
    /\ UNCHANGED <<ha, db, ntfy>>

PublishHAFails ==
    /\ Abort({"publishHA"}, "ha")
    /\ \/ UNCHANGED ha
       \/ ha' = [ha EXCEPT ![handler.source] = handler.status]
    /\ UNCHANGED <<redis, db, ntfy>>

\* Mutant: a failed push is logged and the handler goes on.
PushFailsAndGoesOn ==
    /\ At("push")
    /\ "ntfy" \in Faulty
    /\ Goto("setTimer")
    /\ UNCHANGED <<redis, arming, timers, heartbeatTimer, lapse, sinks, ntfy,
                   reported, torn>>

PushFails ==
    /\ Abort({"push"}, "ntfy")
    /\ \/ UNCHANGED ntfy
       \/ ntfy' = [ntfy EXCEPT ![handler.source] = @ \cup {"opened"}]
    /\ UNCHANGED <<redis, ha, db>>

InsertRowFails ==
    /\ Abort({"insertRow"}, "postgres")
    /\ \/ UNCHANGED db
       \/ db' = [db EXCEPT ![handler.source] = handler.status]
    /\ UNCHANGED <<redis, ha, ntfy>>

-----------------------------------------------------------------------------
(* handleOpenTimeout: the function of an open-timeout timer *)

\* The runtime starts the timer's goroutine; Stop no longer reaches it.
Fire(t) ==
    /\ timer[t].state = "running"
    /\ timer' = [timer EXCEPT ![t].state = "firing"]
    /\ UNCHANGED <<handler, redis, arming, delayTimerMap, heartbeatTimer, lapse,
                   sinks, ntfy, reported, torn>>

\* A push whose error is only logged: it may not arrive while ntfy is faulty.
PushOrLog(s, n) ==
    \/ ntfy' = [ntfy EXCEPT ![s] = @ \cup {n}]
    \/ "ntfy" \in Faulty /\ UNCHANGED ntfy

HandleOpenTimeout(t) ==
    /\ timer[t].state = "firing"
    /\ timer' = [timer EXCEPT ![t].state = "fired"]
    /\ IF ~MockMode /\ timer[t].armed
       THEN PushOrLog(timer[t].source, "openTooLong")
       ELSE UNCHANGED ntfy
    /\ UNCHANGED <<handler, redis, arming, delayTimerMap, heartbeatTimer, lapse,
                   sinks, reported, torn>>

-----------------------------------------------------------------------------
(* Heartbeats.  Their handler runs on the MQTT client's goroutine, so never  *)
(* while a report is handled.                                                *)

\* The timer in the map is stopped and replaced by a new one.
ReceiveHeartbeat(s) ==
    /\ At("idle")
    /\ heartbeatTimer' = [heartbeatTimer EXCEPT ![s] = TRUE]
    /\ UNCHANGED <<handler, redis, arming, timers, lapse, sinks, ntfy, reported,
                   torn>>

\* Five minutes without a heartbeat.  One handleHeartbeatTimeout per sensor is
\* in flight at a time: a bound, as nothing in the code waits for the last one.
HeartbeatExpires(s) ==
    /\ "lapse" \in Events
    /\ heartbeatTimer[s]
    /\ lapse[s] = "none"
    /\ heartbeatTimer' = [heartbeatTimer EXCEPT ![s] = FALSE]
    /\ lapse' = [lapse EXCEPT ![s] = "readState"]
    /\ UNCHANGED <<handler, redis, arming, timers, sinks, ntfy, reported, torn>>

\* Mutant: the timeout of a sensor that is closed is not recorded.
LapseReadStateOfOpen(s) ==
    /\ lapse[s] = "readState"
    /\ \/ redis[s] \in {None, "CLOSED"} /\ lapse' = [lapse EXCEPT ![s] = "none"]
       \/ redis[s] \notin {None, "CLOSED"} /\ lapse' = [lapse EXCEPT ![s] = "writeState"]
    /\ UNCHANGED <<handler, redis, arming, timers, heartbeatTimer, sinks, ntfy,
                   reported, torn>>

LapseReadState(s) ==
    /\ lapse[s] = "readState"
    /\ \/ redis[s] = None /\ lapse' = [lapse EXCEPT ![s] = "none"]
       \/ redis[s] # None /\ lapse' = [lapse EXCEPT ![s] = "writeState"]
       \/ "redis" \in Faulty /\ lapse' = [lapse EXCEPT ![s] = "none"]
    /\ UNCHANGED <<handler, redis, arming, timers, heartbeatTimer, sinks, ntfy,
                   reported, torn>>

\* The status read before is overwritten with UNKNOWN, whatever was stored
\* since then.
LapseWriteState(s) ==
    /\ lapse[s] = "writeState"
    /\ \/ /\ redis' = [redis EXCEPT ![s] = "UNKNOWN"]
          /\ lapse' = [lapse EXCEPT ![s] = IF MockMode THEN "sendMessage" ELSE "push"]
       \/ /\ "redis" \in Faulty
          /\ redis' \in {redis, [redis EXCEPT ![s] = "UNKNOWN"]}
          /\ lapse' = [lapse EXCEPT ![s] = "none"]
    /\ UNCHANGED <<handler, arming, timers, heartbeatTimer, sinks, ntfy,
                   reported, torn>>

LapsePush(s) ==
    /\ lapse[s] = "push"
    /\ PushOrLog(s, "lostConnection")
    /\ lapse' = [lapse EXCEPT ![s] = "sendMessage"]
    /\ UNCHANGED <<handler, redis, arming, timers, heartbeatTimer, sinks,
                   reported, torn>>

LapseSendMessage(s) ==
    /\ lapse[s] = "sendMessage"
    /\ Tell(s, "UNKNOWN")
    /\ lapse' = [lapse EXCEPT ![s] = "insertRow"]
    /\ UNCHANGED <<handler, redis, arming, timers, heartbeatTimer, ha, db, ntfy,
                   reported, torn>>

LapseInsertRow(s) ==
    /\ lapse[s] = "insertRow"
    /\ \/ db' = [db EXCEPT ![s] = "UNKNOWN"]
       \/ "postgres" \in Faulty /\ UNCHANGED db
    /\ lapse' = [lapse EXCEPT ![s] = "none"]
    /\ UNCHANGED <<handler, redis, arming, timers, heartbeatTimer, ha, ws, ntfy,
                   reported, torn>>

-----------------------------------------------------------------------------
(* The rest of the system *)

\* The dashboard arms or disarms a sensor (sensorArmingHandler's last write).
SetArming(s) ==
    /\ "arm" \in Events
    /\ arming' = [arming EXCEPT ![s] = ~@]
    /\ UNCHANGED <<handler, redis, timers, heartbeatTimer, lapse, sinks, ntfy,
                   reported, torn>>

\* The process is replaced: its timers, maps and goroutines are gone, the
\* stores stay.  No timer is started again for what Redis says is open.
Restart ==
    /\ "restart" \in Events
    /\ handler' = Idle
    /\ torn' = torn \cup ({handler.source} \cap Sensor)
    /\ timer' = [t \in Timer |-> Unused]
    /\ delayTimerMap' = [s \in Sensor |-> None]
    /\ heartbeatTimer' = [s \in Sensor |-> FALSE]
    /\ lapse' = [s \in Sensor |-> "none"]
    /\ ws' = [s \in Sensor |-> None]
    /\ UNCHANGED <<redis, arming, ha, db, ntfy, reported>>

HandlerStep ==
    \/ ReadState \/ WriteFirst \/ ReadArming \/ PublishHA \/ Push \/ SetTimer
    \/ WriteState \/ SendMessage \/ InsertRow

HandlerFails == RedisFails \/ PublishHAFails \/ PushFails \/ InsertRowFails

LapseStep(s) ==
    \/ LapseReadState(s) \/ LapseWriteState(s) \/ LapsePush(s)
    \/ LapseSendMessage(s) \/ LapseInsertRow(s)

Next ==
    \/ \E s \in Sensor, st \in Reports : ReceiveStatus(s, st)
    \/ HandlerStep
    \/ HandlerFails
    \/ \E t \in Timer : Fire(t) \/ HandleOpenTimeout(t)
    \/ \E s \in Sensor : ReceiveHeartbeat(s) \/ HeartbeatExpires(s) \/ LapseStep(s)
    \/ \E s \in Sensor : SetArming(s)
    \/ Restart

Spec == Init /\ [][Next]_vars

\* Goroutines that can run do run, calls return, and a timer left alone ends.
\* Nothing makes a sensor report, a heartbeat stop or a user press a button.
FairSpec ==
    /\ Spec
    /\ WF_vars(HandlerStep)
    /\ \A t \in Timer : WF_vars(Fire(t)) /\ WF_vars(HandleOpenTimeout(t))
    /\ \A s \in Sensor : WF_vars(LapseStep(s))

-----------------------------------------------------------------------------
(* Properties *)

\* The last report of s was handled to its end, and none is being handled.
Settled(s) == s \notin torn /\ handler.source # s

\* Where a status of s can be seen.  The websocket counts when nothing is
\* dropped on it.
Views(s) == {reported[s], redis[s], ha[s], db[s]}
            \cup (IF "socket" \in Faulty THEN {} ELSE {ws[s]})

\* No two views of a settled sensor contradict each other, one saying OPEN and
\* another CLOSED: however the handler's steps interleave with heartbeat
\* timeouts and whatever was cut short before, handling the newest report to
\* its end brings Redis, Home Assistant, the websocket and Postgres back into
\* step (server.go:414-513 and 362-412).
ViewsAgree ==
    \A s \in Sensor : Settled(s) =>
        ~("OPEN" \in Views(s) /\ "CLOSED" \in Views(s))

\* The timer the server holds for a settled sensor fits what Redis says: a
\* sensor stored as OPEN is being timed or has been alarmed about, and a sensor
\* stored as CLOSED is not being timed (server.go:481-505).
TimerMatchesState ==
    \A s \in Sensor : (Settled(s) /\ delayTimerMap[s] # None) =>
        LET t == timer[delayTimerMap[s]]
        IN /\ redis[s] = "OPEN" => t.state # "stopped"
           /\ redis[s] = "CLOSED" => t.state # "running"

\* Redis never turns from CLOSED to OPEN for a sensor read as armed unless ntfy
\* has answered the push of the opening, with the push or with a refusal in JSON:
\* the push comes before the write, and an opening whose push met an error of the
\* connection or an answer that does not decode is not stored (server.go:465-505
\* and 547-560).
ArmedOpeningAnnounced ==
    [][\A s \in Sensor :
        (/\ redis[s] = "CLOSED" /\ redis'[s] = "OPEN"
         /\ handler.source = s /\ handler.armed)
        => {"opened", "refused"} \cap ntfy[s] # {}]_vars

\* No "opened longer than" timeout starts for a sensor whose last report,
\* handled to its end, is CLOSED (server.go:489-497 and 516).
AlarmOnlyWhileOpen ==
    [][\A t \in Timer :
        LET s == timer[t].source
        IN (timer[t].state = "running" /\ timer'[t].state = "firing" /\ Settled(s))
           => reported[s] # "CLOSED"]_vars

\* An opening of an armed sensor ends in an "opened longer than" notification
\* unless the sensor reports something else: no report of another sensor,
\* heartbeat timeout, repeated OPEN or change of the arming in between loses the
\* timer (server.go:481-492 and 515-528).
OpeningIsTimedOut ==
    \A s \in Sensor :
        (handler.source = s /\ handler.status = "OPEN" /\ handler.armed /\ At("writeState"))
        ~> ("openTooLong" \in ntfy[s] \/ reported[s] # "OPEN")

\* A heartbeat timeout of a sensor Redis knows ends in UNKNOWN there, whatever
\* reports are handled meanwhile (server.go:362-389).
LapseIsRecorded ==
    \A s \in Sensor :
        (lapse[s] = "readState" /\ redis[s] # None) ~> (redis[s] = "UNKNOWN")

\* The clocks that run for a sensor: its timers that have not been stopped and
\* whose functions have not ended.
RunningFor(s) ==
    {t \in Timer : timer[t].source = s /\ timer[t].state \in {"running", "firing"}}

\* What the user was told.
Told == [s \in Sensor |-> ntfy[s] \ {"refused"}]

Monitor == INSTANCE DoorMonitor WITH
    Clock <- Timer,
    report <- reported,
    stored <- redis,
    told <- Told,
    clocks <- [s \in Sensor |-> RunningFor(s)]

\* Whatever calls fail, however handlers, timers and timeouts interleave and
\* wherever the process is replaced, the server does only what the door monitor
\* may do: it stores the newest report or UNKNOWN, announces an opening only of
\* a door stored as not open, and alarms only once for a timer that an OPEN
\* started (server.go:362-529).
MonitorsDoors == Monitor!Spec
=============================================================================
