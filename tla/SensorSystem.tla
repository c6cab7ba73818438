----------------------------- MODULE SensorSystem -----------------------------
(***************************************************************************)
(* The agents and the server: what an agent publishes is delivered to the  *)
(* server's handler, and its heartbeats keep the server's timer running.   *)
(***************************************************************************)
EXTENDS Naturals, Sequences

CONSTANTS Sensor, None,
    Misfortune, LinkCapacity, OutletEnabled,   \* of the agents
    Timer, ServerEvents, Faulty, MockMode      \* of the server

VARIABLES
    door, agent, statusFile, link, disturbed, outlet, behind,
    handler, redis, arming, timer, delayTimerMap, heartbeatTimer, lapse,
    ha, ws, db, ntfy, reported, torn

Agents == INSTANCE Agent
Server == INSTANCE SensorServer WITH Reports <- {"OPEN", "CLOSED"},
                                     Events <- ServerEvents \cup {"repeat"}

\* The server's assumption on its constants; the capacity bounds the link.
ASSUME SystemAssumption ==
    /\ Faulty \subseteq Server!Service
    /\ ServerEvents \subseteq Server!Event
    /\ MockMode \in BOOLEAN
    /\ None \notin Sensor \cup Timer \cup Server!Status
    /\ LinkCapacity \in Nat

agentVars == <<door, agent, statusFile, link, disturbed, outlet, behind>>
serverVars == <<handler, redis, arming, timer, delayTimerMap, heartbeatTimer,
                lapse, ha, ws, db, ntfy, reported, torn>>
vars == <<agentVars, serverVars>>

\* Type correctness of both parts.
TypeOK == Agents!TypeOK /\ Server!TypeOK

Init == Agents!Init /\ Server!Init

Deliver(s) ==
    /\ Agents!Deliver(s)
    /\ Server!ReceiveStatus(s, Head(link[s]))

\* Every minute while the agent runs.
Heartbeat(s) ==
    /\ agent[s].pc # "down"
    /\ Server!ReceiveHeartbeat(s)
    /\ UNCHANGED agentVars

\* What the server does on its own.
ServerStep ==
    /\ \/ Server!HandlerStep
       \/ Server!HandlerFails
       \/ \E t \in Timer : Server!Fire(t) \/ Server!HandleOpenTimeout(t)
       \/ \E s \in Sensor : Server!HeartbeatExpires(s) \/ Server!LapseStep(s)
       \/ \E s \in Sensor : Server!SetArming(s)
       \/ Server!Restart
    /\ UNCHANGED agentVars

AgentStep == (\E s \in Sensor : Agents!Step(s)) /\ UNCHANGED serverVars

Next ==
    \/ AgentStep
    \/ \E s \in Sensor : Deliver(s) \/ Heartbeat(s)
    \/ ServerStep

Spec == Init /\ [][Next]_vars

-----------------------------------------------------------------------------
(* Properties *)

\* A false alarm takes a disturbance: as long as no status file write, publish
\* or message of a sensor was lost and its agent never ended half way through a
\* poll, no open timeout starts for it after a CLOSED handled to its end.
\* However often agents and server restart, the status file keeps an agent from
\* repeating an OPEN (agent/main.go:152-188, server.go:481-497).
FalseAlarmTakesDisturbance ==
    [][\A t \in Timer :
        LET s == timer[t].source
        IN (timer[t].state = "running" /\ timer'[t].state = "firing"
            /\ Server!Settled(s) /\ s \notin disturbed)
           => reported[s] # "CLOSED"]_vars

\* The server is not behind the agent of an undisturbed sensor: once nothing is
\* in flight and the agent sleeps between two polls, what the agent calls its
\* last status is what the server was told last (agent/main.go:170-204).
ServerFollowsAgent ==
    \A s \in Sensor \ disturbed :
        (agent[s].pc = "read" /\ link[s] = <<>>)
        => agent[s].lastStatus \in {"UNKNOWN", reported[s]}
=============================================================================
