-------------------------------- MODULE Agent --------------------------------
(***************************************************************************)
(* The agents (agent/main.go), one for each sensor, and their link to the  *)
(* server.  An agent polls its pin, writes what it read to a status file   *)
(* and publishes it at QoS 0 when it differs from what it published last.  *)
(* A restarted agent takes the status file for what was published last.    *)
(* Some agents also switch an outlet with the door.  The hourly look at    *)
(* Tailscale only logs.                                                    *)
(*                                                                         *)
(* `disturbed' is history: the sensors about which something went wrong    *)
(* that makes the file differ from what the server was told.  `behind' is  *)
(* history, too: those whose outlet missed the last change.                *)
(***************************************************************************)
EXTENDS Naturals, Sequences, SequencesExt

CONSTANTS
    Sensor,        \* the sensors' names
    None,          \* no status: a missing or empty file, a variable not set
    Misfortune,    \* what may go wrong: a subset of {"file", "publish", "link", "exit"}
    LinkCapacity,  \* bounds the messages of a sensor in flight
    OutletEnabled  \* is OUTLET_ENABLED set?

VARIABLES
    door,         \* the position of each door
    agent,        \* the process of each agent
    statusFile,   \* the content of each status file
    link,         \* the messages published and not yet delivered
    disturbed,    \* see above
    outlet,       \* is the outlet of each agent on?
    behind        \* see above

outletVars == <<outlet, behind>>
vars == <<door, agent, statusFile, link, disturbed, outletVars>>

Position == {"OPEN", "CLOSED"}

AgentAssumption == None \notin Position \cup {"UNKNOWN"} /\ LinkCapacity \in Nat

Down == [pc |-> "down", currentStatus |-> None, lastStatus |-> None]

\* Type correctness of the agents; a running agent has a last status, from the
\* file or UNKNOWN.
TypeOK ==
    /\ door \in [Sensor -> Position]
    /\ agent \in [Sensor -> [pc : {"down", "read", "write", "publish", "switch"},
                             currentStatus : Position \cup {None},
                             lastStatus : Position \cup {"UNKNOWN", None}]]
    /\ \A s \in Sensor : agent[s].pc # "down" => agent[s].lastStatus # None
    /\ statusFile \in [Sensor -> Position \cup {None}]
    /\ link \in [Sensor -> Seq(Position)]
    /\ \A s \in Sensor : Len(link[s]) <= LinkCapacity
    /\ disturbed \subseteq Sensor
    /\ outlet \in [Sensor -> BOOLEAN] /\ behind \subseteq Sensor

Init ==
    /\ door \in [Sensor -> Position]
    /\ agent = [s \in Sensor |-> Down]
    /\ statusFile = [s \in Sensor |-> None]
    /\ link = [s \in Sensor |-> <<>>]
    /\ disturbed = {}
    /\ outlet = [s \in Sensor |-> FALSE] /\ behind = {}

-----------------------------------------------------------------------------
At(s, pc) == agent[s].pc = pc

MoveDoor(s) ==
    /\ door' = [door EXCEPT ![s] = IF @ = "OPEN" THEN "CLOSED" ELSE "OPEN"]
    /\ UNCHANGED <<agent, statusFile, link, disturbed, outletVars>>

\* Mutant: an agent without a status file has no last status.
StartRaw(s) ==
    /\ At(s, "down")
    /\ agent' = [agent EXCEPT ![s] = [Down EXCEPT !.pc = "read", !.lastStatus = statusFile[s]]]
    /\ UNCHANGED <<door, statusFile, link, disturbed, outletVars>>

\* Mutant: the status file is not read.
StartUnknown(s) ==
    /\ At(s, "down")
    /\ agent' = [agent EXCEPT ![s] = [Down EXCEPT !.pc = "read", !.lastStatus = "UNKNOWN"]]
    /\ UNCHANGED <<door, statusFile, link, disturbed, outletVars>>

\* Mutant: the last status is what the pin says at the start.
StartWithPin(s) ==
    /\ At(s, "down")
    /\ agent' = [agent EXCEPT ![s] = [Down EXCEPT !.pc = "read", !.lastStatus = door[s]]]
    /\ UNCHANGED <<door, statusFile, link, disturbed, outletVars>>

\* A missing file counts as UNKNOWN.  An empty one is an empty last status, which
\* differs from every status just as UNKNOWN does.
Start(s) ==
    /\ At(s, "down")
    /\ agent' = [agent EXCEPT ![s] =
        [Down EXCEPT !.pc = "read",
                     !.lastStatus = IF statusFile[s] = None THEN "UNKNOWN" ELSE statusFile[s]]]
    /\ UNCHANGED <<door, statusFile, link, disturbed, outletVars>>

ReadPin(s) ==
    /\ At(s, "read")
    /\ agent' = [agent EXCEPT ![s].currentStatus = door[s], ![s].pc = "write"]
    /\ UNCHANGED <<door, statusFile, link, disturbed, outletVars>>

\* The agent goes on to publish a change, or sleeps and polls again.
Compare(s) ==
    LET a == agent[s]
    IN agent' = [agent EXCEPT ![s].lastStatus = a.currentStatus,
                              ![s].pc = IF a.currentStatus # a.lastStatus THEN "publish" ELSE "read"]

WriteStatus(s) ==
    /\ At(s, "write")
    /\ statusFile' = [statusFile EXCEPT ![s] = agent[s].currentStatus]
    /\ Compare(s)
    /\ UNCHANGED <<door, link, disturbed, outletVars>>

\* The error is only logged; the file may have been truncated.
WriteStatusFails(s) ==
    /\ "file" \in Misfortune
    /\ At(s, "write")
    /\ statusFile' \in {statusFile, [statusFile EXCEPT ![s] = None]}
    /\ Compare(s)
    /\ disturbed' = disturbed \cup {s}
    /\ UNCHANGED <<door, link, outletVars>>

AfterPublish == IF OutletEnabled THEN "switch" ELSE "read"

PublishSensorStatus(s) ==
    /\ At(s, "publish")
    /\ Len(link[s]) < LinkCapacity
    /\ link' = [link EXCEPT ![s] = Append(@, agent[s].currentStatus)]
    /\ agent' = [agent EXCEPT ![s].pc = AfterPublish]
    /\ UNCHANGED <<door, statusFile, disturbed, outletVars>>

\* The error is only logged and the change is never published again.
PublishFails(s) ==
    /\ "publish" \in Misfortune
    /\ At(s, "publish")
    /\ agent' = [agent EXCEPT ![s].pc = AfterPublish]
    /\ disturbed' = disturbed \cup {s}
    /\ UNCHANGED <<door, statusFile, link, outletVars>>

\* TurnOn and TurnOff.
SwitchOutlet(s) ==
    /\ At(s, "switch")
    /\ outlet' = [outlet EXCEPT ![s] = agent[s].currentStatus = "OPEN"]
    /\ behind' = behind \ {s}
    /\ agent' = [agent EXCEPT ![s].pc = "read"]
    /\ UNCHANGED <<door, statusFile, link, disturbed>>

\* Its error is only logged, and so was that of the search for the device when
\* the agent started, which leaves it without one.
SwitchOutletFails(s) ==
    /\ At(s, "switch")
    /\ behind' = behind \cup {s}
    /\ agent' = [agent EXCEPT ![s].pc = "read"]
    /\ UNCHANGED <<door, statusFile, link, disturbed, outlet>>

\* The process ends: on SIGTERM, on a restart message from the dashboard, or
\* with the machine, in the middle of a step as well.  While it sleeps nothing is
\* lost.  While it writes, the file may be left empty; once it has written, a
\* change in the file is not published any more.
Exit(s) ==
    /\ \/ At(s, "read") /\ UNCHANGED <<statusFile, disturbed, behind>>
       \/ /\ "exit" \in Misfortune
          /\ At(s, "write")
          /\ statusFile' = [statusFile EXCEPT ![s] = None]
          /\ disturbed' = disturbed \cup {s}
          /\ UNCHANGED behind
       \/ /\ "exit" \in Misfortune
          /\ At(s, "publish")
          /\ disturbed' = disturbed \cup {s}
          /\ UNCHANGED <<statusFile, behind>>
       \/ /\ "exit" \in Misfortune
          /\ At(s, "switch")
          /\ behind' = behind \cup {s}
          /\ UNCHANGED <<statusFile, disturbed>>
    /\ agent' = [agent EXCEPT ![s] = Down]
    /\ UNCHANGED <<door, link, outlet>>

\* A QoS 0 message is lost on its way.
Lose(s) ==
    /\ "link" \in Misfortune
    /\ \E i \in DOMAIN link[s] : link' = [link EXCEPT ![s] = RemoveAt(@, i)]
    /\ disturbed' = disturbed \cup {s}
    /\ UNCHANGED <<door, agent, statusFile, outletVars>>

\* The server takes the oldest message.
Deliver(s) ==
    /\ link[s] # <<>>
    /\ link' = [link EXCEPT ![s] = Tail(@)]
    /\ UNCHANGED <<door, agent, statusFile, disturbed, outletVars>>

Step(s) ==
    \/ MoveDoor(s)
    \/ Start(s) \/ ReadPin(s) \/ WriteStatus(s) \/ WriteStatusFails(s)
    \/ PublishSensorStatus(s) \/ PublishFails(s) \/ SwitchOutlet(s) \/ SwitchOutletFails(s) \/ Exit(s) \/ Lose(s)

Next == \E s \in Sensor : Step(s) \/ Deliver(s)

Spec == Init /\ [][Next]_vars

-----------------------------------------------------------------------------
(* Properties *)

\* The outlet of an agent that sleeps between two polls is on when its last status
\* is OPEN and off when it is CLOSED, however often the agent was restarted, unless
\* the switching of the last change failed or was cut short, or the status file
\* was (agent/main.go:152-203).
OutletFollowsAgent ==
    OutletEnabled =>
        \A s \in Sensor \ (disturbed \cup behind) :
            (At(s, "read") /\ agent[s].lastStatus # "UNKNOWN")
            => outlet[s] = (agent[s].lastStatus = "OPEN")
=============================================================================
