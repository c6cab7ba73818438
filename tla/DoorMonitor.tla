----------------------------- MODULE DoorMonitor -----------------------------
(***************************************************************************)
(* What the server promises of every sensor, whatever services it calls    *)
(* and in which goroutines: the stored status only ever becomes the newest *)
(* report or UNKNOWN, an opening is announced only while the newest report *)
(* is OPEN and the stored status is not, and an alarm about a door left    *)
(* open takes a clock that a report of OPEN started.                       *)
(*                                                                         *)
(* SensorServer implements this specification: see Monitor there.          *)
(***************************************************************************)
CONSTANTS
    Sensor,   \* the sensors
    Clock,    \* identities of open-timeout clocks
    None      \* nothing reported, nothing stored

Known == {"OPEN", "CLOSED", "UNKNOWN"}

VARIABLES
    report,  \* the newest report of each sensor
    stored,  \* the status stored for it
    told,    \* what was notified about it since that report
    clocks   \* the clocks that run for it

vars == <<report, stored, told, clocks>>

Init ==
    /\ report = [s \in Sensor |-> None]
    /\ stored = [s \in Sensor |-> None]
    /\ told = [s \in Sensor |-> {}]
    /\ clocks = [s \in Sensor |-> {}]

Report(s, st) ==
    /\ report' = [report EXCEPT ![s] = st]
    /\ told' = [told EXCEPT ![s] = {}]
    /\ UNCHANGED <<stored, clocks>>

Store(s) ==
    /\ report[s] # None
    /\ stored' = [stored EXCEPT ![s] = report[s]]
    /\ UNCHANGED <<report, told, clocks>>

\* A sensor never stored is never lost.
Lose(s) ==
    /\ stored[s] # None
    /\ stored' = [stored EXCEPT ![s] = "UNKNOWN"]
    /\ UNCHANGED <<report, told, clocks>>

TellLost(s) ==
    /\ stored[s] # None
    /\ told' = [told EXCEPT ![s] = @ \cup {"lostConnection"}]
    /\ UNCHANGED <<report, stored, clocks>>

\* A report that repeats the stored status is no opening.
Announce(s) ==
    /\ report[s] = "OPEN"
    /\ stored[s] \in {"CLOSED", "UNKNOWN"}
    /\ told' = [told EXCEPT ![s] = @ \cup {"opened"}]
    /\ UNCHANGED <<report, stored, clocks>>

StartClock(s, c) ==
    /\ report[s] = "OPEN"
    /\ stored[s] # None
    /\ \A r \in Sensor : c \notin clocks[r]
    /\ clocks' = [clocks EXCEPT ![s] = @ \cup {c}]
    /\ UNCHANGED <<report, stored, told>>

StopClock(s, c) ==
    /\ report[s] = "CLOSED"
    /\ c \in clocks[s]
    /\ clocks' = [clocks EXCEPT ![s] = @ \ {c}]
    /\ UNCHANGED <<report, stored, told>>

\* A clock ends once; a user who is not to be told is not.
Alarm(s, c) ==
    /\ c \in clocks[s]
    /\ clocks' = [clocks EXCEPT ![s] = @ \ {c}]
    /\ told' \in {told, [told EXCEPT ![s] = @ \cup {"openTooLong"}]}
    /\ UNCHANGED <<report, stored>>

\* Clocks do not survive the process.
Restart ==
    /\ clocks' = [s \in Sensor |-> {}]
    /\ UNCHANGED <<report, stored, told>>

Next ==
    \/ \E s \in Sensor : Store(s) \/ Lose(s) \/ TellLost(s) \/ Announce(s)
    \/ \E s \in Sensor, st \in Known : Report(s, st)
    \/ \E s \in Sensor, c \in Clock :
        StartClock(s, c) \/ StopClock(s, c) \/ Alarm(s, c)
    \/ Restart

Spec == Init /\ [][Next]_vars
=============================================================================
