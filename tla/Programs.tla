------------------------------ MODULE Programs ------------------------------
(***************************************************************************)
(* The programs beside the server: the certificate renewal, the log        *)
(* forwarder, the guard before the server's start, and an agent by itself, *)
(* with its outlet.  They share no state, so a behaviour follows one of    *)
(* them, named by `program', and leaves the others alone.                  *)
(***************************************************************************)
EXTENDS CertRenewal, Sequences

CONSTANTS
    Line, PipeCapacity, MaxRestarts,     \* of LogForwarder
    Limit, Period, Needed, MaxOthers,    \* of StartGuard
    Sensor, Misfortune, LinkCapacity     \* of Agent

VARIABLES
    program,
    unlogged, kind, journalctl, pipe, reader, poster, forwarded,
    monitor, unit, resetSince,
    quota, container, timer, others, excuses,
    door, agent, statusFile, link, disturbed, outlet, behind

Forwarder == INSTANCE LogForwarder
Guard == INSTANCE StartGuard
Agents == INSTANCE Agent WITH OutletEnabled <- TRUE

ASSUME ProgramsAssumption ==
    Forwarder!ForwarderAssumption /\ Guard!GuardAssumption /\ Agents!AgentAssumption

forwarderVars == <<unlogged, kind, journalctl, pipe, reader, poster, forwarded,
                   monitor, unit, resetSince>>
guardVars == <<quota, container, timer, others, excuses>>
agentVars == <<door, agent, statusFile, link, disturbed, outlet, behind>>
programsVars == <<program, vars, forwarderVars, guardVars, agentVars>>

ProgramsInit ==
    /\ program \in {"update-cert", "log-forwarder", "op-limit-check", "agent"}
    /\ Init /\ Forwarder!Init /\ Guard!Init /\ Agents!Init
    /\ program # "agent" => door = [s \in Sensor |-> "CLOSED"]

RenewalStep(A) ==
    program = "update-cert" /\ A /\ UNCHANGED <<program, forwarderVars, guardVars, agentVars>>
ForwarderStep(A) ==
    program = "log-forwarder" /\ A /\ UNCHANGED <<program, vars, guardVars, agentVars>>
GuardStep(A) ==
    program = "op-limit-check" /\ A /\ UNCHANGED <<program, vars, forwarderVars, agentVars>>
AgentStep(A) ==
    program = "agent" /\ A /\ UNCHANGED <<program, vars, forwarderVars, guardVars>>

ProgramsNext ==
    \/ RenewalStep(Next) \/ ForwarderStep(Forwarder!Next)
    \/ GuardStep(Guard!Next) \/ AgentStep(Agents!Next)

\* The forwarder's goroutines run when they can and a post returns; the commands
\* of its monitor do not fail for ever.
ForwarderFairness ==
    /\ WF_programsVars(ForwarderStep(Forwarder!Scan))
    /\ WF_programsVars(ForwarderStep(Forwarder!ScanEnds))
    /\ WF_programsVars(ForwarderStep(Forwarder!WaitReturns))
    /\ WF_programsVars(ForwarderStep(Forwarder!HandOver))
    /\ WF_programsVars(ForwarderStep(Forwarder!Post))
    /\ SF_programsVars(ForwarderStep(Forwarder!ReadRestarts))
    /\ SF_programsVars(ForwarderStep(Forwarder!StopUnit))

\* Time goes on, the script does too and the platform starts what has ended.
GuardFairness ==
    /\ WF_programsVars(GuardStep(Guard!Tick))
    /\ WF_programsVars(GuardStep(Guard!LimitCheck))
    /\ WF_programsVars(GuardStep(Guard!TickerFires))
    /\ WF_programsVars(GuardStep(Guard!OpRun))
    /\ WF_programsVars(GuardStep(Guard!OpRunFails))
    /\ WF_programsVars(GuardStep(Guard!StartAgain))

ProgramsSpec ==
    /\ ProgramsInit /\ [][ProgramsNext]_programsVars
    /\ ForwarderFairness /\ GuardFairness

\* Type correctness of the four programs.
ProgramsTypeOK == TypeOK /\ Forwarder!TypeOK /\ Guard!TypeOK /\ Agents!TypeOK

\* A line that journalctl has written is posted unless the forwarder ends,
\* journalctl ends or a line does not fit the scanner's buffer
\* (log-forwarder/main.go:75-86 and 104-128).
LinesAreForwarded == Forwarder!LinesAreForwarded

\* The monitor stops a unit only while its restart counter is above the limit,
\* unless it was set back between the monitor's two commands
\* (log-forwarder/main.go:179-210).
StopsOnlyLoops == Forwarder!StopsOnlyLoops

\* A unit restarted more often than the limit is stopped, unless it is deployed
\* again or the forwarder ends first (log-forwarder/main.go:176-213).
LoopsAreStopped == Forwarder!LoopsAreStopped

\* The outlet follows what the agent read of the door, however often the agent was
\* restarted, unless a switching failed or was cut short or the status file was
\* (agent/main.go:152-203).
OutletFollowsAgent == Agents!OutletFollowsAgent

\* A start that the guard has let through finds the quotas it needs, but for the
\* reasons StartGuard lists: a panic of the guard, a maintenance page that could not
\* be served, a rounded time, a quota further down reset later, or another's use
\* (op.go:22-60 and 86-143, op-limit-check/main.go:28-39, entrypoint.sh:10-12).
FailedStartsAreExplained == Guard!FailedStartsAreExplained

\* The guard keeps the server away no longer than a quota is used up
\* (op.go:22-60 and 86-143, op-limit-check/main.go:28-40).
WaitsOnlyWhileUsedUp == Guard!WaitsOnlyWhileUsedUp

\* The guard never keeps the server away for good
\* (op-limit-check/main.go:15-40).
ServerIsStarted == []<>(program = "op-limit-check" => container = "serving")
=============================================================================
