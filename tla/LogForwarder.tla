---------------------------- MODULE LogForwarder ----------------------------
(***************************************************************************)
(* The log forwarder (log-forwarder/main.go) on an agent's host: a reader  *)
(* goroutine takes lines from journalctl's pipe and hands them, one at a   *)
(* time over an unbuffered channel, to main, which posts them; a goroutine *)
(* waits for journalctl to end; and a monitor stops a unit that systemd    *)
(* has restarted too often.                                                *)
(*                                                                         *)
(* systemd, journalctl and the agent's unit are external: the unit crashes *)
(* and is restarted at any time, and a deployment restarts it by hand,     *)
(* which sets its restart counter back.  Programs states the fairness.     *)
(***************************************************************************)
EXTENDS Naturals, Sequences

CONSTANTS
    Line,          \* the lines the units may ever log
    PipeCapacity,  \* the lines journalctl's pipe holds: a bound
    MaxRestarts    \* maxRestarts

ForwarderAssumption == PipeCapacity \in Nat \ {0} /\ MaxRestarts \in Nat

\* A line that does not parse, one beyond the scanner's 64 KB, one of systemd
\* itself or an empty one, and a line to be forwarded.
Kind == {"bad", "long", "noise", "good"}

VARIABLES
    unlogged,    \* the lines not logged yet
    kind,        \* the kind of each line logged
    journalctl,  \* "running", "succeeded", "failed" or "gone"
    pipe,        \* the lines in its pipe
    reader,      \* the scanner goroutine: what it does and with which line
    poster,      \* main: what it does and with which line
    forwarded,   \* the lines posted, or whose post failed with a message
    monitor,     \* monitorRestarts: its step and the counter it read
    unit,        \* the agent's unit: is it active, how often was it restarted?
    resetSince   \* was the counter set back since the monitor read it?

logVars == <<unlogged, kind, journalctl, pipe, reader, poster, forwarded>>
unitVars == <<monitor, unit, resetSince>>
vars == <<logVars, unitVars>>

NoLine == [pc |-> "ended", line |-> <<>>]
Scanning == [pc |-> "scan", line |-> <<>>]
Receiving == [pc |-> "receive", line |-> <<>>]
Waiting == [pc |-> "wait", seen |-> 0]

Up == poster.pc # "ended"

\* Type correctness of the pipe, the goroutines and the unit.
TypeOK ==
    /\ unlogged \subseteq Line /\ forwarded \subseteq Line \ unlogged
    /\ kind \in [Line -> Kind]
    /\ journalctl \in {"running", "succeeded", "failed", "gone"}
    /\ pipe \in Seq(Line) /\ Len(pipe) <= PipeCapacity
    /\ reader.pc \in {"scan", "send", "ended"}
    /\ poster.pc \in {"receive", "post", "ended"}
    /\ monitor.pc \in {"wait", "stop"} /\ monitor.seen \in 0..MaxRestarts + 1
    /\ unit \in [active : BOOLEAN, restarts : 0..MaxRestarts + 1]
    /\ resetSince \in BOOLEAN

Init ==
    /\ unlogged = Line
    /\ kind = [l \in Line |-> "good"]
    /\ journalctl = "running"
    /\ pipe = <<>>
    /\ reader = Scanning
    /\ poster = Receiving
    /\ forwarded = {}
    /\ monitor = Waiting
    /\ unit = [active |-> TRUE, restarts |-> 0]
    /\ resetSince = FALSE

-----------------------------------------------------------------------------
(* tailSystemdLogs *)

\* A unit logs l and journalctl, told to show new lines only, writes it to its
\* pipe; with no journalctl to read the journal the line is never forwarded.
Log(l, k) ==
    /\ l \in unlogged
    /\ unlogged' = unlogged \ {l}
    /\ kind' = [kind EXCEPT ![l] = k]
    /\ \/ /\ journalctl = "running" /\ Len(pipe) < PipeCapacity
          /\ pipe' = Append(pipe, l)
       \/ journalctl # "running" /\ UNCHANGED pipe
    /\ UNCHANGED <<journalctl, reader, poster, forwarded, unitVars>>

\* Mutant: a line that is filtered out ends the goroutine.
ScanToNoise ==
    /\ reader.pc = "scan" /\ pipe # <<>>
    /\ pipe' = Tail(pipe)
    /\ LET l == Head(pipe)
       IN reader' = IF kind[l] \in {"long", "noise"} THEN NoLine
                    ELSE [pc |-> "send", line |-> <<l>>]
    /\ UNCHANGED <<unlogged, kind, journalctl, poster, forwarded, unitVars>>

\* The scanner gives up on a line that does not fit its buffer; lines of
\* systemd and empty ones are dropped; any other line, one that does not parse
\* included, goes to the channel.
Scan ==
    /\ reader.pc = "scan" /\ pipe # <<>>
    /\ pipe' = Tail(pipe)
    /\ LET l == Head(pipe)
       IN \/ kind[l] = "long" /\ reader' = NoLine
          \/ kind[l] = "noise" /\ UNCHANGED reader
          \/ kind[l] \in {"good", "bad"} /\ reader' = [pc |-> "send", line |-> <<l>>]
    /\ UNCHANGED <<unlogged, kind, journalctl, poster, forwarded, unitVars>>

\* The scanner meets the end of the pipe.
ScanEnds ==
    /\ reader.pc = "scan" /\ pipe = <<>> /\ journalctl = "gone"
    /\ reader' = NoLine
    /\ UNCHANGED <<unlogged, kind, journalctl, pipe, poster, forwarded, unitVars>>

JournalctlExits ==
    /\ journalctl = "running"
    /\ journalctl' \in {"succeeded", "failed"}
    /\ UNCHANGED <<unlogged, kind, pipe, reader, poster, forwarded, unitVars>>

\* main has returned or the process has exited.
Exit ==
    /\ poster' = NoLine /\ reader' = NoLine
    /\ journalctl' = "gone" /\ pipe' = <<>>

\* Wait closes the pipe, read to its end or not: the scanner keeps the first n
\* lines, which it has buffered.  After an error the channel is closed, which
\* may panic a reader that is sending, and the process exits; after a success
\* the goroutine just returns and the channel stays open.
WaitReturns ==
    /\ \/ /\ journalctl = "failed"
          /\ Exit
       \/ /\ journalctl = "succeeded"
          /\ journalctl' = "gone"
          /\ \E n \in 0..Len(pipe) : pipe' = SubSeq(pipe, 1, n)
          /\ UNCHANGED <<reader, poster>>
    /\ UNCHANGED <<unlogged, kind, forwarded, unitVars>>

\* Sent to main over the unbuffered channel; after a line that does not parse
\* the reader ends, and so does main, without draining the channel.
HandOver ==
    /\ reader.pc = "send" /\ poster.pc = "receive"
    /\ LET l == reader.line[1]
       IN \/ /\ kind[l] = "good"
             /\ poster' = [pc |-> "post", line |-> reader.line]
             /\ reader' = Scanning
             /\ UNCHANGED <<journalctl, pipe>>
          \/ kind[l] = "bad" /\ Exit
    /\ UNCHANGED <<unlogged, kind, forwarded, unitVars>>

\* sendLogs: an error is printed and the line is not posted again.
Post ==
    /\ poster.pc = "post"
    /\ poster' = Receiving
    /\ forwarded' = forwarded \cup {poster.line[1]}
    /\ UNCHANGED <<unlogged, kind, journalctl, pipe, reader, unitVars>>

\* systemd starts the forwarder again half a minute after it has ended.
StartAgain ==
    /\ ~Up
    /\ journalctl' = "running" /\ pipe' = <<>>
    /\ reader' = Scanning /\ poster' = Receiving
    /\ monitor' = Waiting /\ resetSince' = FALSE
    /\ UNCHANGED <<unlogged, kind, forwarded, unit>>

-----------------------------------------------------------------------------
(* monitorRestarts *)

\* Mutant: a unit at the limit is stopped.
AtLimit(n) == n >= MaxRestarts

\* Mutant: only a unit that is restarted once more is stopped.
AboveNextLimit(n) == n > MaxRestarts + 1

AboveLimit(n) == n > MaxRestarts

\* Every five minutes the counter is read; an output that is no number is
\* printed as an error and counts as 0.
ReadRestarts ==
    /\ Up /\ monitor.pc = "wait"
    /\ monitor' = [seen |-> unit.restarts,
                   pc |-> IF AboveLimit(unit.restarts) THEN "stop" ELSE "wait"]
    /\ resetSince' = FALSE
    /\ UNCHANGED <<logVars, unit>>

\* systemctl show fails or its output is no number.
ReadRestartsFails ==
    /\ Up /\ monitor.pc = "wait"
    /\ monitor' = Waiting
    /\ UNCHANGED <<logVars, unit, resetSince>>

StopUnit ==
    /\ Up /\ monitor.pc = "stop"
    /\ unit' = [unit EXCEPT !.active = FALSE]
    /\ monitor' = Waiting
    /\ UNCHANGED <<logVars, resetSince>>

StopUnitFails ==
    /\ Up /\ monitor.pc = "stop"
    /\ monitor' = Waiting
    /\ UNCHANGED <<logVars, unit, resetSince>>

\* The agent ends and systemd starts it again (Restart=always); restarts beyond
\* the limit are not told apart.
UnitRestarts ==
    /\ unit.active
    /\ unit' = [unit EXCEPT !.restarts = IF @ > MaxRestarts THEN @ ELSE @ + 1]
    /\ UNCHANGED <<logVars, monitor, resetSince>>

\* A deployment restarts the unit.
UnitDeployed ==
    /\ unit' = [active |-> TRUE, restarts |-> 0]
    /\ resetSince' = TRUE
    /\ UNCHANGED <<logVars, monitor>>

Next ==
    \/ \E l \in Line, k \in Kind : Log(l, k)
    \/ Scan \/ ScanEnds \/ JournalctlExits \/ WaitReturns \/ HandOver \/ Post \/ StartAgain
    \/ ReadRestarts \/ ReadRestartsFails \/ StopUnit \/ StopUnitFails
    \/ UnitRestarts \/ UnitDeployed

Spec == Init /\ [][Next]_vars

-----------------------------------------------------------------------------
(* Properties *)

InPipe(l) == \E i \in 1..Len(pipe) : pipe[i] = l

\* A line of a unit that journalctl has written is posted unless the forwarder
\* ends, journalctl ends or a line does not fit the scanner's buffer: the
\* channel without a buffer, failing posts and lines that are dropped never
\* leave the reader and main waiting (main.go:75-86 and 104-128).
LinesAreForwarded ==
    \A l \in Line :
        (InPipe(l) /\ kind[l] = "good")
        ~> \/ l \in forwarded
           \/ ~Up \/ journalctl = "gone"
           \/ \E q \in Line \ unlogged : kind[q] = "long"

\* A unit is stopped only while its counter is above the limit, unless it was
\* restarted by hand between the monitor's two commands (main.go:179-210).
StopsOnlyLoops ==
    [][(unit.active /\ ~unit'.active)
       => (unit.restarts > MaxRestarts \/ resetSince)]_vars

\* A unit restarted more often than the limit is stopped, unless it is deployed
\* again or the forwarder ends first (main.go:176-213).
LoopsAreStopped ==
    (Up /\ unit.restarts > MaxRestarts)
    ~> (~unit.active \/ unit.restarts <= MaxRestarts \/ ~Up)
=============================================================================
