----------------------------- MODULE CertRenewal -----------------------------
(***************************************************************************)
(* The renewal of the broker's certificate (internal/cmd/update-cert): a   *)
(* command run by hand that opens port 80 in the cloud's firewall, replaces *)
(* the challenge server on the host, lets certbot answer the challenge     *)
(* through it, installs the new files and takes everything down again.     *)
(* The challenge server (server/main.go) is told to stop by a file it      *)
(* looks for every second.                                                 *)
(*                                                                         *)
(* Any step of a command may fail and ends it.  A failure at the next step *)
(* before that step does anything stands for one whose effect was made and *)
(* whose answer was lost.  One command runs at a time.                     *)
(***************************************************************************)
EXTENDS Naturals

CONSTANTS
    Process,       \* process ids: bounds the challenge servers alive at once
    None,          \* no pid file
    File,          \* the files of a certificate
    MaxVersion     \* bounds the certificates issued

ASSUME RenewalAssumption ==
    /\ None \notin Process
    /\ MaxVersion \in Nat

VARIABLES
    op,             \* the command that runs, or how the last one ended
    firewall,       \* the number of firewalls of the given name
    shutdownFile,   \* does /tmp/shutdown exist?
    server,         \* the challenge servers
    polled,         \* those that looked for the file since the last touch
    pidFile,        \* the process named by the pid file
    issued,         \* the newest version in certbot's archive
    files,          \* the version of each file in Mosquitto's directory
    mosquitto       \* the version of each file Mosquitto has loaded

vars == <<op, firewall, shutdownFile, server, polled, pidFile, issued, files, mosquitto>>
host == <<shutdownFile, server, polled, pidFile>>
certs == <<issued, files, mosquitto>>

Ended == {"idle", "failed", "done"}
RenewPC == {"getFirewall", "createFirewall", "buildCertServer", "stop", "sleep", "deployAssets",
            "startServer", "checkServer", "certbot", "copy", "restart"}
CleanupPC == {"cleanup", "deleteFirewall", "cleanupStop", "cleanupSleep"}
Version == 0 .. MaxVersion
AliveProcesses == {p \in Process : server[p] # "none"}

\* Type correctness; there is at most one firewall of the name.
TypeOK ==
    /\ op \in [pc : Ended \cup RenewPC \cup CleanupPC, dryRun : BOOLEAN, todo : SUBSET File]
    /\ firewall \in 0 .. 1
    /\ shutdownFile \in BOOLEAN
    /\ server \in [Process -> {"none", "starting", "checked", "up", "serving", "seen", "draining"}]
    /\ polled \subseteq Process
    /\ pidFile \in Process \cup {None}
    /\ issued \in Version
    /\ files \in [File -> Version]
    /\ mosquitto \in [File -> Version]

Init ==
    /\ op = [pc |-> "idle", dryRun |-> FALSE, todo |-> {}]
    /\ firewall = 0
    /\ shutdownFile = FALSE
    /\ server = [p \in Process |-> "none"]
    /\ polled = {}
    /\ pidFile = None
    /\ issued = 0
    /\ files = [f \in File |-> 0]
    /\ mosquitto = [f \in File |-> 0]

-----------------------------------------------------------------------------
(* The commands *)

At(pc) == op.pc = pc
Goto(pc) == op' = [op EXCEPT !.pc = pc]

Renew ==
    /\ op.pc \in Ended
    /\ \E d \in BOOLEAN : op' = [pc |-> "getFirewall", dryRun |-> d, todo |-> {}]
    /\ UNCHANGED <<firewall, host, certs>>

Cleanup ==
    /\ op.pc \in Ended
    /\ Goto("cleanup")
    /\ UNCHANGED <<firewall, host, certs>>

Fail ==
    /\ op.pc \notin Ended
    /\ Goto("failed")
    /\ UNCHANGED <<firewall, host, certs>>

\* Mutant: nobody looks for the firewall of an earlier, failed command.
GetFirewallNever ==
    /\ At("getFirewall")
    /\ Goto("createFirewall")
    /\ UNCHANGED <<firewall, host, certs>>

GetFirewall ==
    /\ At("getFirewall")
    /\ Goto(IF firewall = 0 THEN "createFirewall" ELSE "buildCertServer")
    /\ UNCHANGED <<firewall, host, certs>>

CreateFirewall ==
    /\ At("createFirewall")
    /\ firewall' = firewall + 1
    /\ Goto("buildCertServer")
    /\ UNCHANGED <<host, certs>>

BuildCertServer ==
    /\ At("buildCertServer")
    /\ Goto("stop")
    /\ UNCHANGED <<firewall, host, certs>>

\* ensureCertServerStopped, first half
Touch ==
    /\ \/ At("stop") /\ Goto("sleep")
       \/ At("cleanupStop") /\ Goto("cleanupSleep")
    /\ shutdownFile' = TRUE
    /\ polled' = {}
    /\ UNCHANGED <<firewall, server, pidFile, certs>>

\* Its sleep of two seconds.  Timing assumption: every process has looked for the
\* file by then, as it does each second, and one that saw it has closed its
\* listener.  It may still be there for the five seconds it grants its requests.
Sleep ==
    /\ AliveProcesses \subseteq polled
    /\ \A p \in Process : server[p] # "seen"
    /\ \/ At("sleep") /\ Goto("deployAssets")
       \/ At("cleanupSleep") /\ Goto("done")
    /\ UNCHANGED <<firewall, host, certs>>

\* It may fail because the program file of a process that is still there is busy.
DeployAssets ==
    /\ At("deployAssets")
    /\ Goto("startServer")
    /\ UNCHANGED <<firewall, host, certs>>

\* Mutant: the shutdown file of the last stop is left there.
StartServerKeepFile ==
    /\ At("startServer")
    /\ \E p \in Process \ AliveProcesses :
        /\ server' = [server EXCEPT ![p] = "starting"]
        /\ polled' = polled \ {p}
    /\ Goto("checkServer")
    /\ UNCHANGED <<firewall, shutdownFile, pidFile, certs>>

\* The server is started in the background; whether it comes up is not known.
StartServer ==
    /\ At("startServer")
    /\ shutdownFile' = FALSE
    /\ \E p \in Process \ AliveProcesses :
        /\ server' = [server EXCEPT ![p] = "starting"]
        /\ polled' = polled \ {p}
    /\ Goto("checkServer")
    /\ UNCHANGED <<firewall, pidFile, certs>>

\* One of five attempts is answered.
CheckServer ==
    /\ At("checkServer")
    /\ firewall > 0
    /\ \E p \in Process : server[p] \in {"serving", "seen"}
    /\ Goto("certbot")
    /\ UNCHANGED <<firewall, host, certs>>

\* The challenge is answered by the server.  A dry run issues nothing.
Certbot ==
    /\ At("certbot")
    /\ \E p \in Process : server[p] \in {"serving", "seen"}
    /\ \/ op.dryRun /\ UNCHANGED issued
       \/ ~op.dryRun /\ issued < MaxVersion /\ issued' = issued + 1
    /\ op' = [op EXCEPT !.pc = "copy", !.todo = File]
    /\ UNCHANGED <<firewall, host, files, mosquitto>>

\* Mutant: a file that cannot be copied is passed over.
CopyOrSkip ==
    /\ At("copy")
    /\ issued > 0
    /\ \/ \E f \in op.todo :
            /\ files' \in {files, [files EXCEPT ![f] = issued]}
            /\ op' = [op EXCEPT !.todo = @ \ {f}]
       \/ op.todo = {} /\ Goto("restart") /\ UNCHANGED files
    /\ UNCHANGED <<firewall, host, issued, mosquitto>>

\* The newest version of each file is copied; without one the script ends.
Copy ==
    /\ At("copy")
    /\ issued > 0
    /\ \/ \E f \in op.todo :
            /\ files' = [files EXCEPT ![f] = issued]
            /\ op' = [op EXCEPT !.todo = @ \ {f}]
       \/ op.todo = {} /\ Goto("restart") /\ UNCHANGED files
    /\ UNCHANGED <<firewall, host, issued, mosquitto>>

RestartMosquitto ==
    /\ At("restart")
    /\ mosquitto' = files
    /\ Goto("cleanup")
    /\ UNCHANGED <<firewall, host, issued, files>>

\* Mutant: without a firewall there is nothing to clean up.
CleanupFirewallOnly ==
    /\ At("cleanup")
    /\ Goto(IF firewall = 0 THEN "done" ELSE "deleteFirewall")
    /\ UNCHANGED <<firewall, host, certs>>

CleanupFirewall ==
    /\ At("cleanup")
    /\ Goto(IF firewall = 0 THEN "cleanupStop" ELSE "deleteFirewall")
    /\ UNCHANGED <<firewall, host, certs>>

DeleteFirewall ==
    /\ At("deleteFirewall")
    /\ firewall' = firewall - 1
    /\ Goto("cleanupStop")
    /\ UNCHANGED <<host, certs>>

-----------------------------------------------------------------------------
(* The challenge server *)

Become(p, from, to) ==
    /\ server[p] \in from
    /\ server' = [server EXCEPT ![p] = to]
    /\ UNCHANGED <<op, firewall, polled, certs>>

\* Mutant: any pid file counts as stale.
CheckPidFileAlwaysStale(p) ==
    /\ Become(p, {"starting"}, "checked")
    /\ pidFile' = None
    /\ UNCHANGED shutdownFile

\* ensureSingleInstance: a pid file that names a live process, which may be this
\* very one when its id was used before, ends the new one; a stale one is removed.
CheckPidFile(p) ==
    /\ \/ /\ pidFile \in AliveProcesses
          /\ Become(p, {"starting"}, "none")
          /\ UNCHANGED pidFile
       \/ /\ pidFile \notin AliveProcesses
          /\ Become(p, {"starting"}, "checked")
          /\ pidFile' = None
    /\ UNCHANGED shutdownFile

WritePidFile(p) ==
    /\ Become(p, {"checked"}, "up")
    /\ pidFile' = p
    /\ UNCHANGED shutdownFile

Listen(p) == Become(p, {"up"}, "serving") /\ UNCHANGED <<shutdownFile, pidFile>>

\* log.Fatalf, which runs no deferred call, or a kill: the pid file stays.
Die(p) == Become(p, {"up", "serving"}, "none") /\ UNCHANGED <<shutdownFile, pidFile>>

\* The ticker's goroutine looks for the file; the main goroutine shuts down later.
Poll(p) ==
    /\ server[p] \in {"up", "serving"}
    /\ polled' = polled \cup {p}
    /\ server' = IF shutdownFile THEN [server EXCEPT ![p] = "seen"] ELSE server
    /\ UNCHANGED <<op, firewall, shutdownFile, pidFile, certs>>

Shutdown(p) == Become(p, {"seen"}, "draining") /\ UNCHANGED <<shutdownFile, pidFile>>

\* The deferred call removes the pid file, whoever wrote it.
Exit(p) ==
    /\ Become(p, {"draining"}, "none")
    /\ pidFile' = None
    /\ UNCHANGED shutdownFile

ServerStep(p) ==
    \/ CheckPidFile(p) \/ WritePidFile(p) \/ Listen(p) \/ Die(p)
    \/ Poll(p) \/ Shutdown(p) \/ Exit(p)

Next ==
    \/ Renew \/ Cleanup \/ Fail
    \/ GetFirewall \/ CreateFirewall \/ BuildCertServer \/ Touch \/ Sleep
    \/ DeployAssets \/ StartServer \/ CheckServer \/ Certbot \/ Copy \/ RestartMosquitto
    \/ CleanupFirewall \/ DeleteFirewall
    \/ \E p \in Process : ServerStep(p)

Spec == Init /\ [][Next]_vars

-----------------------------------------------------------------------------
(* Properties *)

\* A command that reports success leaves port 80 closed: no firewall lets anyone
\* in and no process on the host serves or is about to, also when earlier
\* commands failed half way and left some of it (main.go:154-176).
SuccessLeavesNothing ==
    At("done") => /\ firewall = 0
                  /\ \A p \in Process : server[p] \in {"none", "draining"}

\* While certbot's challenge is under way nothing is about to take the server
\* away: port 80 is open, and neither the file that stopped the server before
\* nor a server that has seen it is left (main.go:116-139, server/main.go:45-62).
ChallengeUndisturbed ==
    At("certbot") => /\ firewall = 1
                     /\ ~shutdownFile
                     /\ \A p \in Process : server[p] \notin {"seen", "draining"}

\* The pid file names every server past the guard as long as it is there, so a
\* second one is never let in: no exit, kill or failed start of another process
\* takes the file away from it (server/main.go:19-24 and 83-96).
PidFileNamesServer ==
    \A p \in Process : server[p] \in {"up", "serving", "seen", "draining"} => pidFile = p

\* Mosquitto is never restarted on a mixture: what it loads is the newest
\* version of every file, whichever copies failed before (main.go:372-389).
LoadedIsNewest ==
    [][mosquitto' # mosquitto => \A f \in File : mosquitto'[f] = issued]_vars
=============================================================================
