---------------------------- MODULE ProgramsProofs ----------------------------
(***************************************************************************)
(* Proofs about the programs beside the server: the certificate renewal,   *)
(* the log forwarder, the guard before the server's start and, by          *)
(* AgentProofs, the agent's outlet, for any processes, files, versions,    *)
(* lines, limits, quotas, sensors and misfortunes.                         *)
(***************************************************************************)
EXTENDS Programs, SequenceTheorems, WellFoundedInduction, TLAPS

-----------------------------------------------------------------------------
(* The firewall and the files: what only the command changes *)

\* The firewall is there from its creation to its deletion and not after.
FirewallInv ==
    /\ At("createFirewall") => firewall = 0
    /\ op.pc \in {"buildCertServer", "stop", "sleep", "deployAssets", "startServer",
                  "checkServer", "certbot", "copy", "restart", "deleteFirewall"}
       => firewall = 1
    /\ op.pc \in {"cleanupStop", "cleanupSleep", "done"} => firewall = 0

\* The files not left to be copied are of the newest version.
FilesInv ==
    /\ At("copy") => \A f \in File \ op.todo : files[f] = issued
    /\ At("restart") => \A f \in File : files[f] = issued

-----------------------------------------------------------------------------
(* The challenge servers *)

Named(p) == server[p] \in {"up", "serving", "seen", "draining"}
Young(p) == server[p] \in {"starting", "checked"}

\* The guard lets one process in at a time: one that has passed it and has not
\* written the pid file yet is alone past it, and no two are on their way.
PidInv ==
    /\ \A p \in Process : Named(p) => pidFile = p
    /\ \A p \in Process : server[p] = "checked" => \A q \in Process : ~Named(q)
    /\ \A p, q \in Process : Young(p) /\ Young(q) => p = q

\* A process that looked for the file since it was touched has seen it; after
\* the sleep only processes that grant their requests some time are left.
StopInv ==
    /\ op.pc \in {"sleep", "cleanupSleep"} =>
        /\ shutdownFile
        /\ \A p \in polled : server[p] \in {"none", "seen", "draining"}
    /\ op.pc \in {"deployAssets", "startServer", "done"} =>
        \A p \in Process : server[p] \in {"none", "draining"}
    /\ op.pc \in {"checkServer", "certbot"} =>
        /\ ~shutdownFile
        /\ \A p \in Process : server[p] # "seen"
    /\ At("certbot") => \A p \in Process : server[p] # "draining"

Inv == TypeOK /\ FirewallInv /\ FilesInv /\ PidInv /\ StopInv

LEMMA InitInv == Init => Inv
<1> SUFFICES ASSUME Init PROVE Inv
  OBVIOUS
<1> USE DEF Init
<1>1. TypeOK
  <2>1. 0 \in Version
    BY RenewalAssumption DEF Version
  <2>2. op \in [pc : Ended \cup RenewPC \cup CleanupPC, dryRun : BOOLEAN, todo : SUBSET File]
    BY DEF Ended
  <2>3. polled \subseteq Process /\ pidFile \in Process \cup {None}
    OBVIOUS
  <2>4. server \in [Process -> {"none", "starting", "checked", "up", "serving", "seen", "draining"}]
    OBVIOUS
  <2>5. firewall \in 0 .. 1
    OBVIOUS
  <2>6. shutdownFile \in BOOLEAN
    BY Zenon
  <2> QED
    BY <2>1, <2>2, <2>3, <2>4, <2>5, <2>6 DEF TypeOK
<1>2. FirewallInv /\ FilesInv
  BY DEF FirewallInv, FilesInv, At
<1>3. PidInv /\ StopInv
  BY DEF PidInv, StopInv, Named, Young, At
<1> QED
  BY <1>1, <1>2, <1>3 DEF Inv

\* A step of the command that leaves the host and the certificates alone.
LEMMA MoveOn ==
  ASSUME Inv, NEW pc, op' = [op EXCEPT !.pc = pc],
         pc \in Ended \cup RenewPC \cup CleanupPC,
         pc \notin {"sleep", "cleanupSleep", "copy", "restart"},
         UNCHANGED <<host, certs>>
  PROVE  /\ firewall' \in 0 .. 1 => TypeOK'
         /\ FilesInv' /\ PidInv'
         /\ (pc \notin {"deployAssets", "startServer", "done", "checkServer", "certbot"}
             => StopInv')
<1> USE DEF Inv, At, host, certs
<1>1. op'.pc = pc /\ op'.todo = op.todo
  BY DEF TypeOK
<1>2. firewall' \in 0 .. 1 => TypeOK'
  BY DEF TypeOK
<1>3. FilesInv' /\ PidInv'
  BY <1>1 DEF FilesInv, PidInv, Named, Young
<1>4. pc \notin {"deployAssets", "startServer", "done", "checkServer", "certbot"} => StopInv'
  BY <1>1 DEF StopInv
<1> QED
  BY <1>2, <1>3, <1>4

LEMMA CommandStep ==
  ASSUME Inv,
         \/ Renew \/ Cleanup \/ Fail \/ GetFirewall \/ CreateFirewall \/ BuildCertServer
         \/ Touch \/ Sleep \/ DeployAssets \/ StartServer \/ CheckServer \/ Certbot \/ Copy
         \/ RestartMosquitto \/ CleanupFirewall \/ DeleteFirewall
  PROVE  Inv'
<1> USE DEF Inv, At, Goto, host, certs, Ended, RenewPC, CleanupPC
<1>1. CASE Renew
  <2>1. PICK d \in BOOLEAN : op' = [pc |-> "getFirewall", dryRun |-> d, todo |-> {}]
    BY <1>1 DEF Renew
  <2>2. op'.pc = "getFirewall" /\ UNCHANGED <<firewall, host, certs>>
    BY <1>1, <2>1 DEF Renew
  <2>3. TypeOK'
    BY <2>1, <2>2 DEF TypeOK
  <2>4. FirewallInv' /\ FilesInv' /\ PidInv' /\ StopInv'
    BY <2>2 DEF FirewallInv, FilesInv, PidInv, StopInv, Named, Young
  <2> QED
    BY <2>3, <2>4
<1>2. CASE Cleanup \/ Fail \/ GetFirewall \/ BuildCertServer \/ CleanupFirewall
  <2>1. PICK pc \in {"cleanup", "failed", "createFirewall", "buildCertServer", "stop",
                     "cleanupStop", "deleteFirewall"} :
          /\ op' = [op EXCEPT !.pc = pc] /\ UNCHANGED <<firewall, host, certs>>
          /\ pc \in {"createFirewall", "cleanupStop"} => firewall = 0
          /\ pc \in {"buildCertServer", "stop", "deleteFirewall"} => firewall = 1
    BY <1>2 DEF Cleanup, Fail, GetFirewall, BuildCertServer, CleanupFirewall, TypeOK, FirewallInv
  <2>2. op'.pc = pc
    BY <2>1 DEF TypeOK
  <2>3. FirewallInv'
    BY <2>1, <2>2 DEF FirewallInv
  <2>4. firewall' \in 0 .. 1
    BY <2>1 DEF TypeOK
  <2> QED
    BY <2>1, <2>3, <2>4, MoveOn
<1>3. CASE CreateFirewall \/ DeleteFirewall
  <2>1. PICK pc \in {"buildCertServer", "cleanupStop"} :
          /\ op' = [op EXCEPT !.pc = pc] /\ UNCHANGED <<host, certs>>
          /\ firewall' = IF pc = "buildCertServer" THEN 1 ELSE 0
    BY <1>3 DEF CreateFirewall, DeleteFirewall, FirewallInv
  <2>2. op'.pc = pc
    BY <2>1 DEF TypeOK
  <2>3. FirewallInv' /\ firewall' \in 0 .. 1
    BY <2>1, <2>2 DEF FirewallInv
  <2> QED
    BY <2>1, <2>3, MoveOn
<1>4. CASE Touch
  <2>1. PICK pc \in {"sleep", "cleanupSleep"} :
          /\ op' = [op EXCEPT !.pc = pc]
          /\ firewall = IF pc = "sleep" THEN 1 ELSE 0
    BY <1>4 DEF Touch, FirewallInv
  <2>2. /\ op'.pc = pc /\ shutdownFile' = TRUE /\ polled' = {}
        /\ UNCHANGED <<firewall, server, pidFile, certs>>
    BY <1>4, <2>1 DEF Touch, TypeOK
  <2>3. TypeOK'
    BY <2>1, <2>2 DEF TypeOK
  <2>4. FirewallInv' /\ FilesInv' /\ PidInv' /\ StopInv'
    BY <2>1, <2>2 DEF FirewallInv, FilesInv, PidInv, StopInv, Named, Young
  <2> QED
    BY <2>3, <2>4
<1>5. CASE Sleep
  <2>1. PICK pc \in {"deployAssets", "done"} :
          /\ op' = [op EXCEPT !.pc = pc]
          /\ firewall = IF pc = "deployAssets" THEN 1 ELSE 0
    BY <1>5 DEF Sleep, FirewallInv
  <2>2. op'.pc = pc /\ UNCHANGED <<firewall, host, certs>>
    BY <1>5, <2>1 DEF Sleep, TypeOK
  <2>3. \A p \in Process : server[p] \in {"none", "draining"}
    BY <1>5 DEF Sleep, StopInv, AliveProcesses
  <2>4. FirewallInv' /\ StopInv'
    BY <2>1, <2>2, <2>3 DEF FirewallInv, StopInv
  <2>5. firewall' \in 0 .. 1
    BY <2>2 DEF TypeOK
  <2> QED
    BY <2>1, <2>2, <2>4, <2>5, MoveOn
<1>6. CASE DeployAssets
  <2>1. /\ op' = [op EXCEPT !.pc = "startServer"] /\ UNCHANGED <<firewall, host, certs>>
        /\ firewall = 1 /\ \A p \in Process : server[p] \in {"none", "draining"}
    BY <1>6 DEF DeployAssets, FirewallInv, StopInv
  <2>2. op'.pc = "startServer"
    BY <2>1 DEF TypeOK
  <2>3. FirewallInv' /\ StopInv' /\ firewall' \in 0 .. 1
    BY <2>1, <2>2 DEF FirewallInv, StopInv
  <2> QED
    BY <2>1, <2>3, MoveOn
<1>7. CASE StartServer
  <2>1. PICK p \in Process :
          /\ server[p] = "none" /\ server' = [server EXCEPT ![p] = "starting"]
          /\ polled' = polled \ {p}
    BY <1>7 DEF StartServer, AliveProcesses
  <2>2. /\ op' = [op EXCEPT !.pc = "checkServer"] /\ shutdownFile' = FALSE
        /\ firewall = 1 /\ \A q \in Process : server[q] \in {"none", "draining"}
        /\ UNCHANGED <<firewall, pidFile, certs>>
    BY <1>7 DEF StartServer, FirewallInv, StopInv
  <2>3. op'.pc = "checkServer"
    BY <2>2 DEF TypeOK
  <2>4. \A q \in Process : server'[q] = IF q = p THEN "starting" ELSE server[q]
    BY <2>1 DEF TypeOK
  <2>5. TypeOK'
    BY <2>1, <2>2 DEF TypeOK
  <2>6. FirewallInv' /\ FilesInv' /\ StopInv'
    BY <2>2, <2>3, <2>4 DEF FirewallInv, FilesInv, StopInv
  <2>7. PidInv'
    BY <2>2, <2>4 DEF PidInv, Named, Young
  <2> QED
    BY <2>5, <2>6, <2>7
<1>8. CASE CheckServer
  <2>1. PICK p \in Process : server[p] \in {"serving", "seen"}
    BY <1>8 DEF CheckServer
  <2>2. /\ op' = [op EXCEPT !.pc = "certbot"] /\ UNCHANGED <<firewall, host, certs>>
        /\ firewall = 1 /\ ~shutdownFile /\ \A q \in Process : server[q] # "seen"
    BY <1>8 DEF CheckServer, FirewallInv, StopInv
  <2>3. \A q \in Process : server[q] # "draining"
    BY <2>1 DEF PidInv, Named
  <2>4. op'.pc = "certbot"
    BY <2>2 DEF TypeOK
  <2>5. FirewallInv' /\ StopInv' /\ firewall' \in 0 .. 1
    BY <2>2, <2>3, <2>4 DEF FirewallInv, StopInv
  <2> QED
    BY <2>2, <2>5, MoveOn
<1>9. CASE Certbot
  <2>1. /\ op' = [op EXCEPT !.pc = "copy", !.todo = File] /\ firewall = 1
        /\ issued' = issued \/ (issued < MaxVersion /\ issued' = issued + 1)
        /\ UNCHANGED <<firewall, host, files, mosquitto>>
    BY <1>9 DEF Certbot, FirewallInv
  <2>2. op'.pc = "copy" /\ op'.todo = File
    BY <2>1 DEF TypeOK
  <2>3. issued' \in Version
    BY <2>1, RenewalAssumption DEF TypeOK, Version
  <2>4. TypeOK'
    BY <2>1, <2>3 DEF TypeOK
  <2>5. FirewallInv' /\ FilesInv' /\ PidInv' /\ StopInv'
    BY <2>1, <2>2 DEF FirewallInv, FilesInv, PidInv, StopInv, Named, Young
  <2> QED
    BY <2>4, <2>5
<1>10. CASE Copy
  <2>1. firewall = 1 /\ UNCHANGED <<firewall, host, issued, mosquitto>>
    BY <1>10 DEF Copy, FirewallInv
  <2>2. CASE \E f \in op.todo : /\ files' = [files EXCEPT ![f] = issued]
                                /\ op' = [op EXCEPT !.todo = @ \ {f}]
    <3>1. PICK f \in op.todo : /\ files' = [files EXCEPT ![f] = issued]
                               /\ op' = [op EXCEPT !.todo = op.todo \ {f}]
      BY <2>2
    <3>2. op'.pc = "copy" /\ op'.todo = op.todo \ {f}
      BY <1>10, <3>1 DEF Copy, TypeOK
    <3>3. TypeOK'
      BY <2>1, <3>1 DEF TypeOK
    <3>4. FilesInv'
      BY <1>10, <2>1, <3>1, <3>2 DEF Copy, FilesInv, TypeOK
    <3>5. FirewallInv' /\ PidInv' /\ StopInv'
      BY <2>1, <3>2 DEF FirewallInv, PidInv, StopInv, Named, Young
    <3> QED
      BY <3>3, <3>4, <3>5
  <2>3. CASE op.todo = {} /\ Goto("restart") /\ UNCHANGED files
    <3>1. op'.pc = "restart" /\ op'.todo = {}
      BY <2>3 DEF TypeOK
    <3>2. TypeOK'
      BY <2>1, <2>3 DEF TypeOK
    <3>3. FilesInv'
      BY <1>10, <2>1, <2>3, <3>1 DEF Copy, FilesInv
    <3>4. FirewallInv' /\ PidInv' /\ StopInv'
      BY <2>1, <3>1 DEF FirewallInv, PidInv, StopInv, Named, Young
    <3> QED
      BY <3>2, <3>3, <3>4
  <2> QED
    BY <1>10, <2>2, <2>3 DEF Copy
<1>11. CASE RestartMosquitto
  <2>1. /\ op' = [op EXCEPT !.pc = "cleanup"] /\ mosquitto' = files
        /\ UNCHANGED <<firewall, host, issued, files>>
    BY <1>11 DEF RestartMosquitto
  <2>2. op'.pc = "cleanup"
    BY <2>1 DEF TypeOK
  <2>3. TypeOK'
    BY <2>1 DEF TypeOK
  <2>4. FirewallInv' /\ FilesInv' /\ PidInv' /\ StopInv'
    BY <2>1, <2>2 DEF FirewallInv, FilesInv, PidInv, StopInv, Named, Young
  <2> QED
    BY <2>3, <2>4
<1> QED
  BY <1>1, <1>2, <1>3, <1>4, <1>5, <1>6, <1>7, <1>8, <1>9, <1>10, <1>11

-----------------------------------------------------------------------------
(* The steps of a challenge server *)

LEMMA ServerStepKeeps ==
  ASSUME Inv, NEW p \in Process, ServerStep(p)
  PROVE  Inv'
<1> USE DEF Inv, At, Become, certs
<1>1. UNCHANGED <<op, firewall, shutdownFile, certs>>
  BY DEF ServerStep, CheckPidFile, WritePidFile, Listen, Die, Poll, Shutdown, Exit
<1>2. FirewallInv' /\ FilesInv'
  BY <1>1 DEF FirewallInv, FilesInv
<1>3. ASSUME NEW to \in {"none", "checked", "up", "serving", "seen", "draining"},
             server' = [server EXCEPT ![p] = to]
      PROVE  /\ \A q \in Process : server'[q] = IF q = p THEN to ELSE server[q]
             /\ pidFile' \in Process \cup {None} /\ polled' \subseteq Process => TypeOK'
  BY <1>1, <1>3 DEF TypeOK
<1>4. CASE CheckPidFile(p)
  <2>1. UNCHANGED polled /\ server[p] = "starting"
    BY <1>4 DEF CheckPidFile
  <2>2. CASE server' = [server EXCEPT ![p] = "none"] /\ UNCHANGED pidFile
    <3>1. TypeOK' /\ \A q \in Process : server'[q] = IF q = p THEN "none" ELSE server[q]
      BY <1>3, <2>1, <2>2 DEF TypeOK
    <3>2. PidInv' /\ StopInv'
      BY <1>1, <2>1, <2>2, <3>1 DEF PidInv, StopInv, Named, Young, TypeOK
    <3> QED
      BY <1>2, <3>1, <3>2
  <2>3. CASE /\ pidFile \notin AliveProcesses /\ pidFile' = None
             /\ server' = [server EXCEPT ![p] = "checked"]
    <3>1. TypeOK' /\ \A q \in Process : server'[q] = IF q = p THEN "checked" ELSE server[q]
      BY <1>3, <2>1, <2>3 DEF TypeOK
    <3>2. \A q \in Process : ~Named(q)
      BY <2>3 DEF PidInv, Named, AliveProcesses
    <3>3. PidInv'
      BY <2>1, <3>1, <3>2 DEF PidInv, Named, Young
    <3>4. StopInv'
      BY <1>1, <2>1, <3>1 DEF StopInv, TypeOK
    <3> QED
      BY <1>2, <3>1, <3>3, <3>4
  <2> QED
    BY <1>4, <2>2, <2>3 DEF CheckPidFile
<1>5. CASE WritePidFile(p)
  <2>1. /\ server[p] = "checked" /\ server' = [server EXCEPT ![p] = "up"]
        /\ pidFile' = p /\ UNCHANGED polled
    BY <1>5 DEF WritePidFile
  <2>2. TypeOK' /\ \A q \in Process : server'[q] = IF q = p THEN "up" ELSE server[q]
    BY <1>3, <2>1 DEF TypeOK
  <2>3. PidInv'
    BY <2>1, <2>2 DEF PidInv, Named, Young
  <2>4. StopInv'
    BY <1>1, <2>1, <2>2 DEF StopInv, TypeOK
  <2> QED
    BY <1>2, <2>2, <2>3, <2>4
<1>6. CASE Listen(p) \/ Die(p) \/ Shutdown(p)
  <2>1. PICK to \in {"serving", "none", "draining"} :
          /\ server' = [server EXCEPT ![p] = to] /\ UNCHANGED <<polled, pidFile>>
          /\ server[p] \in IF to = "draining" THEN {"seen"} ELSE {"up", "serving"}
    BY <1>6 DEF Listen, Die, Shutdown
  <2>2. TypeOK' /\ \A q \in Process : server'[q] = IF q = p THEN to ELSE server[q]
    BY <1>3, <2>1 DEF TypeOK
  <2>3. PidInv'
    BY <2>1, <2>2 DEF PidInv, Named, Young
  <2>4. StopInv'
    BY <1>1, <2>1, <2>2 DEF StopInv, TypeOK
  <2> QED
    BY <1>2, <2>2, <2>3, <2>4
<1>7. CASE Poll(p)
  <2>1. PICK to \in {"up", "serving", "seen"} :
          /\ server' = [server EXCEPT ![p] = to] /\ server[p] \in {"up", "serving"}
          /\ shutdownFile => to = "seen"
          /\ ~shutdownFile => to = server[p]
          /\ polled' = polled \cup {p} /\ UNCHANGED pidFile
    <3>1. CASE shutdownFile
      BY <1>7, <3>1 DEF Poll
    <3>2. CASE ~shutdownFile
      <4>1. server' = [server EXCEPT ![p] = server[p]]
        BY <1>7, <3>2 DEF Poll, TypeOK
      <4> QED
        BY <1>7, <3>2, <4>1 DEF Poll
    <3> QED
      BY <3>1, <3>2
  <2>2. TypeOK' /\ \A q \in Process : server'[q] = IF q = p THEN to ELSE server[q]
    BY <1>3, <2>1 DEF TypeOK
  <2>3. PidInv'
    BY <2>1, <2>2 DEF PidInv, Named, Young
  <2>4. StopInv'
    BY <1>1, <2>1, <2>2 DEF StopInv, TypeOK
  <2> QED
    BY <1>2, <2>2, <2>3, <2>4
<1>8. CASE Exit(p)
  <2>1. /\ server[p] = "draining" /\ server' = [server EXCEPT ![p] = "none"]
        /\ pidFile' = None /\ UNCHANGED polled
    BY <1>8 DEF Exit
  <2>2. TypeOK' /\ \A q \in Process : server'[q] = IF q = p THEN "none" ELSE server[q]
    BY <1>3, <2>1 DEF TypeOK
  <2>3. PidInv'
    BY <2>1, <2>2 DEF PidInv, Named, Young
  <2>4. StopInv'
    BY <1>1, <2>1, <2>2 DEF StopInv, TypeOK
  <2> QED
    BY <1>2, <2>2, <2>3, <2>4
<1> QED
  BY <1>4, <1>5, <1>6, <1>7, <1>8 DEF ServerStep

LEMMA InvStep == Inv /\ [Next]_vars => Inv'
<1> SUFFICES ASSUME Inv, [Next]_vars
             PROVE  Inv'
  OBVIOUS
<1>1. CASE UNCHANGED vars
  BY <1>1 DEF vars, host, certs, Inv, TypeOK, FirewallInv, FilesInv, PidInv, StopInv,
              Named, Young, At
<1> QED
  BY <1>1, CommandStep, ServerStepKeeps DEF Next

LEMMA Invariance == Spec => []Inv
  BY InitInv, InvStep, PTL DEF Spec

-----------------------------------------------------------------------------
\* There is never more than one firewall of the name, and no step leaves the types
\* of the command, the host and the files (update-cert/main.go:100-113 and 154-176).
THEOREM TypeCorrect == Spec => []TypeOK
  BY Invariance, PTL DEF Inv

\* A command that reports success leaves no firewall and no process that serves
\* or is about to, whatever failed before (update-cert/main.go:154-176).
THEOREM SuccessLeavesNothingAlways == Spec => []SuccessLeavesNothing
<1>1. Inv => SuccessLeavesNothing
  BY DEF Inv, FirewallInv, StopInv, SuccessLeavesNothing, At
<1> QED
  BY <1>1, Invariance, PTL

\* Nothing is about to take the server away while certbot's challenge is under
\* way (update-cert/main.go:116-139, server/main.go:45-62).
THEOREM ChallengeUndisturbedAlways == Spec => []ChallengeUndisturbed
<1>1. Inv => ChallengeUndisturbed
  BY DEF Inv, FirewallInv, StopInv, ChallengeUndisturbed, At
<1> QED
  BY <1>1, Invariance, PTL

\* The pid file names the server past the guard as long as there is one, for any
\* number of processes (server/main.go:19-24 and 83-96).
THEOREM PidFileNamesServerAlways == Spec => []PidFileNamesServer
<1>1. Inv => PidFileNamesServer
  BY DEF Inv, PidInv, Named, PidFileNamesServer
<1> QED
  BY <1>1, Invariance, PTL

\* Mosquitto is restarted only on the newest version of every file
\* (update-cert/main.go:372-389).
THEOREM LoadedIsNewestAlways == Spec => LoadedIsNewest
<1>1. ASSUME Inv, [Next]_vars, mosquitto' # mosquitto, NEW f \in File
      PROVE  mosquitto'[f] = issued
  <2>1. RestartMosquitto
    BY <1>1 DEF Next, vars, certs, Renew, Cleanup, Fail, GetFirewall, CreateFirewall,
                BuildCertServer, Touch, Sleep, DeployAssets, StartServer, CheckServer, Certbot,
                Copy, CleanupFirewall, DeleteFirewall, ServerStep, CheckPidFile, WritePidFile,
                Listen, Die, Poll, Shutdown, Exit, Become
  <2> QED
    BY <1>1, <2>1 DEF RestartMosquitto, Inv, FilesInv, At
<1>2. Inv /\ [Next]_vars => [mosquitto' # mosquitto => \A f \in File : mosquitto'[f] = issued]_vars
  BY <1>1
<1> QED
  BY <1>2, Invariance, PTL DEF Spec, LoadedIsNewest

-----------------------------------------------------------------------------
(* The monitor *)

\* A unit the monitor is about to stop is above the limit, unless its counter
\* was set back since the monitor read it.
MonitorInv ==
    /\ unit \in [active : BOOLEAN, restarts : Nat]
    /\ monitor.pc = "stop" => unit.restarts > MaxRestarts \/ resetSince

LEMMA InitMonitor == ProgramsInit => MonitorInv
  BY DEF ProgramsInit, Forwarder!Init, Forwarder!Waiting, MonitorInv

LEMMA MonitorStep ==
  ASSUME MonitorInv, [Forwarder!Next]_forwarderVars
  PROVE  /\ MonitorInv'
         /\ unit.active /\ ~unit'.active => unit.restarts > MaxRestarts \/ resetSince
<1> USE ProgramsAssumption DEF MonitorInv, Forwarder!ForwarderAssumption, Forwarder!unitVars,
        Forwarder!logVars
<1>0. MaxRestarts \in Nat
  OBVIOUS
<1>1. CASE UNCHANGED <<monitor, unit, resetSince>>
  BY <1>1
<1>2. CASE Forwarder!StartAgain \/ Forwarder!ReadRestartsFails
  BY <1>2 DEF Forwarder!StartAgain, Forwarder!ReadRestartsFails, Forwarder!Waiting
<1>3. CASE Forwarder!ReadRestarts
  BY <1>3 DEF Forwarder!ReadRestarts, Forwarder!AboveLimit
<1>4. CASE Forwarder!StopUnit \/ Forwarder!StopUnitFails
  BY <1>4 DEF Forwarder!StopUnit, Forwarder!StopUnitFails, Forwarder!Waiting
<1>5. CASE Forwarder!UnitRestarts
  <2>1. /\ unit' = [unit EXCEPT !.restarts = IF unit.restarts > MaxRestarts THEN unit.restarts
                                             ELSE unit.restarts + 1]
        /\ UNCHANGED <<monitor, resetSince>>
    BY <1>5 DEF Forwarder!UnitRestarts
  <2>2. unit'.restarts \in Nat /\ unit'.restarts >= unit.restarts /\ unit'.active = unit.active
    BY <2>1
  <2>3. unit' \in [active : BOOLEAN, restarts : Nat]
    BY <2>1
  <2> QED
    BY <1>0, <2>1, <2>2, <2>3
<1>6. CASE Forwarder!UnitDeployed
  BY <1>6 DEF Forwarder!UnitDeployed
<1>7. ASSUME NEW l \in Line, NEW k \in Forwarder!Kind, Forwarder!Log(l, k)
      PROVE  UNCHANGED <<monitor, unit, resetSince>>
  BY <1>7 DEF Forwarder!Log
<1>8. CASE \/ Forwarder!Scan \/ Forwarder!ScanEnds \/ Forwarder!JournalctlExits
           \/ Forwarder!WaitReturns \/ Forwarder!HandOver \/ Forwarder!Post
  BY <1>1, <1>8 DEF Forwarder!Scan, Forwarder!ScanEnds, Forwarder!JournalctlExits,
     Forwarder!WaitReturns, Forwarder!HandOver, Forwarder!Post
<1> QED
  BY <1>1, <1>2, <1>3, <1>4, <1>5, <1>6, <1>7, <1>8 DEF Forwarder!Next, forwarderVars

LEMMA ForwarderPart == [ProgramsNext]_programsVars => [Forwarder!Next]_forwarderVars
  BY DEF ProgramsNext, RenewalStep, ForwarderStep, GuardStep, AgentStep, programsVars

\* However the crashes, deployments and the monitor's two commands interleave, a
\* unit is stopped only above the limit, unless it was restarted by hand between
\* the two, for any limit (log-forwarder/main.go:179-210).
THEOREM StopsOnlyLoopsAlways == ProgramsSpec => StopsOnlyLoops
<1>1. MonitorInv /\ [ProgramsNext]_programsVars => MonitorInv'
  BY MonitorStep, ForwarderPart
<1>2. MonitorInv /\ [ProgramsNext]_programsVars =>
        [(unit.active /\ ~unit'.active)
         => (unit.restarts > MaxRestarts \/ resetSince)]_Forwarder!vars
  BY MonitorStep, ForwarderPart
<1> QED
  BY <1>1, <1>2, InitMonitor, PTL DEF ProgramsSpec, StopsOnlyLoops, Forwarder!StopsOnlyLoops

-----------------------------------------------------------------------------
(* The types of the forwarder *)

Logged == Line \ unlogged

\* What is in the pipe, with the reader or with main has been logged.
ForwarderInv ==
    /\ Forwarder!TypeOK
    /\ \A i \in 1 .. Len(pipe) : pipe[i] \in Logged
    /\ reader.pc = "send" => reader.line[1] \in Logged
    /\ poster.pc = "post" => poster.line[1] \in Logged

LEMMA InitForwarder == ProgramsInit => ForwarderInv
<1> SUFFICES ASSUME ProgramsInit PROVE ForwarderInv
  OBVIOUS
<1> USE DEF ProgramsInit, Forwarder!Init, Forwarder!Scanning, Forwarder!Receiving,
        Forwarder!Waiting
<1>1. MaxRestarts \in Nat /\ PipeCapacity \in Nat
  BY ProgramsAssumption DEF Forwarder!ForwarderAssumption
<1>2. /\ pipe = <<>> /\ reader.pc = "scan" /\ poster.pc = "receive"
      /\ monitor.pc = "wait" /\ monitor.seen = 0
      /\ unit = [active |-> TRUE, restarts |-> 0] /\ resetSince = FALSE
  OBVIOUS
<1>3. kind \in [Line -> Forwarder!Kind]
  BY DEF Forwarder!Kind
<1>4. pipe \in Seq(Line) /\ Len(pipe) = 0
  BY <1>2
<1>5. 0 \in 0 .. MaxRestarts + 1
  BY <1>1
<1>6. unit \in [active : BOOLEAN, restarts : 0 .. MaxRestarts + 1] /\ resetSince \in BOOLEAN
      /\ monitor.seen \in 0 .. MaxRestarts + 1
  <2> DEFINE Restarts == 0 .. MaxRestarts + 1
  <2> HIDE DEF Restarts
  <2>1. 0 \in Restarts
    BY <1>5 DEF Restarts
  <2>2. unit \in [active : BOOLEAN, restarts : Restarts]
    BY <1>2, <2>1
  <2> QED
    BY <1>2, <2>1, <2>2 DEF Restarts
<1> QED
  BY <1>1, <1>2, <1>3, <1>4, <1>6 DEF ForwarderInv, Forwarder!TypeOK

LEMMA ForwarderKeeps ==
  ASSUME ForwarderInv, Forwarder!Next
  PROVE  ForwarderInv'
<1> USE DEF Forwarder!logVars, Forwarder!unitVars, Forwarder!Scanning, Forwarder!Receiving,
        Forwarder!Waiting, Forwarder!NoLine
<1>types. /\ unlogged \subseteq Line /\ forwarded \subseteq Logged
          /\ kind \in [Line -> Forwarder!Kind]
          /\ journalctl \in {"running", "succeeded", "failed", "gone"}
          /\ pipe \in Seq(Line) /\ Len(pipe) <= PipeCapacity
          /\ reader.pc \in {"scan", "send", "ended"}
          /\ poster.pc \in {"receive", "post", "ended"}
          /\ monitor.pc \in {"wait", "stop"} /\ monitor.seen \in 0 .. MaxRestarts + 1
          /\ unit \in [active : BOOLEAN, restarts : 0 .. MaxRestarts + 1]
          /\ resetSince \in BOOLEAN
          /\ \A i \in 1 .. Len(pipe) : pipe[i] \in Logged
          /\ reader.pc = "send" => reader.line[1] \in Logged
          /\ poster.pc = "post" => poster.line[1] \in Logged
          /\ MaxRestarts \in Nat /\ PipeCapacity \in Nat
  BY ProgramsAssumption DEF ForwarderInv, Forwarder!TypeOK, Forwarder!ForwarderAssumption, Logged
\* A step of the goroutines, after which the pipe holds lines logged before.
<1>goroutines.
  ASSUME UNCHANGED <<unlogged, kind, Forwarder!unitVars>>, forwarded' \subseteq Logged,
         journalctl' \in {"running", "succeeded", "failed", "gone"},
         pipe' \in Seq(Line), Len(pipe') <= PipeCapacity,
         \A i \in 1 .. Len(pipe') : pipe'[i] \in Logged,
         reader'.pc \in {"scan", "send", "ended"},
         poster'.pc \in {"receive", "post", "ended"},
         reader'.pc = "send" => reader'.line[1] \in Logged,
         poster'.pc = "post" => poster'.line[1] \in Logged
  PROVE  ForwarderInv'
  BY <1>goroutines, <1>types DEF ForwarderInv, Forwarder!TypeOK, Logged
\* The pipe is emptied, kept or read.
<1>pipes. /\ <<>> \in Seq(Line) /\ Len(<<>>) = 0 /\ Len(<<>>) <= PipeCapacity
          /\ \A i \in 1 .. Len(<<>>) : <<>>[i] \in Logged
  BY <1>types
<1>1. CASE Forwarder!Scan
  <2>1. /\ pipe # <<>> /\ pipe' = Tail(pipe)
        /\ UNCHANGED <<unlogged, kind, journalctl, poster, forwarded, Forwarder!unitVars>>
        /\ \/ reader'.pc = "ended"
           \/ reader' = reader
           \/ reader'.pc = "send" /\ reader'.line[1] = Head(pipe)
    BY <1>1 DEF Forwarder!Scan
  <2>2. Head(pipe) \in Logged
    BY <1>types, <2>1
  <2>3. /\ pipe' \in Seq(Line) /\ Len(pipe') = Len(pipe) - 1
        /\ \A i \in 1 .. Len(pipe') : pipe'[i] = pipe[i + 1] /\ i + 1 \in 1 .. Len(pipe)
    BY <1>types, <2>1
  <2>4. Len(pipe') <= PipeCapacity /\ \A i \in 1 .. Len(pipe') : pipe'[i] \in Logged
    BY <1>types, <2>3
  <2> QED
    BY <1>types, <1>goroutines, <2>1, <2>2, <2>3, <2>4
<1>2. CASE Forwarder!WaitReturns
  <2>1. UNCHANGED <<unlogged, kind, forwarded, Forwarder!unitVars>> /\ journalctl' = "gone"
    BY <1>2 DEF Forwarder!WaitReturns, Forwarder!Exit
  <2>2. CASE Forwarder!Exit
    BY <1>types, <1>pipes, <1>goroutines, <2>1, <2>2 DEF Forwarder!Exit
  <2>3. CASE (\E n \in 0 .. Len(pipe) : pipe' = SubSeq(pipe, 1, n)) /\ UNCHANGED <<reader, poster>>
    <3>1. PICK n \in 0 .. Len(pipe) : pipe' = SubSeq(pipe, 1, n)
      BY <2>3
    <3>2. /\ pipe' \in Seq(Line) /\ Len(pipe') = n
          /\ \A i \in 1 .. Len(pipe') : pipe'[i] = pipe[i]
      BY <1>types, <3>1
    <3>3. Len(pipe') <= PipeCapacity /\ \A i \in 1 .. Len(pipe') : pipe'[i] \in Logged
      BY <1>types, <3>2
    <3> QED
      BY <1>types, <1>goroutines, <2>1, <2>3, <3>2, <3>3
  <2> QED
    BY <1>2, <2>2, <2>3 DEF Forwarder!WaitReturns
<1>3. CASE Forwarder!HandOver
  <2>1. /\ UNCHANGED <<unlogged, kind, forwarded, Forwarder!unitVars>>
        /\ reader.pc = "send"
        /\ \/ /\ poster' = [pc |-> "post", line |-> reader.line]
              /\ reader'.pc = "scan" /\ UNCHANGED <<journalctl, pipe>>
           \/ Forwarder!Exit
    BY <1>3 DEF Forwarder!HandOver
  <2>2. CASE Forwarder!Exit
    BY <1>types, <1>pipes, <1>goroutines, <2>1, <2>2 DEF Forwarder!Exit
  <2> QED
    BY <1>types, <1>goroutines, <2>1, <2>2
<1>4. CASE Forwarder!Post
  <2>1. forwarded' \subseteq Logged
    BY <1>4, <1>types DEF Forwarder!Post
  <2> QED
    BY <1>4, <1>types, <1>goroutines, <2>1 DEF Forwarder!Post
<1>5. CASE Forwarder!ScanEnds \/ Forwarder!JournalctlExits
  BY <1>5, <1>types, <1>goroutines DEF Forwarder!ScanEnds, Forwarder!JournalctlExits
<1>6. ASSUME NEW l \in Line, NEW k \in Forwarder!Kind, Forwarder!Log(l, k)
      PROVE  ForwarderInv'
  <2>1. /\ l \in unlogged /\ unlogged' = unlogged \ {l} /\ kind' = [kind EXCEPT ![l] = k]
        /\ UNCHANGED <<journalctl, reader, poster, forwarded, Forwarder!unitVars>>
        /\ \/ pipe' = pipe
           \/ Len(pipe) < PipeCapacity /\ pipe' = Append(pipe, l)
    BY <1>6, Zenon DEF Forwarder!Log
  <2>2. unlogged' \subseteq Line /\ kind' \in [Line -> Forwarder!Kind]
        /\ Logged \subseteq Logged' /\ l \in Logged'
    BY <1>types, <2>1 DEF Logged
  <2>3. /\ pipe' \in Seq(Line) /\ Len(pipe') <= PipeCapacity
        /\ \A i \in 1 .. Len(pipe') : pipe'[i] \in Logged'
    <3>1. CASE pipe' = pipe
      BY <1>types, <2>2, <3>1
    <3>2. CASE Len(pipe) < PipeCapacity /\ pipe' = Append(pipe, l)
      <4>1. /\ pipe' \in Seq(Line) /\ Len(pipe') = Len(pipe) + 1
            /\ \A i \in 1 .. Len(pipe) + 1 : pipe'[i] = IF i <= Len(pipe) THEN pipe[i] ELSE l
        BY <1>types, <3>2
      <4>2. \A i \in 1 .. Len(pipe) + 1 : i <= Len(pipe) => i \in 1 .. Len(pipe)
        OBVIOUS
      <4> QED
        BY <1>types, <2>2, <3>2, <4>1, <4>2
    <3> QED
      BY <2>1, <3>1, <3>2
  <2>4. /\ forwarded' \subseteq Line \ unlogged'
        /\ reader'.pc = "send" => reader'.line[1] \in Logged'
        /\ poster'.pc = "post" => poster'.line[1] \in Logged'
    BY <1>types, <2>1, <2>2 DEF Logged
  <2> QED
    BY <1>types, <2>1, <2>2, <2>3, <2>4 DEF ForwarderInv, Forwarder!TypeOK
<1>7. CASE Forwarder!StartAgain
  <2>1. /\ UNCHANGED <<unlogged, kind, forwarded, unit>> /\ journalctl' = "running" /\ pipe' = <<>>
        /\ reader'.pc = "scan" /\ poster'.pc = "receive" /\ monitor'.pc = "wait" /\ monitor'.seen = 0
        /\ resetSince' = FALSE
    BY <1>7 DEF Forwarder!StartAgain
  <2>2. monitor'.seen \in 0 .. MaxRestarts + 1
    BY <1>types, <2>1
  <2> QED
    BY <1>types, <1>pipes, <2>1, <2>2 DEF ForwarderInv, Forwarder!TypeOK, Logged
\* A step of the monitor or the unit.
<1>units.
  ASSUME UNCHANGED <<Forwarder!logVars>>,
         monitor'.pc \in {"wait", "stop"}, monitor'.seen \in 0 .. MaxRestarts + 1,
         unit' \in [active : BOOLEAN, restarts : 0 .. MaxRestarts + 1], resetSince' \in BOOLEAN
  PROVE  ForwarderInv'
  BY <1>units, <1>types DEF ForwarderInv, Forwarder!TypeOK, Logged
<1>zero. 0 \in 0 .. MaxRestarts + 1
  BY <1>types
<1>8. CASE \/ Forwarder!ReadRestarts \/ Forwarder!ReadRestartsFails
           \/ Forwarder!StopUnit \/ Forwarder!StopUnitFails
  <2>1. /\ UNCHANGED <<Forwarder!logVars>> /\ resetSince' \in BOOLEAN
        /\ monitor'.pc \in {"wait", "stop"} /\ monitor'.seen \in {0, unit.restarts}
        /\ unit' \in {unit, [unit EXCEPT !.active = FALSE]}
    <3>1. CASE Forwarder!ReadRestarts
      BY <1>types, <3>1 DEF Forwarder!ReadRestarts
    <3>2. CASE Forwarder!ReadRestartsFails
      BY <1>types, <3>2 DEF Forwarder!ReadRestartsFails
    <3>3. CASE Forwarder!StopUnit \/ Forwarder!StopUnitFails
      BY <1>types, <3>3 DEF Forwarder!StopUnit, Forwarder!StopUnitFails
    <3> QED
      BY <1>8, <3>1, <3>2, <3>3
  <2>2. monitor'.seen \in 0 .. MaxRestarts + 1
    BY <1>types, <1>zero, <2>1
  <2> QED
    BY <1>types, <1>units, <2>1, <2>2
<1>9. CASE Forwarder!UnitRestarts
  <2>1. /\ UNCHANGED <<Forwarder!logVars, monitor, resetSince>>
        /\ unit' = [unit EXCEPT !.restarts = IF unit.restarts > MaxRestarts THEN unit.restarts
                                             ELSE unit.restarts + 1]
    BY <1>9 DEF Forwarder!UnitRestarts
  <2>2. unit' \in [active : BOOLEAN, restarts : 0 .. MaxRestarts + 1]
    BY <1>types, <2>1
  <2> QED
    BY <1>types, <1>units, <2>1, <2>2
<1>10. CASE Forwarder!UnitDeployed
  BY <1>10, <1>types, <1>units, <1>zero DEF Forwarder!UnitDeployed
<1> QED
  BY <1>1, <1>2, <1>3, <1>4, <1>5, <1>6, <1>7, <1>8, <1>9, <1>10 DEF Forwarder!Next

LEMMA ForwarderStaysInv == ForwarderInv /\ [ProgramsNext]_programsVars => ForwarderInv'
<1> SUFFICES ASSUME ForwarderInv, [ProgramsNext]_programsVars
             PROVE  ForwarderInv'
  OBVIOUS
<1>1. CASE UNCHANGED forwarderVars
  BY <1>1 DEF forwarderVars, ForwarderInv, Forwarder!TypeOK, Logged
<1> QED
  BY <1>1, ForwarderPart, ForwarderKeeps

-----------------------------------------------------------------------------
(* The time that the guard reads *)

LEMMA MinIsLeast ==
  ASSUME NEW S \in SUBSET Nat, S # {}
  PROVE  Guard!Min(S) \in S /\ \A y \in S : Guard!Min(S) <= y
<1>1. IsWellFoundedOn({ss \in Nat \X Nat : ss[1] < ss[2]}, Nat)
  BY NatLessThanWellFounded DEF OpToRel
<1>2. PICK x \in S : \A y \in S : <<y, x>> \notin {ss \in Nat \X Nat : ss[1] < ss[2]}
  BY <1>1, WFMin
<1>3. ASSUME NEW y \in S
      PROVE  x <= y
  <2>1. <<y, x>> \in Nat \X Nat /\ <<y, x>>[1] = y /\ <<y, x>>[2] = x
    OBVIOUS
  <2>2. ~(y < x)
    BY <1>2, <2>1
  <2> QED
    BY <2>2
<1> QED
  BY <1>3 DEF Guard!Min

LEMMA MinIs ==
  ASSUME NEW S \in SUBSET Nat, NEW x \in S, \A y \in S : x <= y
  PROVE  Guard!Min(S) = x
<1>1. Guard!Min(S) \in Nat /\ x \in Nat /\ Guard!Min(S) <= x /\ x <= Guard!Min(S)
  BY MinIsLeast
<1> QED
  BY <1>1

\* What one part of a text comes to, and one step of the fold over the parts.
Ticks(p) == p[1] * Guard!UnitTicks[p[2]]

Unfolded(sum, parts, S) ==
    IF S = {} THEN 0
    ELSE sum[S \ {Guard!Max(S)}]
         + parts[Guard!Max(S)][1] * Guard!UnitTicks[parts[Guard!Max(S)][2]]

One == {1}
Both == {1, 2}

LEMMA Unfolding ==
  ASSUME NEW sum, NEW parts
  PROVE  /\ Unfolded(sum, parts, {}) = 0
         /\ Unfolded(sum, parts, One) = sum[{}] + Ticks(parts[1])
         /\ Unfolded(sum, parts, {2}) = sum[{}] + Ticks(parts[2])
         /\ Unfolded(sum, parts, Both) = sum[One] + Ticks(parts[2])
<1>1. Guard!Max(One) = 1 /\ Guard!Max({2}) = 2 /\ Guard!Max(Both) = 2
  BY DEF Guard!Max, One, Both
<1>2. /\ One \ {1} = {} /\ {2} \ {2} = {} /\ Both \ {2} = One
      /\ One # {} /\ {2} # {} /\ Both # {}
  BY DEF One, Both
<1> QED
  BY <1>1, <1>2 DEF Unfolded, Ticks

LEMMA TimeOfOne ==
  ASSUME NEW p, Ticks(p) \in Int
  PROVE  Guard!ParseOPResetDuration(Guard!Text("fromNow", <<p>>)) = Ticks(p)
<1> DEFINE time == Guard!ParseOPResetDuration(Guard!Text("fromNow", <<p>>))
           g == [S \in SUBSET One |-> IF S = {} THEN 0 ELSE Ticks(p)]
           sum == CHOOSE f : f = [S \in SUBSET One |-> Unfolded(f, <<p>>, S)]
<1>1. DOMAIN <<p>> = One /\ <<p>>[1] = p
  BY DEF One
<1>2. time = sum[One]
  BY <1>1 DEF Guard!Text, Guard!ParseOPResetDuration, Guard!FoldLeft, Guard!MapThenFoldSet,
     Unfolded
<1>3. g = [S \in SUBSET One |-> Unfolded(g, <<p>>, S)]
  <2>1. \A S \in SUBSET One : S = {} \/ S = One
    BY DEF One
  <2>2. g[{}] = 0 /\ g[One] = Ticks(p)
    BY DEF One
  <2>3. /\ Unfolded(g, <<p>>, {}) = 0
        /\ Unfolded(g, <<p>>, One) = g[{}] + Ticks(<<p>>[1])
    BY Unfolding
  <2>4. Unfolded(g, <<p>>, {}) = g[{}] /\ Unfolded(g, <<p>>, One) = g[One]
    <3> HIDE DEF g
    <3> QED
      BY <1>1, <2>2, <2>3
  <2>5. \A S \in SUBSET One : Unfolded(g, <<p>>, S) = g[S]
    <3> HIDE DEF g
    <3> QED
      BY <2>1, <2>4
  <2> QED
    BY <2>5
<1>4. sum = [S \in SUBSET One |-> Unfolded(sum, <<p>>, S)]
  BY <1>3
<1> HIDE DEF sum
<1>5. sum[{}] = Unfolded(sum, <<p>>, {}) /\ sum[One] = Unfolded(sum, <<p>>, One)
  BY <1>4
<1> QED
  BY <1>1, <1>2, <1>5, Unfolding

LEMMA TimeOfTwo ==
  ASSUME NEW p, NEW q, Ticks(p) \in Int, Ticks(q) \in Int
  PROVE  Guard!ParseOPResetDuration(Guard!Text("fromNow", <<p, q>>)) = Ticks(p) + Ticks(q)
<1> DEFINE time == Guard!ParseOPResetDuration(Guard!Text("fromNow", <<p, q>>))
           g == [S \in SUBSET Both |-> IF S = {} THEN 0 ELSE IF S = One THEN Ticks(p)
                                       ELSE IF S = Both THEN Ticks(p) + Ticks(q) ELSE Ticks(q)]
           sum == CHOOSE f : f = [S \in SUBSET Both |-> Unfolded(f, <<p, q>>, S)]
<1>1. DOMAIN <<p, q>> = Both /\ <<p, q>>[1] = p /\ <<p, q>>[2] = q
  BY DEF Both
<1>2. time = sum[Both]
  BY <1>1 DEF Guard!Text, Guard!ParseOPResetDuration, Guard!FoldLeft, Guard!MapThenFoldSet,
     Unfolded
<1>3. g = [S \in SUBSET Both |-> Unfolded(g, <<p, q>>, S)]
  <2>1. \A S \in SUBSET Both : S = {} \/ S = One \/ S = {2} \/ S = Both
    BY DEF One, Both
  <2>2. g[{}] = 0 /\ g[One] = Ticks(p) /\ g[{2}] = Ticks(q) /\ g[Both] = Ticks(p) + Ticks(q)
    BY DEF One, Both
  <2>3. /\ Unfolded(g, <<p, q>>, {}) = 0
        /\ Unfolded(g, <<p, q>>, One) = g[{}] + Ticks(<<p, q>>[1])
        /\ Unfolded(g, <<p, q>>, {2}) = g[{}] + Ticks(<<p, q>>[2])
        /\ Unfolded(g, <<p, q>>, Both) = g[One] + Ticks(<<p, q>>[2])
    BY Unfolding
  <2>4. /\ Unfolded(g, <<p, q>>, {}) = g[{}] /\ Unfolded(g, <<p, q>>, One) = g[One]
        /\ Unfolded(g, <<p, q>>, {2}) = g[{2}] /\ Unfolded(g, <<p, q>>, Both) = g[Both]
    <3> HIDE DEF g
    <3> QED
      BY <1>1, <2>2, <2>3
  <2>5. \A S \in SUBSET Both : Unfolded(g, <<p, q>>, S) = g[S]
    <3> HIDE DEF g
    <3> QED
      BY <2>1, <2>4
  <2> QED
    BY <2>5
<1>4. sum = [S \in SUBSET Both |-> Unfolded(sum, <<p, q>>, S)]
  BY <1>3
<1> HIDE DEF sum
<1>5. \A S \in SUBSET Both : sum[S] = Unfolded(sum, <<p, q>>, S)
  BY <1>4
<1>6. {} \in SUBSET Both /\ One \in SUBSET Both /\ Both \in SUBSET Both
  BY DEF One, Both
<1> QED
  BY <1>1, <1>2, <1>5, <1>6, Unfolding

\* A text that names the time t is read as t, unless it is rounded to minutes, and
\* none is read as more.
LEMMA TimeIsRead ==
  ASSUME NEW t \in Nat, NEW text \in Guard!ResetTexts(t)
  PROVE  /\ Guard!ParseOPResetDuration(text) \in Int /\ Guard!ParseOPResetDuration(text) <= t
         /\ text.form = "fromNow" /\ ~(text.parts = Guard!InMinutes(t) /\ t % 2 = 1)
            => Guard!ParseOPResetDuration(text) = t
<1>1. CASE text = Guard!Text("na", <<>>) \/ text = Guard!Text("other", <<>>)
  BY <1>1 DEF Guard!Text, Guard!ParseOPResetDuration, Guard!FoldLeft, Guard!MapThenFoldSet
<1> DEFINE m == t \div 2
           s == t % 2
<1>2. m \in Nat /\ s \in 0 .. 1 /\ s = t - 2 * m
  OBVIOUS
<1>3. /\ Guard!InSeconds(t) = <<<<t, "sec">>>> /\ Guard!InMinutes(t) = <<<<m, "min">>>>
      /\ Guard!InBoth(t) = <<<<m, "min">>, <<s, "sec">>>>
  BY DEF Guard!InSeconds, Guard!InMinutes, Guard!InBoth
<1>4. t % 2 = 1 <=> s = 1
  OBVIOUS
<1> HIDE DEF m, s
<1>5. Ticks(<<t, "sec">>) = t /\ Ticks(<<s, "sec">>) = s /\ Ticks(<<m, "min">>) = m * 2
  BY <1>2 DEF Ticks, Guard!UnitTicks
<1>6. CASE text = Guard!Text("fromNow", <<<<t, "sec">>>>)
  <2>1. Guard!ParseOPResetDuration(text) = t
    BY <1>5, <1>6, TimeOfOne
  <2> QED
    BY <2>1
<1>7. CASE text = Guard!Text("fromNow", <<<<m, "min">>>>)
  <2>1. Guard!ParseOPResetDuration(text) = m * 2
    BY <1>2, <1>5, <1>7, TimeOfOne
  <2>2. text.parts = Guard!InMinutes(t)
    BY <1>3, <1>7 DEF Guard!Text
  <2> QED
    BY <1>2, <1>4, <2>1, <2>2
<1>8. CASE text = Guard!Text("fromNow", <<<<m, "min">>, <<s, "sec">>>>)
  <2>1. s \in Int /\ m * 2 \in Int
    BY <1>2
  <2>2. Guard!ParseOPResetDuration(text) = m * 2 + s
    BY <1>5, <1>8, <2>1, TimeOfTwo
  <2>3. m * 2 + s = t
    BY <1>2
  <2> QED
    BY <2>2, <2>3
<1> QED
  BY <1>1, <1>3, <1>6, <1>7, <1>8 DEF Guard!ResetTexts

-----------------------------------------------------------------------------
(* The guard before the server's start *)

Exhausted == Guard!Exhausted

\* A quota that is used up is going to be reset.
QuotaInv(u) == \A q \in Guard!Quota :
    u[q].left <= Limit[q] /\ u[q].reset <= Period[q] /\ (u[q].left = 0 => u[q].reset > 0)

\* A guard that waits without an excuse waits for every quota that the start needs,
\* and one that has waited leaves the start with what it needs.
GuardInv ==
    /\ Guard!TypeOK
    /\ QuotaInv(quota)
    /\ container = "waiting" /\ excuses = {} =>
        \A q \in Needed \cap Exhausted : quota[q].reset <= timer
    /\ container = "opRun" /\ excuses = {} => Needed \cap Exhausted = {}
    /\ WaitsOnlyWhileUsedUp

LEMMA Quotas ==
  /\ Guard!Quota = 1 .. Len(Limit) /\ Len(Limit) \in Nat
  /\ Needed \subseteq Guard!Quota
  /\ \A q \in Guard!Quota : /\ Limit[q] \in Nat /\ Limit[q] > 0
                            /\ Period[q] \in Nat /\ Period[q] > 0
<1>1. /\ Limit \in Seq(Nat \ {0}) /\ Period \in Seq(Nat \ {0}) /\ Len(Period) = Len(Limit)
      /\ Needed \subseteq Guard!Quota
  BY ProgramsAssumption DEF Guard!GuardAssumption
<1>2. DOMAIN Limit = 1 .. Len(Limit) /\ DOMAIN Period = 1 .. Len(Period) /\ Len(Limit) \in Nat
  BY <1>1
<1>3. ASSUME NEW q \in 1 .. Len(Limit)
      PROVE  Limit[q] \in Nat \ {0} /\ Period[q] \in Nat \ {0}
  BY <1>1, <1>2
<1> QED
  BY <1>1, <1>2, <1>3 DEF Guard!Quota

LEMMA InitGuard == ProgramsInit => GuardInv
<1> SUFFICES ASSUME ProgramsInit PROVE GuardInv
  OBVIOUS
<1>1. /\ quota = [q \in Guard!Quota |-> [left |-> Limit[q], reset |-> 0]]
      /\ container = "guard" /\ timer = 0 /\ others = 0 /\ excuses = {}
  BY DEF ProgramsInit, Guard!Init
<1>2. quota \in [Guard!Quota -> [left : Nat, reset : Nat]]
  BY <1>1, Quotas
<1>3. QuotaInv(quota)
  BY <1>1, Quotas DEF QuotaInv
<1>4. MaxOthers \in Nat
  BY ProgramsAssumption DEF Guard!GuardAssumption
<1> QED
  BY <1>1, <1>2, <1>3, <1>4 DEF GuardInv, QuotaInv, Guard!TypeOK, Guard!Pc, Guard!Excuse,
     WaitsOnlyWhileUsedUp, Guard!WaitsOnlyWhileUsedUp

\* What the guard reads off an output: a number, no more than a quota that is used
\* up needs, and, with no excuse, no less than any that the start needs.
LEMMA OutputIsRead ==
  ASSUME GuardInv,
         NEW texts, \A q \in Exhausted : texts[q] \in Guard!ResetTexts(quota[q].reset),
         NEW lines \in Guard!Outputs(texts)
  PROVE  LET wait == Guard!ParseRateLimitOutput(lines)
         IN /\ wait \in Int
            /\ wait > 0 => \E q \in Exhausted : wait <= quota[q].reset
            /\ Guard!ExcusesOf(lines, texts) = {} =>
                \A q \in Needed \cap Exhausted : wait > 0 /\ quota[q].reset <= wait
<1> DEFINE n == Len(Limit)
           rows == [q \in Guard!Quota |->
                      Guard!Row(q, IF q \in Exhausted THEN texts[q] ELSE Guard!NoText)]
           deciding == {j \in DOMAIN lines : Guard!Decides(lines[j])}
           wait == Guard!ParseRateLimitOutput(lines)
<1>types. /\ quota \in [Guard!Quota -> [left : Nat, reset : Nat]]
          /\ \A q \in Exhausted : quota[q].reset > 0
          /\ Exhausted \subseteq 1 .. n /\ n \in Nat /\ Guard!Quota = 1 .. n
  BY Quotas DEF GuardInv, QuotaInv, Guard!TypeOK, Exhausted, Guard!Exhausted
<1>rows. /\ Len(rows) = n /\ rows \in Seq({rows[q] : q \in 1 .. n})
         /\ \A q \in 1 .. n : /\ rows[q].kind = "row" /\ rows[q].left = quota[q].left
                              /\ q \in Exhausted => rows[q].text = texts[q]
  BY <1>types DEF Guard!Row, Guard!OutputLine
<1>1. PICK i \in 1 .. n + 1, l \in Guard!Messages : lines = Guard!InsertAt(rows, i, l)
  BY <1>rows DEF Guard!Outputs, Exhausted
<1>message. l.kind \in {"blank", "short", "prose"}
  BY DEF Guard!Messages, Guard!OutputLine
\* The lines before and behind the message are the rows.
<1> DEFINE Place(q) == IF q < i THEN q ELSE q + 1
<1> HIDE DEF rows
<1>2. /\ DOMAIN lines = 1 .. n + 1 /\ lines[i] = l
      /\ \A q \in 1 .. n : lines[Place(q)] = rows[q]
  <2>1. lines = SubSeq(rows, 1, i - 1) \o <<l>> \o SubSeq(rows, i, n)
    BY <1>1, <1>rows DEF Guard!InsertAt
  <2> DEFINE T == {rows[q] : q \in 1 .. n} \cup {l}
             before == SubSeq(rows, 1, i - 1)
             behind_ == SubSeq(rows, i, n)
             head == before \o <<l>>
  <2>2. l \in T /\ \A q \in 1 .. n : rows[q] \in T
    OBVIOUS
  <2> HIDE DEF T
  <2>3. /\ before \in Seq(T) /\ Len(before) = i - 1
        /\ \A q \in 1 .. i - 1 : before[q] = rows[q]
    BY <1>rows, <1>types, <2>2, SubSeqProperties
  <2>4. /\ behind_ \in Seq(T) /\ Len(behind_) = n - i + 1
        /\ \A q \in 1 .. n - i + 1 : behind_[q] = rows[i + q - 1]
    <3>1. \A k \in i .. n : rows[k] \in T
      BY <1>types, <2>2
    <3>2. n - i + 1 \in Nat /\ Len(behind_) = n - i + 1
      BY <1>rows, <1>types
    <3> QED
      BY <1>types, <3>1, <3>2, SubSeqProperties
  <2>5. lines = head \o behind_
    BY <2>1
  <2> HIDE DEF before, behind_
  <2>6. /\ head \in Seq(T) /\ Len(head) = i /\ head[i] = l
        /\ \A q \in 1 .. i - 1 : head[q] = rows[q]
    BY <1>types, <2>2, <2>3
  <2> HIDE DEF head
  <2>7. /\ Len(lines) = n + 1 /\ lines \in Seq(T)
        /\ \A k \in 1 .. n + 1 : lines[k] = IF k <= i THEN head[k] ELSE behind_[k - i]
    <3>1. Len(head) + Len(behind_) = n + 1
      BY <1>types, <2>4, <2>6
    <3>2. /\ head \o behind_ \in Seq(T) /\ Len(head \o behind_) = Len(head) + Len(behind_)
          /\ \A k \in 1 .. Len(head) + Len(behind_) :
                (head \o behind_)[k] = IF k <= Len(head) THEN head[k] ELSE behind_[k - Len(head)]
      BY <2>4, <2>6, ConcatProperties, Zenon
    <3> QED
      BY <2>5, <2>6, <3>1, <3>2
  <2>8. DOMAIN lines = 1 .. n + 1 /\ lines[i] = l
    BY <1>types, <2>6, <2>7
  <2>9. ASSUME NEW q \in 1 .. n
        PROVE  lines[Place(q)] = rows[q]
    <3>1. CASE q < i
      BY <1>types, <2>6, <2>7, <3>1
    <3>2. CASE ~(q < i)
      <4>1. /\ q + 1 \in 1 .. n + 1 /\ ~(q + 1 <= i) /\ (q + 1) - i \in 1 .. n - i + 1
            /\ i + ((q + 1) - i) - 1 = q
        BY <1>types, <3>2
      <4> QED
        BY <2>4, <2>7, <3>2, <4>1
    <3> QED
      BY <3>1, <3>2
  <2> QED
    BY <2>8, <2>9
<1>3. ASSUME NEW j \in 1 .. n + 1, j # i
      PROVE  \E q \in 1 .. n : j = Place(q)
  <2>1. CASE j < i
    <3>1. j \in 1 .. n /\ j = Place(j)
      BY <1>types, <2>1
    <3> QED
      BY <3>1
  <2>2. CASE j > i
    <3>1. j - 1 \in 1 .. n /\ j = Place(j - 1)
      BY <1>types, <2>2
    <3> QED
      BY <3>1
  <2> QED
    BY <1>3, <1>types, <2>1, <2>2
<1>4. \A q \in 1 .. n : Place(q) \in 1 .. n + 1 /\ Place(q) # i
  BY <1>types
<1>5. ASSUME NEW q \in 1 .. n
      PROVE  Place(q) \in deciding <=> q \in Exhausted
  BY <1>2, <1>4, <1>rows, <1>types DEF Guard!Decides, Exhausted, Guard!Exhausted
<1>6. i \in deciding <=> l.kind \in {"short", "prose"}
  BY <1>2, <1>message DEF Guard!Decides
<1>order. \A p, q \in 1 .. n : p <= q => Place(p) <= Place(q)
  OBVIOUS
<1> HIDE DEF Place
<1>wait. wait = IF deciding = {} THEN -2
                ELSE IF lines[Guard!Min(deciding)].kind # "row" THEN -1
                ELSE Guard!ParseOPResetDuration(lines[Guard!Min(deciding)].text)
  BY DEF Guard!ParseRateLimitOutput, Guard!NoLimit
<1>subset. deciding \subseteq 1 .. n + 1 /\ deciding \in SUBSET Nat
  BY <1>2, <1>types
<1> HIDE DEF deciding, wait
<1>7. wait \in Int /\ (wait > 0 => \E q \in Exhausted : wait <= quota[q].reset)
  <2>1. ASSUME NEW j \in deciding, lines[j].kind = "row"
        PROVE  /\ Guard!ParseOPResetDuration(lines[j].text) \in Int
               /\ \E q \in Exhausted :
                    Guard!ParseOPResetDuration(lines[j].text) <= quota[q].reset
    <3>1. j # i
      BY <1>2, <1>message, <2>1
    <3>2. PICK q \in 1 .. n : j = Place(q)
      BY <1>3, <1>subset, <3>1
    <3>3. q \in Exhausted /\ lines[j].text = texts[q]
      BY <1>2, <1>5, <1>rows, <3>2
    <3> QED
      BY <1>types, <3>3, TimeIsRead
  <2>2. deciding # {} => Guard!Min(deciding) \in deciding
    BY <1>subset, MinIsLeast
  <2> QED
    BY <1>wait, <2>1, <2>2
<1>8. ASSUME Guard!ExcusesOf(lines, texts) = {}, NEW needed \in Needed \cap Exhausted
      PROVE  wait > 0 /\ quota[needed].reset <= wait
  <2> DEFINE first == Guard!Min(Exhausted)
  <2>1. /\ ~\E j \in DOMAIN lines : lines[j].kind \in {"short", "prose"}
        /\ texts[first].form = "fromNow"
        /\ ~(texts[first].parts = Guard!InMinutes(quota[first].reset) /\ quota[first].reset % 2 = 1)
        /\ ~(quota[needed].reset > quota[first].reset)
    <3>1. "panic" \notin Guard!ExcusesOf(lines, texts) /\ "early" \notin Guard!ExcusesOf(lines, texts)
          /\ "behind" \notin Guard!ExcusesOf(lines, texts)
      BY <1>8
    <3>2. Exhausted # {}
      BY <1>8
    <3> QED
      BY <1>8, <3>1, <3>2, Zenon DEF Guard!ExcusesOf, Guard!Excuse, Exhausted
  <2>2. first \in Exhausted /\ \A q \in Exhausted : first <= q
    <3>1. Exhausted \in SUBSET Nat /\ Exhausted # {}
      BY <1>8, <1>types
    <3> QED
      BY <3>1, MinIsLeast
  <2> HIDE DEF first
  <2>3. i \notin deciding
    BY <1>2, <1>6, <2>1
  <2>4. Place(first) \in deciding
    BY <1>5, <1>types, <2>2
  <2>5. ASSUME NEW j \in deciding
        PROVE  Place(first) <= j
    <3>1. PICK q \in 1 .. n : j = Place(q)
      BY <1>3, <1>subset, <2>3
    <3>2. q \in Exhausted
      BY <1>5, <3>1
    <3> QED
      BY <1>order, <1>types, <2>2, <3>1, <3>2
  <2>6. Guard!Min(deciding) = Place(first) /\ deciding # {}
    BY <1>subset, <2>4, <2>5, MinIs
  <2>7. lines[Place(first)].kind = "row" /\ lines[Place(first)].text = texts[first]
    BY <1>2, <1>rows, <1>types, <2>2
  <2>8. wait = Guard!ParseOPResetDuration(texts[first])
    BY <1>wait, <2>6, <2>7
  <2>9. quota[first].reset \in Nat /\ quota[first].reset > 0
        /\ texts[first] \in Guard!ResetTexts(quota[first].reset)
    BY <1>types, <2>2
  <2>10. wait = quota[first].reset
    BY <2>1, <2>8, <2>9, TimeIsRead
  <2>11. quota[needed].reset \in Nat
    BY <1>types, <1>8
  <2> QED
    BY <2>1, <2>9, <2>10, <2>11
<1> QED
  BY <1>7, <1>8 DEF wait

LEMMA GuardUses ==
  ASSUME GuardInv, NEW Q \in SUBSET Guard!Quota, Q \cap Exhausted = {}, Guard!Use(Q)
  PROVE  quota' \in [Guard!Quota -> [left : Nat, reset : Nat]] /\ QuotaInv(quota')
<1> DEFINE used(q) == [left |-> quota[q].left - 1,
                       reset |-> IF quota[q].reset = 0 THEN Period[q] ELSE quota[q].reset]
<1>1. quota' = [q \in Guard!Quota |-> IF q \notin Q THEN quota[q] ELSE used(q)]
  BY DEF Guard!Use
<1>2. ASSUME NEW q \in Guard!Quota
      PROVE  /\ quota[q] \in [left : Nat, reset : Nat]
             /\ q \in Q => /\ used(q) \in [left : Nat, reset : Nat]
                           /\ used(q).left <= Limit[q] /\ used(q).reset <= Period[q]
                           /\ used(q).reset > 0
  <2>1. /\ quota[q] \in [left : Nat, reset : Nat]
        /\ quota[q].left <= Limit[q] /\ quota[q].reset <= Period[q]
        /\ Limit[q] \in Nat /\ Period[q] \in Nat /\ Period[q] > 0
    BY Quotas DEF GuardInv, QuotaInv, Guard!TypeOK
  <2>2. q \in Q => quota[q].left # 0
    BY DEF Exhausted, Guard!Exhausted
  <2> QED
    BY <2>1, <2>2
<1> HIDE DEF used
<1> QED
  BY <1>1, <1>2 DEF GuardInv, QuotaInv

LEMMA GuardStepKeeps ==
  ASSUME GuardInv, Guard!Next
  PROVE  GuardInv' /\ (container = "opRun" /\ container' = "ended" => excuses # {})
<1> DEFINE Types == quota' \in [Guard!Quota -> [left : Nat, reset : Nat]] /\ QuotaInv(quota')
<1>types. /\ quota \in [Guard!Quota -> [left : Nat, reset : Nat]] /\ QuotaInv(quota)
          /\ container \in Guard!Pc /\ timer \in Nat
          /\ others \in 0 .. MaxOthers /\ excuses \subseteq Guard!Excuse
          /\ MaxOthers \in Nat
  BY ProgramsAssumption DEF GuardInv, Guard!TypeOK, Guard!GuardAssumption
\* What is left to show of a step that keeps the types.
<1>go. ASSUME Types, container' \in Guard!Pc, timer' \in Nat, others' \in 0 .. MaxOthers,
              excuses' \subseteq Guard!Excuse,
              container' = "waiting" /\ excuses' = {} =>
                \A q \in Needed \cap Exhausted' : quota'[q].reset <= timer',
              container' = "opRun" /\ excuses' = {} => Needed \cap Exhausted' = {},
              container' = "waiting" /\ timer' > 0 =>
                \E q \in Exhausted' : timer' <= quota'[q].reset
       PROVE  GuardInv'
  <2>1. \A q \in Guard!Quota : quota'[q].left <= Limit[q] /\ quota'[q].reset <= Period[q]
    BY <1>go DEF QuotaInv
  <2> QED
    BY <1>go, <2>1 DEF GuardInv, Guard!TypeOK, WaitsOnlyWhileUsedUp,
       Guard!WaitsOnlyWhileUsedUp, Exhausted
<1>1. CASE Guard!LimitCheck
  <2>1. PICK texts \in [Exhausted -> UNION {Guard!ResetTexts(quota[q].reset) : q \in Exhausted}] :
          /\ \A q \in Exhausted : texts[q] \in Guard!ResetTexts(quota[q].reset)
          /\ \E lines \in Guard!Outputs(texts) :
                LET wait == Guard!ParseRateLimitOutput(lines)
                IN /\ \/ wait > 0 /\ container' = "waiting" /\ timer' = wait
                      \/ wait <= 0 /\ container' = "opRun" /\ timer' = 0
                   /\ excuses' = Guard!ExcusesOf(lines, texts)
    BY <1>1 DEF Guard!LimitCheck, Exhausted
  <2>2. PICK lines \in Guard!Outputs(texts) :
          LET wait == Guard!ParseRateLimitOutput(lines)
          IN /\ \/ wait > 0 /\ container' = "waiting" /\ timer' = wait
                \/ wait <= 0 /\ container' = "opRun" /\ timer' = 0
             /\ excuses' = Guard!ExcusesOf(lines, texts)
    BY <2>1
  <2> DEFINE wait == Guard!ParseRateLimitOutput(lines)
  <2>3. /\ wait \in Int
        /\ wait > 0 => \E q \in Exhausted : wait <= quota[q].reset
        /\ Guard!ExcusesOf(lines, texts) = {} =>
            \A q \in Needed \cap Exhausted : wait > 0 /\ quota[q].reset <= wait
    BY <2>1, OutputIsRead
  <2>4. /\ \/ wait > 0 /\ container' = "waiting" /\ timer' = wait
           \/ wait <= 0 /\ container' = "opRun" /\ timer' = 0
        /\ excuses' = Guard!ExcusesOf(lines, texts)
    BY <2>2
  <2>5. container = "guard" /\ UNCHANGED <<quota, others>>
    BY <1>1 DEF Guard!LimitCheck
  <2>6. excuses' \subseteq Guard!Excuse
    BY <2>4 DEF Guard!ExcusesOf
  <2> HIDE DEF wait
  <2>7. Exhausted' = Exhausted /\ Types
    BY <1>types, <2>5 DEF Exhausted, Guard!Exhausted, QuotaInv
  <2>8. timer' \in Nat /\ container' \in Guard!Pc
    BY <2>3, <2>4 DEF Guard!Pc
  <2>9. container' = "waiting" /\ excuses' = {} =>
          \A q \in Needed \cap Exhausted' : quota'[q].reset <= timer'
    BY <2>3, <2>4, <2>5, <2>7
  <2>10. container' = "opRun" /\ excuses' = {} => Needed \cap Exhausted' = {}
    BY <2>3, <2>4, <2>7
  <2>11. container' = "waiting" /\ timer' > 0 =>
           \E q \in Exhausted' : timer' <= quota'[q].reset
    BY <2>3, <2>4, <2>5, <2>7
  <2> QED
    BY <1>go, <1>types, <2>5, <2>6, <2>7, <2>8, <2>9, <2>10, <2>11
<1>2. CASE Guard!LimitCheckFails
  <2>1. Types /\ excuses' = {"panic"} /\ container = "guard" /\ container' = "opRun"
        /\ UNCHANGED <<timer, others>>
    BY <1>2, <1>types DEF Guard!LimitCheckFails, QuotaInv
  <2> QED
    BY <1>go, <1>types, <2>1 DEF Guard!Pc, Guard!Excuse
<1>3. CASE Guard!TickerFires
  <2>1. /\ container = "waiting" /\ container' = "opRun" /\ timer = 0
        /\ UNCHANGED <<quota, timer, others, excuses>>
    BY <1>3 DEF Guard!TickerFires
  <2>2. Exhausted' = Exhausted /\ Types
    BY <1>types, <2>1 DEF Exhausted, Guard!Exhausted, QuotaInv
  <2>3. \A q \in Exhausted : quota[q].reset \in Nat /\ quota[q].reset > 0
    BY <1>types DEF Exhausted, Guard!Exhausted, QuotaInv
  <2>4. excuses = {} => Needed \cap Exhausted = {}
    BY <2>1, <2>3 DEF GuardInv
  <2> QED
    BY <1>go, <1>types, <2>1, <2>2, <2>4 DEF Guard!Pc
<1>maintenance. CASE Guard!MaintenanceFails
  <2>1. /\ container = "waiting" /\ container' = "opRun" /\ timer' = 0
        /\ excuses' = excuses \cup {"fatal"} /\ UNCHANGED <<quota, others>>
    BY <1>maintenance DEF Guard!MaintenanceFails
  <2>2. Types /\ excuses' \subseteq Guard!Excuse /\ excuses' # {}
    BY <1>types, <2>1 DEF QuotaInv, Guard!Excuse
  <2> QED
    BY <1>go, <1>types, <2>1, <2>2 DEF Guard!Pc
<1>4. CASE Guard!OpRun
  <2>1. /\ Needed \cap Exhausted = {} /\ Guard!Use(Needed) /\ container' = "serving"
        /\ UNCHANGED <<timer, others, excuses>>
    BY <1>4 DEF Guard!OpRun, Exhausted
  <2>2. Types
    BY <2>1, GuardUses, Quotas
  <2> QED
    BY <1>go, <1>types, <2>1, <2>2 DEF Guard!Pc
<1>5. CASE Guard!OpRunFails
  <2>1. /\ container = "opRun" /\ Needed \cap Exhausted # {} /\ container' = "ended"
        /\ UNCHANGED <<quota, timer, others, excuses>>
    BY <1>5 DEF Guard!OpRunFails, Exhausted
  <2>2. excuses # {}
    BY <2>1 DEF GuardInv
  <2>3. Types
    BY <1>types, <2>1 DEF QuotaInv
  <2> QED
    BY <1>go, <1>types, <2>1, <2>2, <2>3 DEF Guard!Pc
<1>6. CASE Guard!ContainerEnds \/ Guard!StartAgain
  <2>1. /\ container # "opRun" /\ container' \in {"ended", "guard"} /\ timer' \in {0, timer}
        /\ UNCHANGED <<quota, others, excuses>>
    BY <1>6 DEF Guard!ContainerEnds, Guard!StartAgain
  <2>2. Types
    BY <1>types, <2>1 DEF QuotaInv
  <2> QED
    BY <1>go, <1>types, <2>1, <2>2 DEF Guard!Pc
<1>7. CASE Guard!AgentStarts \/ \E q \in Guard!Quota : Guard!UsedByHand(q)
  <2>1. PICK Q \in SUBSET Guard!Quota : Q \cap Exhausted = {} /\ Guard!Use(Q)
    <3>1. CASE Guard!AgentStarts
      BY <3>1, Quotas DEF Guard!AgentStarts, Exhausted
    <3>2. ASSUME NEW q \in Guard!Quota, Guard!UsedByHand(q)
          PROVE  {q} \cap Exhausted = {} /\ Guard!Use({q}) /\ {q} \in SUBSET Guard!Quota
      BY <3>2 DEF Guard!UsedByHand, Exhausted
    <3> QED
      BY <1>7, <3>1, <3>2
  <2>2. /\ others < MaxOthers /\ others' = others + 1 /\ excuses' = excuses \cup {"elsewhere"}
        /\ UNCHANGED <<container, timer>>
    BY <1>7 DEF Guard!AgentStarts, Guard!UsedByHand
  <2>3. Types
    BY <2>1, GuardUses
  <2>4. others' \in 0 .. MaxOthers /\ excuses' \subseteq Guard!Excuse /\ excuses' # {}
    BY <1>types, <2>2 DEF Guard!Excuse
  <2>5. \A q \in Exhausted : q \in Exhausted' /\ quota'[q] = quota[q]
    BY <2>1 DEF Guard!Use, Exhausted, Guard!Exhausted
  <2>6. container' = "waiting" /\ timer' > 0 =>
          \E q \in Exhausted' : timer' <= quota'[q].reset
    BY <2>2, <2>5 DEF GuardInv, WaitsOnlyWhileUsedUp, Guard!WaitsOnlyWhileUsedUp, Exhausted
  <2> QED
    BY <1>go, <1>types, <2>2, <2>3, <2>4, <2>6
<1>8. CASE Guard!Tick
  <2> DEFINE ticked(q) == IF quota[q].reset = 1 THEN [left |-> Limit[q], reset |-> 0]
                          ELSE [quota[q] EXCEPT !.reset = IF quota[q].reset = 0 THEN 0
                                                          ELSE quota[q].reset - 1]
  <2>1. /\ quota' = [q \in Guard!Quota |-> ticked(q)]
        /\ timer' = IF timer = 0 THEN 0 ELSE timer - 1
        /\ UNCHANGED <<container, others, excuses>>
    BY <1>8 DEF Guard!Tick
  <2>2. ASSUME NEW q \in Guard!Quota
        PROVE  /\ ticked(q) \in [left : Nat, reset : Nat]
               /\ ticked(q).left <= Limit[q] /\ ticked(q).reset <= Period[q]
               /\ ticked(q).left = 0 => /\ quota[q].left = 0 /\ ticked(q).reset > 0
                                        /\ ticked(q).reset = quota[q].reset - 1
               /\ quota[q].reset > 1 => /\ ticked(q).left = quota[q].left
                                        /\ ticked(q).reset = quota[q].reset - 1
    <3>1. /\ quota[q] \in [left : Nat, reset : Nat]
          /\ quota[q].left <= Limit[q] /\ quota[q].reset <= Period[q]
          /\ quota[q].left = 0 => quota[q].reset > 0
          /\ Limit[q] \in Nat /\ Limit[q] > 0 /\ Period[q] \in Nat
      BY <1>types, Quotas DEF QuotaInv
    <3>2. CASE quota[q].reset = 1
      BY <3>1, <3>2
    <3>3. CASE quota[q].reset = 0
      BY <3>1, <3>3
    <3>4. CASE quota[q].reset > 1
      <4>1. ticked(q).left = quota[q].left /\ ticked(q).reset = quota[q].reset - 1
            /\ ticked(q) \in [left : Nat, reset : Nat]
        BY <3>1, <3>4
      <4> QED
        BY <3>1, <3>4, <4>1
    <3> QED
      BY <3>1, <3>2, <3>3, <3>4
  <2> HIDE DEF ticked
  <2>3. Types
    BY <2>1, <2>2 DEF QuotaInv
  <2>4. \A q \in Exhausted' : q \in Exhausted /\ quota'[q].reset > 0
                             /\ quota'[q].reset = quota[q].reset - 1 /\ quota[q].reset \in Nat
    BY <1>types, <2>1, <2>2 DEF Exhausted, Guard!Exhausted
  <2>5. timer' \in Nat
    BY <1>types, <2>1
  <2>6. container' = "waiting" /\ excuses' = {} =>
          \A q \in Needed \cap Exhausted' : quota'[q].reset <= timer'
    BY <1>types, <2>1, <2>4 DEF GuardInv
  <2>7. container' = "opRun" /\ excuses' = {} => Needed \cap Exhausted' = {}
    BY <2>1, <2>4 DEF GuardInv
  <2>8. ASSUME container' = "waiting", timer' > 0
        PROVE  \E q \in Exhausted' : timer' <= quota'[q].reset
    <3>1. timer' = timer - 1 /\ timer > 1
      BY <1>types, <2>1, <2>8
    <3>2. PICK q \in Exhausted : timer <= quota[q].reset
      BY <1>types, <2>1, <2>8, <3>1 DEF GuardInv, WaitsOnlyWhileUsedUp, Guard!WaitsOnlyWhileUsedUp, Exhausted
    <3>3. quota[q].reset \in Nat /\ q \in Guard!Quota /\ quota[q].left = 0
      BY <1>types DEF Exhausted, Guard!Exhausted
    <3>4. quota'[q].left = 0 /\ quota'[q].reset = quota[q].reset - 1
      BY <1>types, <2>1, <2>2, <3>1, <3>2, <3>3
    <3>5. q \in Exhausted'
      BY <3>3, <3>4 DEF Exhausted, Guard!Exhausted
    <3>6. timer' <= quota'[q].reset
      BY <1>types, <3>1, <3>2, <3>3, <3>4
    <3> QED
      BY <3>5, <3>6
  <2> QED
    BY <1>go, <1>types, <2>1, <2>3, <2>5, <2>6, <2>7, <2>8
<1> QED
  BY <1>1, <1>2, <1>3, <1>maintenance, <1>4, <1>5, <1>6, <1>7, <1>8 DEF Guard!Next

LEMMA GuardStaysInv == GuardInv /\ [ProgramsNext]_programsVars => GuardInv'
<1> SUFFICES ASSUME GuardInv, [ProgramsNext]_programsVars
             PROVE  GuardInv'
  OBVIOUS
<1>1. CASE UNCHANGED guardVars
  BY <1>1 DEF guardVars, GuardInv, QuotaInv, Guard!TypeOK, Exhausted, Guard!Exhausted,
     WaitsOnlyWhileUsedUp, Guard!WaitsOnlyWhileUsedUp
<1>2. Guard!Next \/ UNCHANGED guardVars
  BY DEF ProgramsNext, RenewalStep, ForwarderStep, GuardStep, AgentStep, programsVars
<1> QED
  BY <1>1, <1>2, GuardStepKeeps

\* A start that the guard has let through finds the quotas it needs but for the
\* reasons the model lists: a panic, a maintenance page that could not be served, a
\* rounded time, a quota further down reset later, another's use.  Otherwise,
\* whatever the table of quotas, their limits and periods, the message between its
\* rows and the wording of its times, the guard waits at least as long as the first
\* quota used up (op.go:22-60 and 86-143, op-limit-check/main.go:28-39).
THEOREM FailedStartsAreExplainedAlways == ProgramsSpec => FailedStartsAreExplained
<1>1. GuardInv /\ [ProgramsNext]_programsVars =>
        [(container = "opRun" /\ container' = "ended") => excuses # {}]_Guard!vars
  <2>1. [ProgramsNext]_programsVars => Guard!Next \/ UNCHANGED guardVars
    BY DEF ProgramsNext, RenewalStep, ForwarderStep, GuardStep, AgentStep, programsVars
  <2> QED
    BY <2>1, GuardStepKeeps DEF guardVars, Guard!vars
<1> QED
  BY <1>1, InitGuard, GuardStaysInv, PTL DEF ProgramsSpec, FailedStartsAreExplained,
     Guard!FailedStartsAreExplained

\* The guard keeps the server away only while a quota is used up and never longer
\* than that one needs, for any quotas and periods and whatever is printed: what it
\* reads is the time of a quota that is used up or less, and neither the clock nor
\* the uses elsewhere make it too long (op.go:22-60 and 86-143).
THEOREM WaitsOnlyWhileUsedUpAlways == ProgramsSpec => []WaitsOnlyWhileUsedUp
<1>1. GuardInv => WaitsOnlyWhileUsedUp
  BY DEF GuardInv
<1> QED
  BY <1>1, InitGuard, GuardStaysInv, PTL DEF ProgramsSpec

-----------------------------------------------------------------------------
(* The agents *)

AP == INSTANCE AgentProofs WITH OutletEnabled <- TRUE

LEMMA AgentConstants == AP!AgentAssumption
  BY ProgramsAssumption DEF AP!AgentAssumption, AP!Position, Agents!AgentAssumption, Agents!Position

LEMMA SameAgent ==
  ASSUME NEW s \in Sensor
  PROVE  /\ Agents!Step(s) => AP!Step(s)
         /\ Agents!Deliver(s) => AP!Deliver(s)
<1> USE DEF Agents!At, AP!At, Agents!outletVars, AP!outletVars, Agents!Down, AP!Down
<1>1. Agents!MoveDoor(s) => AP!MoveDoor(s)
  BY DEF Agents!MoveDoor, AP!MoveDoor
<1>2. Agents!Start(s) => AP!Start(s)
  BY DEF Agents!Start, AP!Start
<1>3. Agents!ReadPin(s) => AP!ReadPin(s)
  BY DEF Agents!ReadPin, AP!ReadPin
<1>4. Agents!WriteStatus(s) => AP!WriteStatus(s)
  BY DEF Agents!WriteStatus, AP!WriteStatus, Agents!Compare, AP!Compare
<1>5. Agents!WriteStatusFails(s) => AP!WriteStatusFails(s)
  BY DEF Agents!WriteStatusFails, AP!WriteStatusFails, Agents!Compare, AP!Compare
<1>6. Agents!PublishSensorStatus(s) => AP!PublishSensorStatus(s)
  BY DEF Agents!PublishSensorStatus, AP!PublishSensorStatus, Agents!AfterPublish, AP!AfterPublish
<1>7. Agents!PublishFails(s) => AP!PublishFails(s)
  BY DEF Agents!PublishFails, AP!PublishFails, Agents!AfterPublish, AP!AfterPublish
<1>8. /\ Agents!SwitchOutlet(s) => AP!SwitchOutlet(s)
      /\ Agents!SwitchOutletFails(s) => AP!SwitchOutletFails(s)
  BY DEF Agents!SwitchOutlet, AP!SwitchOutlet, Agents!SwitchOutletFails, AP!SwitchOutletFails
<1>9. Agents!Exit(s) => AP!Exit(s)
  BY DEF Agents!Exit, AP!Exit
<1>10. Agents!Lose(s) => AP!Lose(s)
  BY DEF Agents!Lose, AP!Lose, Agents!RemoveAt, AP!RemoveAt
<1>11. Agents!Deliver(s) => AP!Deliver(s)
  BY DEF Agents!Deliver, AP!Deliver
<1> QED
  BY <1>1, <1>2, <1>3, <1>4, <1>5, <1>6, <1>7, <1>8, <1>9, <1>10, <1>11
     DEF Agents!Step, AP!Step

\* Whatever the programs do, the agents go only through behaviours of Agent.
LEMMA ProgramsRunAgents == ProgramsSpec => AP!Spec
<1>1. ProgramsInit => AP!Init
  BY DEF ProgramsInit, Agents!Init, AP!Init, Agents!Down, AP!Down, Agents!Position, AP!Position
<1>2. [ProgramsNext]_programsVars => [AP!Next]_(AP!vars)
  BY SameAgent DEF ProgramsNext, RenewalStep, ForwarderStep, GuardStep, AgentStep, Agents!Next,
     AP!Next, programsVars, agentVars, AP!vars, AP!outletVars
<1> QED
  BY <1>1, <1>2, PTL DEF ProgramsSpec, AP!Spec

\* The outlet of an agent that sleeps between two polls fits its last status,
\* however often it was restarted, unless a switching or the status file went
\* wrong, for any number of agents (agent/main.go:152-203).
THEOREM OutletFollowsAgentAlways == ProgramsSpec => []OutletFollowsAgent
<1>1. AP!OutletFollowsAgent <=> OutletFollowsAgent
  BY DEF AP!OutletFollowsAgent, OutletFollowsAgent, Agents!OutletFollowsAgent, AP!At, Agents!At
<1> QED
  BY <1>1, ProgramsRunAgents, AP!OutletFollowsAgentAlways, AgentConstants, PTL

\* The types of the four programs, for any processes, files, lines, limits, quotas
\* and sensors: the pipe keeps to its capacity and holds only lines that were
\* logged, no quota is overdrawn, and there is at most one firewall of the name.
THEOREM TypesCorrect == ProgramsSpec => []ProgramsTypeOK
<1> DEFINE I == Inv /\ ForwarderInv /\ GuardInv
<1>1. ProgramsInit => I
  BY InitInv, InitForwarder, InitGuard DEF ProgramsInit
<1>2. I /\ [ProgramsNext]_programsVars => I'
  <2>1. [ProgramsNext]_programsVars => [Next]_vars
    BY DEF ProgramsNext, RenewalStep, ForwarderStep, GuardStep, AgentStep, programsVars
  <2> QED
    BY <2>1, InvStep, ForwarderStaysInv, GuardStaysInv
<1>3. AP!TypeOK <=> Agents!TypeOK
  BY DEF AP!TypeOK, Agents!TypeOK, AP!Position, Agents!Position
<1>4. I /\ Agents!TypeOK => ProgramsTypeOK
  BY DEF Inv, ForwarderInv, GuardInv, ProgramsTypeOK
<1> QED
  BY <1>1, <1>2, <1>3, <1>4, ProgramsRunAgents, AP!TypeCorrect, AgentConstants, PTL DEF ProgramsSpec
=============================================================================
