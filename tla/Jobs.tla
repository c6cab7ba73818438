-------------------------------- MODULE Jobs --------------------------------
(***************************************************************************)
(* The two backup jobs of configureCronJobs: the retention run and the     *)
(* full backup.  Each has a ticker, a local file and an object of its own; *)
(* all that passes between them is that retention shortens the table the   *)
(* full backup reads, which FullBackup has as Trim.  So a behaviour        *)
(* follows one of them, named by `which', and leaves the other alone.      *)
(* Both write with the same WriteBackupFile, so DiskCanFill is one.        *)
(***************************************************************************)
EXTENDS Retention

CONSTANTS
    FullRow, FullMaxRetentionRows,   \* Row and MaxRetentionRows of FullBackup
    SelectsBreakOff                  \* as in FullBackup

ASSUME JobsAssumption ==
    IsFiniteSet(FullRow) /\ FullMaxRetentionRows \in Nat /\ SelectsBreakOff \in BOOLEAN

VARIABLES which, fullTable, fullUnused, fullTmp, fullS3, fullJob, logged

Full == INSTANCE FullBackup WITH
    Row <- FullRow, MaxRetentionRows <- FullMaxRetentionRows,
    table <- fullTable, unused <- fullUnused, tmp <- fullTmp, s3 <- fullS3,
    job <- fullJob

fullVars == <<fullTable, fullUnused, fullTmp, fullS3, fullJob, logged>>
jobsVars == <<which, vars, fullVars>>

JobsInit ==
    /\ which \in {"retention", "fullBackup"}
    /\ Init
    /\ which = "fullBackup" => stamp = [r \in Row |-> CHOOSE t \in Stamp : TRUE]
    /\ Full!Init

JobsNext ==
    \/ which = "retention" /\ Next /\ UNCHANGED <<which, fullVars>>
    \/ which = "fullBackup" /\ Full!Next /\ UNCHANGED <<which, vars>>

JobsSpec == JobsInit /\ [][JobsNext]_jobsVars

\* Type correctness of both jobs.
JobsTypeOK == TypeOK /\ Full!TypeOK

\* While the disk does not fill up: after a success message of the full backup
\* its object begins with exactly the rows that run read, whatever earlier runs,
\* failed or complete, left in the local file (server.go:282-305,
\* s3.go:154-181).
ObjectHoldsSnapshot == Full!ObjectHoldsSnapshot
=============================================================================
