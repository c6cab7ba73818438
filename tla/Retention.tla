------------------------------ MODULE Retention ------------------------------
(***************************************************************************)
(* Data retention (cmd/server.go, internal/pkg/postgres, internal/pkg/aws):*)
(* every twelve hours the oldest rows of the status table above a maximum  *)
(* are appended to a backup object in S3 and deleted from Postgres.        *)
(*                                                                         *)
(* The job is one goroutine that makes one call per step while the MQTT    *)
(* handlers go on inserting rows.  Rows are deleted by timestamp: a second *)
(* is shared by every row stamped in it, and a heartbeat timeout inserts a *)
(* row with the timestamp of an older one.                                 *)
(***************************************************************************)
EXTENDS Naturals, FiniteSets

CONSTANTS
    Row,          \* the rows that may ever be inserted
    Stamp,        \* the timestamps, in seconds
    MaxRetentionRows,  \* S3Config.MaxRetentionRows
    DiskCanFill   \* may the buffered writer's Flush fail?

ASSUME RetentionAssumption ==
    /\ IsFiniteSet(Row)
    /\ Stamp \subseteq Nat
    /\ MaxRetentionRows \in Nat
    /\ DiskCanFill \in BOOLEAN

VARIABLES
    stamp,     \* the timestamp of each row
    inserted,  \* the rows ever inserted
    table,     \* the rows in Postgres
    s3,        \* the rows in the backup object
    tmp,       \* the rows in the local backup file
    job,       \* the run of runDataRetention
    outcome    \* what the last run logged: "none", "error", "warned", "stored"

vars == <<stamp, inserted, table, s3, tmp, job, outcome>>
rows == <<stamp, inserted>>

JobPC == {"idle", "count", "select", "create", "download", "append", "upload",
          "delete", "compare"}

\* batch is rowsAboveMax, todo what DeleteRows has still to visit, gone the rows
\* its statements deleted and affected the rowsAffected it adds up.
Idle == [pc |-> "idle", excess |-> 0, batch |-> {}, todo |-> {}, gone |-> {},
         affected |-> 0]

\* Type correctness of the database, the backup and the job.
TypeOK ==
    /\ stamp \in [Row -> Stamp]
    /\ inserted \subseteq Row
    /\ table \subseteq inserted
    /\ s3 \subseteq inserted
    /\ tmp \subseteq inserted
    /\ job \in [pc : JobPC, excess : Nat, batch : SUBSET inserted,
                todo : SUBSET inserted, gone : SUBSET inserted, affected : Nat]
    /\ outcome \in {"none", "error", "warned", "stored"}

Init ==
    /\ stamp \in [Row -> Stamp]
    /\ inserted = {}
    /\ table = {}
    /\ s3 = {}
    /\ tmp = {}
    /\ job = Idle
    /\ outcome = "none"

-----------------------------------------------------------------------------
\* WriteSensorStatus, from a report or a heartbeat timeout.
Insert(r) ==
    /\ r \notin inserted
    /\ inserted' = inserted \cup {r}
    /\ table' = table \cup {r}
    /\ UNCHANGED <<stamp, s3, tmp, job, outcome>>

-----------------------------------------------------------------------------
(* runDataRetention *)

At(pc) == job.pc = pc
Goto(pc) == job' = [job EXCEPT !.pc = pc]

\* The run ends and logs o.
End(o) == job' = Idle /\ outcome' = o

Start ==
    /\ At("idle")
    /\ job' = [Idle EXCEPT !.pc = "count"]
    /\ outcome' = "none"
    /\ UNCHANGED <<rows, table, s3, tmp>>

\* Mutant: a table below the maximum is not left alone.
CountAnyDifference ==
    /\ At("count")
    /\ LET rowCount == Cardinality(table)
       IN \/ /\ rowCount = MaxRetentionRows
             /\ End("none")
          \/ /\ rowCount # MaxRetentionRows
             /\ job' = [job EXCEPT !.excess = rowCount - MaxRetentionRows, !.pc = "select"]
             /\ UNCHANGED outcome
    /\ UNCHANGED <<rows, table, s3, tmp>>

\* Mutant: one row too many.
CountOneTooMany ==
    /\ At("count")
    /\ LET rowCount == Cardinality(table)
       IN \/ /\ rowCount <= MaxRetentionRows
             /\ End("none")
          \/ /\ rowCount > MaxRetentionRows
             /\ job' = [job EXCEPT !.excess = rowCount - MaxRetentionRows + 1,
                                   !.pc = "select"]
             /\ UNCHANGED outcome
    /\ UNCHANGED <<rows, table, s3, tmp>>

Count ==
    /\ At("count")
    /\ LET rowCount == Cardinality(table)
       IN \/ /\ rowCount <= MaxRetentionRows
             /\ End("none")
          \/ /\ rowCount > MaxRetentionRows
             /\ job' = [job EXCEPT !.excess = rowCount - MaxRetentionRows, !.pc = "select"]
             /\ UNCHANGED outcome
    /\ UNCHANGED <<rows, table, s3, tmp>>

\* The beginnings of S in timestamp order: sets none of whose rows is younger
\* than a row of S left out.  Postgres breaks ties as it likes.
Oldest(S) ==
    {B \in SUBSET S : \A r \in B, q \in S \ B : stamp[r] <= stamp[q]}

\* ORDER BY timestamp ASC LIMIT excess, a statement of its own: rows may have
\* been inserted since the count.  rows.Err is not asked, so a connection that
\* breaks off passes for the end of the result; with no row the run ends.
Select ==
    /\ At("select")
    /\ \E B \in Oldest(table) :
        /\ Cardinality(B) <= job.excess
        /\ \/ B = {} /\ End("none")
           \/ B # {} /\ job' = [job EXCEPT !.batch = B, !.pc = "create"] /\ UNCHANGED outcome
    /\ UNCHANGED <<rows, table, s3, tmp>>

\* os.Create truncates the temporary file.
Create ==
    /\ At("create")
    /\ tmp' = {}
    /\ Goto("download")
    /\ UNCHANGED <<rows, table, s3, outcome>>

\* Mutant: the run starts from an empty file.
DownloadNothing ==
    /\ At("download")
    /\ Goto("append")
    /\ UNCHANGED <<rows, table, s3, tmp, outcome>>

\* An object that does not exist yet leaves the file empty, as one with no row.
Download ==
    /\ At("download")
    /\ tmp' = s3
    /\ Goto("append")
    /\ UNCHANGED <<rows, table, s3, outcome>>

\* The error of Flush is dropped: when the disk is full the rows still buffered
\* are missing from the file and the run goes on.
AppendBatch ==
    /\ At("append")
    /\ \E written \in IF DiskCanFill THEN Oldest(job.batch) ELSE {job.batch} :
        tmp' = tmp \cup written
    /\ Goto("upload")
    /\ UNCHANGED <<rows, table, s3, outcome>>

\* Mutant: only an object that exists is replaced.
UploadExisting ==
    /\ At("upload")
    /\ s3' = IF s3 = {} THEN s3 ELSE tmp
    /\ job' = [job EXCEPT !.todo = job.batch, !.pc = "delete"]
    /\ UNCHANGED <<rows, table, tmp, outcome>>

Upload ==
    /\ At("upload")
    /\ s3' = tmp
    /\ job' = [job EXCEPT !.todo = job.batch, !.pc = "delete"]
    /\ UNCHANGED <<rows, table, tmp, outcome>>

\* The rows one DELETE ... WHERE timestamp = $1 removes.
SameStamp(v) == {r \in table : stamp[r] = stamp[v]}

\* The next row of the slice, which the query sorted by timestamp.
NextToDelete(v) == v \in job.todo /\ \A r \in job.todo : stamp[v] <= stamp[r]

DeleteNext(v) ==
    /\ At("delete")
    /\ NextToDelete(v)
    /\ table' = table \ SameStamp(v)
    /\ job' = [job EXCEPT !.todo = @ \ {v}, !.gone = @ \cup SameStamp(v),
                          !.affected = @ + Cardinality(SameStamp(v)),
                          !.pc = IF job.todo = {v} THEN "compare" ELSE "delete"]
    /\ UNCHANGED <<rows, s3, tmp, outcome>>

\* Mutant: only too few deleted rows are a mismatch.
CompareTooFew ==
    /\ At("compare")
    /\ job' = [job EXCEPT !.pc = "idle"]
    /\ outcome' = IF job.affected < Cardinality(job.batch) THEN "warned" ELSE "stored"
    /\ UNCHANGED <<rows, table, s3, tmp>>

\* A mismatch is only a warning; the success message counts the rows "deleted
\* and stored in S3 backup".
Compare ==
    /\ At("compare")
    /\ job' = [job EXCEPT !.pc = "idle"]
    /\ outcome' = IF job.affected # Cardinality(job.batch) THEN "warned" ELSE "stored"
    /\ UNCHANGED <<rows, table, s3, tmp>>

-----------------------------------------------------------------------------
(* Errors and crashes *)

\* A call returns an error and the run ends.  A write may have taken effect.
Fail ==
    /\ job.pc \notin {"idle", "compare"}
    /\ End("error")
    /\ \/ UNCHANGED <<table, s3, tmp>>
       \/ At("download") /\ tmp' \in SUBSET s3 /\ UNCHANGED <<table, s3>>
       \/ At("append") /\ (\E B \in Oldest(job.batch) : tmp' = tmp \cup B) /\ UNCHANGED <<table, s3>>
       \/ At("upload") /\ s3' = tmp /\ UNCHANGED <<table, tmp>>
       \/ /\ At("delete")
          /\ \E v \in Row : NextToDelete(v) /\ table' = table \ SameStamp(v)
          /\ UNCHANGED <<s3, tmp>>
    /\ UNCHANGED rows

\* The process is replaced between two calls, in the same container or in one
\* with a fresh disk.
Crash(fresh) ==
    /\ End("none")
    /\ tmp' = IF fresh THEN {} ELSE tmp
    /\ UNCHANGED <<rows, table, s3>>

JobStep ==
    \/ Start \/ Count \/ Select \/ Create \/ Download \/ AppendBatch \/ Upload
    \/ (\E v \in Row : DeleteNext(v)) \/ Compare

Next == (\E r \in Row : Insert(r)) \/ JobStep \/ Fail
        \/ \E fresh \in BOOLEAN : Crash(fresh)

Spec == Init /\ [][Next]_vars

-----------------------------------------------------------------------------
(* Properties *)

\* A row leaves the system only with a backed-up row of the same second: every
\* row ever inserted is in Postgres or in the S3 backup, or else a row with its
\* timestamp is in the backup (server.go:230-269, postgres.go:139-150).
LossOnlyByTie ==
    \A r \in inserted \ table : \E q \in s3 : stamp[q] = stamp[r]

\* The backup object never loses a row it holds: each run downloads it before it
\* is overwritten, whichever call fails and wherever the process is killed
\* (s3.go:128-152 and server.go:246-263).
BackupOnlyGrows == [][s3 \subseteq s3']_s3

\* When a run reports its rows as deleted and stored in the S3 backup, every row
\* its DELETE statements removed, those with a shared timestamp included, is in
\* the backup: the comparison of the two counts catches every row lost to a tie
\* (server.go:271-279).
StoredMeansBackedUp == outcome = "stored" => job.gone \subseteq s3

\* A run that reports success leaves at least MaxRetentionRows rows behind,
\* although rows are inserted between its statements (postgres.go:158-170).
StoredKeepsMax == outcome = "stored" => Cardinality(table) >= MaxRetentionRows
=============================================================================
