----------------------------- MODULE FullBackup -----------------------------
(***************************************************************************)
(* The full backup (runFullBackup): every six hours all rows of the status *)
(* table are written to a local file and the file is uploaded to S3.       *)
(*                                                                         *)
(* The file is opened without O_TRUNC, so what a shorter backup does not   *)
(* overwrite stays at its end.  Files and objects are sequences of rows,   *)
(* one line each; lines are taken to have the same length, which leaves    *)
(* out the cut line between the new rows and the old ones.                 *)
(***************************************************************************)
EXTENDS Integers, Sequences, FiniteSets, SequencesExt

\* Jobs states what is assumed of them.
CONSTANTS
    Row,    \* the rows that may ever be inserted
    MaxRetentionRows,    \* the rows a retention run leaves in the table
    DiskCanFill,         \* may the buffered writer's Flush fail?
    SelectsBreakOff      \* may the connection break off amid the rows of a select?

VARIABLES
    table,    \* the rows in Postgres, by timestamp
    unused,   \* the rows not inserted yet
    tmp,      \* the local file
    s3,       \* the object in S3
    job,      \* the run of runFullBackup
    logged    \* the count in the last success message, while it is the last

vars == <<table, unused, tmp, s3, job, logged>>

NotLogged == -1
Idle == [pc |-> "idle", rows |-> <<>>]

\* Type correctness of the table, the file, the object and the job.
TypeOK ==
    /\ table \in Seq(Row) /\ tmp \in Seq(Row) /\ s3 \in Seq(Row)
    /\ unused \subseteq Row
    /\ job.pc \in {"idle", "getRows", "write", "upload"} /\ job.rows \in Seq(Row)
    /\ logged \in {NotLogged} \cup 0..Cardinality(Row)

Init ==
    /\ table = <<>> /\ unused = Row
    /\ tmp = <<>> /\ s3 = <<>>
    /\ job = Idle
    /\ logged = NotLogged

\* A report is stamped now and comes last; a heartbeat timeout repeats an older
\* timestamp and comes anywhere.
Insert(r) ==
    /\ r \in unused
    /\ unused' = unused \ {r}
    /\ \E i \in 1..Len(table) + 1 : table' = InsertAt(table, i, r)
    /\ UNCHANGED <<tmp, s3, job, logged>>

\* A statement of a retention run deletes the oldest rows (Retention).
Trim ==
    /\ \E n \in 1..Len(table) - MaxRetentionRows :
        table' = SubSeq(table, n + 1, Len(table))
    /\ UNCHANGED <<unused, tmp, s3, job, logged>>

-----------------------------------------------------------------------------
(* runFullBackup *)

At(pc) == job.pc = pc

\* Mutant: the file is opened to append.
AppendLines(new, old) == old \o new

\* Lines new written from the start of a file that holds old.
Overwrite(new, old) == new \o SubSeq(old, Len(new) + 1, Len(old))

Start ==
    /\ At("idle")
    /\ job' = [Idle EXCEPT !.pc = "getRows"]
    /\ logged' = NotLogged
    /\ UNCHANGED <<table, unused, tmp, s3>>

\* rows.Err is not asked: a connection that breaks off passes for the end of
\* the table, and the run goes on with the first n rows.
GetAllRows ==
    /\ At("getRows")
    /\ \E n \in 0..Len(table) :
        /\ n < Len(table) => SelectsBreakOff
        /\ job' = [pc |-> "write", rows |-> SubSeq(table, 1, n)]
    /\ UNCHANGED <<table, unused, tmp, s3, logged>>

\* The error of Flush is dropped: when the disk is full only the first n rows
\* are in the file, and the run goes on.
WriteBackupFile ==
    /\ At("write")
    /\ \E n \in 0..Len(job.rows) :
        /\ n < Len(job.rows) => DiskCanFill
        /\ tmp' = Overwrite(SubSeq(job.rows, 1, n), tmp)
    /\ job' = [job EXCEPT !.pc = "upload"]
    /\ UNCHANGED <<table, unused, s3, logged>>

Upload ==
    /\ At("upload")
    /\ s3' = tmp
    /\ job' = [job EXCEPT !.pc = "idle"]
    /\ logged' = Len(job.rows)
    /\ UNCHANGED <<table, unused, tmp>>

\* A call returns an error and the run ends; a write may have been begun, an
\* upload may have taken effect.
Fail ==
    /\ ~At("idle")
    /\ job' = Idle
    /\ \/ UNCHANGED <<tmp, s3>>
       \/ /\ At("write")
          /\ \E n \in 0..Len(job.rows) : tmp' = Overwrite(SubSeq(job.rows, 1, n), tmp)
          /\ UNCHANGED s3
       \/ At("upload") /\ s3' = tmp /\ UNCHANGED tmp
    /\ UNCHANGED <<table, unused, logged>>

\* The process is replaced, in the same container or in a new one.
Restart ==
    /\ job' = Idle
    /\ tmp' \in {tmp, <<>>}
    /\ logged' = NotLogged
    /\ UNCHANGED <<table, unused, s3>>

Next ==
    \/ \E r \in Row : Insert(r)
    \/ Trim \/ Start \/ GetAllRows \/ WriteBackupFile \/ Upload \/ Fail \/ Restart

Spec == Init /\ [][Next]_vars

-----------------------------------------------------------------------------
(* Properties *)

\* While the disk does not fill up: after a success message the object begins
\* with exactly the rows that run read, whatever earlier runs, failed or
\* complete, left in the local file (server.go:282-305, s3.go:154-181).
ObjectHoldsSnapshot ==
    logged # NotLogged => IsPrefix(job.rows, s3)

\* After a success message the object holds as many rows as the message says.
ObjectIsSnapshot ==
    logged # NotLogged => Len(s3) = logged
=============================================================================
