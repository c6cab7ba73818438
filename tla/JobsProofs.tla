------------------------------ MODULE JobsProofs ------------------------------
(***************************************************************************)
(* Proofs about the two backup jobs, for any finite sets of rows, any      *)
(* timestamps and any maximum: the retention run first, the full backup at *)
(* the end.                                                                *)
(***************************************************************************)
EXTENDS Jobs, FiniteSetTheorems, SequenceTheorems, TLAPS

-----------------------------------------------------------------------------
(* Cardinalities of sets of rows *)

LEMMA RowsFinite ==
  ASSUME NEW S \in SUBSET Row
  PROVE  IsFiniteSet(S) /\ Cardinality(S) \in Nat
  BY FS_Subset, FS_CardinalityType, RetentionAssumption

LEMMA DisjointUnion ==
  ASSUME NEW S \in SUBSET Row, NEW T \in SUBSET Row, S \cap T = {}
  PROVE  Cardinality(S \cup T) = Cardinality(S) + Cardinality(T)
<1>1. Cardinality(S \cup T) = Cardinality(S) + Cardinality(T) - Cardinality(S \cap T)
  BY FS_Union, RowsFinite
<1>2. Cardinality(S \cap T) = 0
  BY FS_EmptySet
<1> QED
  BY <1>1, <1>2, RowsFinite

\* Taking a part H out of S.
LEMMA Remove ==
  ASSUME NEW S \in SUBSET Row, NEW H \in SUBSET S
  PROVE  Cardinality(S) = Cardinality(S \ H) + Cardinality(H)
<1>1. S = (S \ H) \cup H /\ (S \ H) \cap H = {}
  OBVIOUS
<1> QED
  BY <1>1, DisjointUnion

-----------------------------------------------------------------------------
(* Type correctness *)

LEMMA InitType == Init => TypeOK
  BY FS_EmptySet DEF Init, TypeOK, Idle, JobPC

\* What a select does: it ends a run that read nothing, or keeps the batch.
LEMMA SelectShape ==
  ASSUME Select
  PROVE  /\ job.pc = "select" /\ UNCHANGED <<stamp, inserted, table, s3, tmp>>
         /\ \/ job' = Idle /\ outcome' = "none"
            \/ \E B \in SUBSET table :
                /\ Cardinality(B) <= job.excess
                /\ job' = [job EXCEPT !.batch = B, !.pc = "create"]
                /\ outcome' = outcome
<1>1. /\ job.pc = "select" /\ UNCHANGED <<stamp, inserted, table, s3, tmp>>
      /\ \E B \in Oldest(table) :
            /\ Cardinality(B) <= job.excess
            /\ \/ End("none")
               \/ job' = [job EXCEPT !.batch = B, !.pc = "create"] /\ UNCHANGED outcome
  BY DEF Select, At, rows
<1>2. PICK B \in Oldest(table) :
        /\ Cardinality(B) <= job.excess
        /\ \/ End("none")
           \/ job' = [job EXCEPT !.batch = B, !.pc = "create"] /\ UNCHANGED outcome
  BY <1>1
<1>3. B \in SUBSET table
  BY DEF Oldest
<1> QED
  BY <1>1, <1>2, <1>3 DEF End

LEMMA TypeStep == TypeOK /\ [Next]_vars => TypeOK'
<1> SUFFICES ASSUME TypeOK, [Next]_vars
             PROVE  TypeOK'
  OBVIOUS
<1> USE RetentionAssumption DEF TypeOK, At, Goto, End, Idle, JobPC, rows
<1>1. ASSUME NEW r \in Row, Insert(r)
      PROVE  TypeOK'
  BY <1>1 DEF Insert
<1>2. CASE Start
  BY <1>2 DEF Start
<1>3. CASE Count
  <2>1. Cardinality(table) \in Nat
    BY RowsFinite
  <2>2. CASE job' = Idle
    BY <1>3, <2>2 DEF Count
  <2>3. CASE job' # Idle
    <3>1. /\ Cardinality(table) - MaxRetentionRows \in Nat
          /\ job' = [job EXCEPT !.excess = Cardinality(table) - MaxRetentionRows,
                                !.pc = "select"]
          /\ UNCHANGED <<stamp, inserted, table, s3, tmp, outcome>>
      BY <1>3, <2>1, <2>3 DEF Count
    <3> QED
      BY <3>1
  <2> QED
    BY <2>2, <2>3
<1>4. CASE Select
  <2>1. CASE job' = Idle /\ outcome' = "none"
    BY <1>4, <2>1, SelectShape
  <2>2. ASSUME NEW B \in SUBSET table, outcome' = outcome,
               job' = [job EXCEPT !.batch = B, !.pc = "create"]
        PROVE  TypeOK'
    BY <1>4, <2>2, SelectShape
  <2> QED
    BY <1>4, <2>1, <2>2, SelectShape
<1>5. CASE Create \/ Download \/ Upload
  BY <1>5 DEF Create, Download, Upload
<1>6. CASE AppendBatch
  BY <1>6 DEF AppendBatch, Oldest
<1>7. ASSUME NEW v \in Row, DeleteNext(v)
      PROVE  TypeOK'
  <2> DEFINE hit == SameStamp(v)
  <2>1. hit \in SUBSET table /\ Cardinality(hit) \in Nat
    BY RowsFinite DEF SameStamp
  <2>2. /\ UNCHANGED <<stamp, inserted, s3, tmp, outcome>>
        /\ table' = table \ hit
        /\ job' = [job EXCEPT !.todo = @ \ {v}, !.gone = @ \cup hit,
                              !.affected = @ + Cardinality(hit),
                              !.pc = IF job.todo = {v} THEN "compare" ELSE "delete"]
    BY <1>7 DEF DeleteNext
  <2> HIDE DEF hit
  <2>3. job.affected + Cardinality(hit) \in Nat
    BY <2>1
  <2>4. job.gone \cup hit \in SUBSET inserted /\ job.todo \ {v} \in SUBSET inserted
    BY <2>1
  <2>5. job' \in [pc : JobPC, excess : Nat, batch : SUBSET inserted,
                  todo : SUBSET inserted, gone : SUBSET inserted, affected : Nat]
    BY <2>2, <2>3, <2>4
  <2> QED
    BY <2>1, <2>2, <2>5
<1>8. CASE Compare
  BY <1>8 DEF Compare
<1>9. CASE Fail
  BY <1>9 DEF Fail, Oldest, SameStamp
<1>10. CASE (\E fresh \in BOOLEAN : Crash(fresh))
  BY <1>10 DEF Crash
<1>11. CASE UNCHANGED vars
  BY <1>11 DEF vars
<1> QED
  BY <1>1, <1>2, <1>3, <1>4, <1>5, <1>6, <1>7, <1>8, <1>9, <1>10, <1>11
     DEF Next, JobStep

\* The database, the backup and the job are always of their types.
THEOREM TypeCorrect == Spec => []TypeOK
  BY InitType, TypeStep, PTL DEF Spec

\* What the other proofs need of the two outcomes of the count.
LEMMA CountShape ==
  ASSUME TypeOK, Count
  PROVE  /\ job' = Idle \/ \E n : job' = [job EXCEPT !.excess = n, !.pc = "select"]
         /\ job'.pc \in {"idle", "select"}
         /\ outcome' \in {outcome, "none"}
         /\ UNCHANGED <<stamp, inserted, table, s3, tmp>>
<1>1. job' = Idle \/ \E n : job' = [job EXCEPT !.excess = n, !.pc = "select"]
  BY DEF Count, End
<1>2. job'.pc \in {"idle", "select"}
  <2>1. CASE job' = Idle
    BY <2>1 DEF Idle
  <2>2. ASSUME NEW n, job' = [job EXCEPT !.excess = n, !.pc = "select"]
        PROVE  job'.pc = "select"
    BY <2>2 DEF TypeOK
  <2> QED
    BY <1>1, <2>1, <2>2
<1>3. outcome' \in {outcome, "none"} /\ UNCHANGED <<stamp, inserted, table, s3, tmp>>
  BY DEF Count, End, rows
<1> QED
  BY <1>1, <1>2, <1>3

-----------------------------------------------------------------------------
(* The backup only grows *)

\* From its download on, the local file holds the whole backup.
FileInv == job.pc \in {"append", "upload"} => s3 \subseteq tmp

LEMMA FileStep == TypeOK /\ FileInv /\ [Next]_vars => FileInv'
<1> SUFFICES ASSUME TypeOK, FileInv, [Next]_vars
             PROVE  FileInv'
  OBVIOUS
<1> USE DEF TypeOK, FileInv, At, Goto, End, Idle, rows
<1>1. CASE \E r \in Row : Insert(r)
  BY <1>1 DEF Insert
<1>2. CASE Start
  BY <1>2 DEF Start
<1>2b. CASE Select
  <2>1. CASE job' = Idle /\ outcome' = "none"
    BY <1>2b, <2>1, SelectShape
  <2>2. ASSUME NEW B \in SUBSET table, outcome' = outcome,
               job' = [job EXCEPT !.batch = B, !.pc = "create"]
        PROVE  FileInv'
    BY <1>2b, <2>2, SelectShape
  <2> QED
    BY <1>2b, <2>1, <2>2, SelectShape
<1>2a. CASE Count
  BY <1>2a, CountShape
<1>3. CASE Create \/ Download \/ AppendBatch
  BY <1>3 DEF Create, Download, AppendBatch
<1>4. CASE Upload \/ Compare \/ \E v \in Row : DeleteNext(v)
  BY <1>4 DEF Upload, DeleteNext, Compare
<1>5. CASE Fail \/ (\E fresh \in BOOLEAN : Crash(fresh))
  BY <1>5 DEF Fail, Crash
<1>6. CASE UNCHANGED vars
  BY <1>6 DEF vars
<1> QED
  BY <1>1, <1>2, <1>2a, <1>2b, <1>3, <1>4, <1>5, <1>6 DEF Next, JobStep

\* No step, not even a failed upload that took effect, takes a row out of the
\* backup object.
THEOREM BackupGrows == Spec => BackupOnlyGrows
<1>1. Init => FileInv
  BY DEF Init, FileInv, Idle
<1>2. Spec => []FileInv
  BY <1>1, FileStep, TypeCorrect, PTL DEF Spec
<1>3. FileInv /\ [Next]_vars => [s3 \subseteq s3']_s3
  BY DEF FileInv, Next, JobStep, Insert, Start, Count, Select, Create, Download,
         AppendBatch, Upload, DeleteNext, Compare, Fail, Crash, vars, rows, At
<1> QED
  BY <1>2, <1>3, PTL DEF Spec, BackupOnlyGrows

-----------------------------------------------------------------------------
(* Nothing is lost but by ties *)

\* The batch is in the local file before the upload and in the backup after it.
BatchInv ==
    /\ job.pc = "upload" => job.batch \subseteq tmp
    /\ job.pc \in {"delete", "compare"} => job.batch \subseteq s3
    /\ job.pc = "delete" => job.todo \subseteq job.batch

LEMMA LossStep ==
  ASSUME ~DiskCanFill, TypeOK, FileInv, BatchInv, LossOnlyByTie, [Next]_vars
  PROVE  BatchInv' /\ LossOnlyByTie'
<1> USE DEF TypeOK, FileInv, BatchInv, LossOnlyByTie, At, Goto, End, Idle, rows
<1> DEFINE Goal == BatchInv' /\ LossOnlyByTie'
<1>1. ASSUME NEW r \in Row, Insert(r)
      PROVE  Goal
  BY <1>1 DEF Insert
<1>2. CASE Start
  BY <1>2 DEF Start
<1>2b. CASE Select
  <2>1. CASE job' = Idle /\ outcome' = "none"
    BY <1>2b, <2>1, SelectShape
  <2>2. ASSUME NEW B \in SUBSET table, outcome' = outcome,
               job' = [job EXCEPT !.batch = B, !.pc = "create"]
        PROVE  Goal
    BY <1>2b, <2>2, SelectShape
  <2> QED
    BY <1>2b, <2>1, <2>2, SelectShape
<1>2a. CASE Count
  BY <1>2a, CountShape
<1>3. CASE Create \/ Download \/ AppendBatch
  BY <1>3 DEF Create, Download, AppendBatch
<1>4. CASE Upload
  BY <1>4 DEF Upload
<1>5. ASSUME NEW v \in Row, DeleteNext(v)
      PROVE  Goal
  BY <1>5 DEF DeleteNext, NextToDelete, SameStamp
<1>6. CASE Compare \/ (\E fresh \in BOOLEAN : Crash(fresh))
  BY <1>6 DEF Compare, Crash
<1>7. CASE Fail
  <2>1. CASE table' = table /\ s3 \subseteq s3'
    BY <1>7, <2>1 DEF Fail
  <2>2. CASE At("delete") /\ \E v \in Row : NextToDelete(v) /\ table' = table \ SameStamp(v)
    BY <1>7, <2>2 DEF Fail, NextToDelete, SameStamp
  <2> QED
    BY <1>7, <2>1, <2>2 DEF Fail
<1>8. CASE UNCHANGED vars
  BY <1>8 DEF vars
<1> QED
  BY <1>1, <1>2, <1>3, <1>4, <1>5, <1>2a, <1>2b, <1>6, <1>7, <1>8 DEF Next, JobStep

LEMMA LossInvariance ==
  ASSUME ~DiskCanFill
  PROVE  Spec => [](BatchInv /\ LossOnlyByTie)
<1>1. Init => FileInv /\ BatchInv /\ LossOnlyByTie
  BY DEF Init, FileInv, BatchInv, LossOnlyByTie, Idle
<1>2. TypeOK /\ FileInv /\ BatchInv /\ LossOnlyByTie /\ [Next]_vars
      => FileInv' /\ BatchInv' /\ LossOnlyByTie'
  BY LossStep, FileStep
<1> QED
  BY <1>1, <1>2, TypeCorrect, PTL DEF Spec

\* While the disk does not fill, a row leaves the system only if a row of the
\* same second is in the backup.
THEOREM LossOnlyByTieAlways ==
  ASSUME ~DiskCanFill
  PROVE  Spec => []LossOnlyByTie
  BY LossInvariance, PTL

-----------------------------------------------------------------------------
(* What the comparison of the two counts shows *)

\* The rows the run took out are not in the table, and a row of the batch is in
\* one of the two; once visited it is gone.
GoneInv ==
    /\ job.gone \cap table = {}
    /\ job.pc \in {"count", "select", "create", "download", "append", "upload"}
       => job.gone = {} /\ job.affected = 0
    /\ job.pc \in {"create", "download", "append", "upload", "delete", "compare"}
       => job.batch \subseteq table \cup job.gone
    /\ job.pc = "delete" => job.batch \ job.todo \subseteq job.gone
    /\ job.pc = "compare" => job.batch \subseteq job.gone

\* How many they are.  Rows may be inserted at any time, never taken out by others.
CountInv ==
    /\ job.pc = "select" => Cardinality(table) >= job.excess + MaxRetentionRows
    /\ job.pc \in {"create", "download", "append", "upload", "delete", "compare"} =>
        /\ job.affected = Cardinality(job.gone)
        /\ Cardinality(table) + Cardinality(job.gone)
             >= Cardinality(job.batch) + MaxRetentionRows

\* A success message stands only while no run is under way.
StoredInv ==
    outcome = "stored" =>
        /\ job.pc = "idle"
        /\ job.gone = job.batch
        /\ Cardinality(table) >= MaxRetentionRows

LEMMA GoneStep == TypeOK /\ GoneInv /\ [Next]_vars => GoneInv'
<1> SUFFICES ASSUME TypeOK, GoneInv, [Next]_vars
             PROVE  GoneInv'
  OBVIOUS
<1> USE DEF TypeOK, GoneInv, At, Goto, End, Idle, rows
<1>1. CASE \E r \in Row : Insert(r)
  BY <1>1 DEF Insert
<1>2. CASE Start \/ Create \/ Download \/ AppendBatch
  BY <1>2 DEF Start, Create, Download, AppendBatch
<1>3. CASE Count
  <2>1. job.gone = {} /\ job.affected = 0
    BY <1>3 DEF Count
  <2>2. CASE job' = Idle
    BY <2>2
  <2>3. ASSUME NEW n, job' = [job EXCEPT !.excess = n, !.pc = "select"]
        PROVE  GoneInv'
    BY <2>1, <2>3
  <2> QED
    BY <1>3, <2>2, <2>3, CountShape
<1>4. CASE Upload
  BY <1>4 DEF Upload
<1>4b. CASE Select
  <2>1. CASE job' = Idle /\ outcome' = "none"
    BY <1>4b, <2>1, SelectShape
  <2>2. ASSUME NEW B \in SUBSET table, outcome' = outcome,
               job' = [job EXCEPT !.batch = B, !.pc = "create"]
        PROVE  GoneInv'
    BY <1>4b, <2>2, SelectShape
  <2> QED
    BY <1>4b, <2>1, <2>2, SelectShape
<1>5. ASSUME NEW v \in Row, DeleteNext(v)
      PROVE  GoneInv'
  <2> DEFINE hit == SameStamp(v)
  <2>1. /\ v \in job.todo /\ At("delete")
        /\ hit \subseteq table /\ (v \in table => v \in hit)
    BY <1>5 DEF DeleteNext, NextToDelete, SameStamp
  <2>2. /\ table' = table \ hit /\ job'.gone = job.gone \cup hit
        /\ job'.batch = job.batch /\ job'.todo = job.todo \ {v}
        /\ job'.pc = IF job.todo = {v} THEN "compare" ELSE "delete"
    BY <1>5 DEF DeleteNext
  <2> HIDE DEF hit
  <2> QED
    BY <2>1, <2>2
<1>6. CASE Compare \/ Fail \/ (\E fresh \in BOOLEAN : Crash(fresh))
  BY <1>6 DEF Compare, Fail, Crash
<1>7. CASE UNCHANGED vars
  BY <1>7 DEF vars
<1> QED
  BY <1>1, <1>2, <1>3, <1>4, <1>4b, <1>5, <1>6, <1>7 DEF Next, JobStep

LEMMA CountStep ==
  ASSUME TypeOK, GoneInv, CountInv, StoredInv, [Next]_vars
  PROVE  CountInv' /\ StoredInv'
<1> USE RetentionAssumption DEF TypeOK, CountInv, StoredInv, At, Goto, End, Idle, rows
<1> DEFINE Goal == CountInv' /\ StoredInv'
<1>0. /\ Cardinality(table) \in Nat /\ Cardinality(job.gone) \in Nat
      /\ Cardinality(job.batch) \in Nat
  BY RowsFinite
<1>1. ASSUME NEW r \in Row, Insert(r)
      PROVE  Goal
  <2>1. table' = table \cup {r} /\ r \notin table
    BY <1>1 DEF Insert
  <2>2. Cardinality(table') = Cardinality(table) + 1
    BY <2>1, FS_AddElement, RowsFinite
  <2> QED
    BY <1>0, <1>1, <2>2 DEF Insert
<1>2. CASE Start \/ Create \/ Download \/ AppendBatch \/ Upload
  BY <1>2 DEF Start, Create, Download, AppendBatch, Upload
<1>3. CASE Count
  <2>1. CASE Cardinality(table) <= MaxRetentionRows
    BY <1>0, <1>3, <2>1 DEF Count
  <2>2. CASE Cardinality(table) > MaxRetentionRows
    <3>1. /\ job' = [job EXCEPT !.excess = Cardinality(table) - MaxRetentionRows,
                                !.pc = "select"]
          /\ outcome' = outcome /\ table' = table /\ outcome # "stored"
      BY <1>0, <1>3, <2>2 DEF Count
    <3>2. job'.excess = Cardinality(table) - MaxRetentionRows /\ job'.pc = "select"
      BY <3>1
    <3> QED
      BY <1>0, <3>1, <3>2
  <2> QED
    BY <1>0, <2>1, <2>2
<1>4. CASE Select
  <2>1. CASE job' = Idle /\ outcome' = "none"
    BY <2>1
  <2>2. ASSUME NEW B \in SUBSET table, Cardinality(B) <= job.excess,
               outcome' = outcome, job' = [job EXCEPT !.batch = B, !.pc = "create"]
        PROVE  Goal
    <3>1. /\ job.pc = "select" /\ table' = table
          /\ job'.pc = "create" /\ job'.gone = job.gone
          /\ job'.affected = job.affected /\ job'.batch = B
          /\ outcome' = outcome /\ Cardinality(B) <= job.excess
      BY <1>4, <2>2, SelectShape
    <3>2. job.gone = {} /\ job.affected = 0 /\ Cardinality({}) = 0
      BY <3>1, FS_EmptySet DEF GoneInv
    <3>3. Cardinality(B) \in Nat
      BY RowsFinite
    <3> QED
      BY <1>0, <3>1, <3>2, <3>3
  <2> QED
    BY <1>4, <2>1, <2>2, SelectShape
<1>5. ASSUME NEW v \in Row, DeleteNext(v)
      PROVE  Goal
  <2> DEFINE hit == SameStamp(v)
  <2>1. /\ At("delete") /\ outcome' = outcome
        /\ table' = table \ hit /\ job'.gone = job.gone \cup hit
        /\ job'.batch = job.batch /\ job'.affected = job.affected + Cardinality(hit)
        /\ job'.pc \in {"delete", "compare"}
    BY <1>5 DEF DeleteNext
  <2>2. hit \in SUBSET table /\ job.gone \cap hit = {}
    BY DEF SameStamp, GoneInv
  <2> HIDE DEF hit
  <2>3. Cardinality(table) = Cardinality(table') + Cardinality(hit)
    BY <2>1, <2>2, Remove
  <2>4. Cardinality(job'.gone) = Cardinality(job.gone) + Cardinality(hit)
    BY <2>1, <2>2, DisjointUnion
  <2>5. Cardinality(hit) \in Nat /\ Cardinality(table') \in Nat
    BY <2>1, <2>2, RowsFinite
  <2> QED
    BY <1>0, <2>1, <2>3, <2>4, <2>5
<1>6. CASE Compare
  <2>1. /\ At("compare") /\ job'.pc = "idle" /\ job'.gone = job.gone
        /\ job'.batch = job.batch /\ table' = table
        /\ outcome' = "stored" => job.affected = Cardinality(job.batch)
    BY <1>6 DEF Compare
  <2>2. ASSUME outcome' = "stored"
        PROVE  job.gone = job.batch /\ Cardinality(table) >= MaxRetentionRows
    <3>1. job.batch \subseteq job.gone /\ Cardinality(job.gone) = Cardinality(job.batch)
      BY <2>1, <2>2 DEF GoneInv
    <3> QED
      BY <1>0, <2>1, <3>1, FS_Subset, RowsFinite
  <2> QED
    BY <2>1, <2>2
<1>7. CASE Fail \/ (\E fresh \in BOOLEAN : Crash(fresh))
  BY <1>7 DEF Fail, Crash
<1>8. CASE UNCHANGED vars
  BY <1>8 DEF vars
<1> QED
  BY <1>1, <1>2, <1>3, <1>4, <1>5, <1>6, <1>7, <1>8 DEF Next, JobStep

LEMMA CountInvariance == Spec => [](GoneInv /\ CountInv /\ StoredInv)
<1>1. Init => GoneInv /\ CountInv /\ StoredInv
  BY DEF Init, GoneInv, CountInv, StoredInv, Idle
<1>2. TypeOK /\ GoneInv /\ CountInv /\ StoredInv /\ [Next]_vars
      => GoneInv' /\ CountInv' /\ StoredInv'
  BY GoneStep, CountStep
<1> QED
  BY <1>1, <1>2, TypeCorrect, PTL DEF Spec

\* A run that reports success leaves at least the maximum behind: it counted
\* every row it deleted, and nobody else deletes any.
THEOREM StoredKeepsMaxAlways == Spec => []StoredKeepsMax
<1>1. StoredInv => StoredKeepsMax
  BY DEF StoredInv, StoredKeepsMax
<1> QED
  BY <1>1, CountInvariance, PTL

\* While the disk does not fill, a success message means that every row the run
\* deleted is in the backup: the batch is a subset of what was deleted, so equal
\* counts make them the same set.
THEOREM StoredMeansBackedUpAlways ==
  ASSUME ~DiskCanFill
  PROVE  Spec => []StoredMeansBackedUp
<1> DEFINE Backed == outcome = "stored" => job.batch \subseteq s3
<1>1. Init => Backed
  BY DEF Init
<1>2. TypeOK /\ BatchInv /\ StoredInv /\ Backed /\ [Next]_vars => Backed'
  <2> SUFFICES ASSUME TypeOK, BatchInv, StoredInv, Backed, [Next]_vars
               PROVE  Backed'
    OBVIOUS
  <2> USE DEF TypeOK, StoredInv, At, Goto, End, rows
  <2>1. CASE Compare
    BY <2>1 DEF Compare, BatchInv
  <2>2. CASE \E r \in Row : Insert(r)
    BY <2>2 DEF Insert
  <2>3. CASE Start \/ Fail \/ (\E fresh \in BOOLEAN : Crash(fresh))
    BY <2>3 DEF Start, Fail, Crash
  <2>4. CASE Count \/ Select \/ Create \/ Download \/ AppendBatch \/ Upload
             \/ \E v \in Row : DeleteNext(v)
    <3>1. outcome' # "stored"
      BY <2>4 DEF Count, Select, Create, Download, AppendBatch, Upload, DeleteNext
    <3> QED
      BY <3>1
  <2>5. CASE UNCHANGED vars
    BY <2>5 DEF vars
  <2> QED
    BY <2>1, <2>2, <2>3, <2>4, <2>5 DEF Next, JobStep
<1>3. Backed /\ StoredInv => StoredMeansBackedUp
  BY DEF StoredInv, StoredMeansBackedUp
<1>4. Spec => []Backed
  BY <1>1, <1>2, LossInvariance, CountInvariance, TypeCorrect, PTL DEF Spec
<1> QED
  BY <1>3, <1>4, CountInvariance, PTL

-----------------------------------------------------------------------------
(* The full backup *)

\* While a run is under way there is no message; once it has written its rows, on
\* a disk that does not fill up, they are what the local file begins with.
FullInv ==
    /\ fullTable \in Seq(FullRow) /\ fullTmp \in Seq(FullRow) /\ fullS3 \in Seq(FullRow)
    /\ fullJob.rows \in Seq(FullRow)
    /\ fullJob.pc # "idle" => logged = Full!NotLogged
    /\ fullJob.pc = "upload" /\ ~DiskCanFill => Full!IsPrefix(fullJob.rows, fullTmp)
    /\ ~DiskCanFill => Full!ObjectHoldsSnapshot

LEMMA InitFull == JobsInit => FullInv
  BY DEF JobsInit, Full!Init, Full!Idle, FullInv, Full!ObjectHoldsSnapshot

\* The first rows of a table are rows.
LEMMA Beginning ==
  ASSUME NEW q \in Seq(FullRow), NEW n \in 0..Len(q)
  PROVE  SubSeq(q, 1, n) \in Seq(FullRow)
  OBVIOUS

\* What is written from the start of a file is what the file begins with.
LEMMA OverwriteBegins ==
  ASSUME NEW new \in Seq(FullRow), NEW old \in Seq(FullRow)
  PROVE  /\ Full!Overwrite(new, old) \in Seq(FullRow)
         /\ Full!IsPrefix(new, Full!Overwrite(new, old))
<1> DEFINE rest == SubSeq(old, Len(new) + 1, Len(old))
<1>1. rest \in Seq(FullRow)
  OBVIOUS
<1>2. Full!Overwrite(new, old) = new \o rest
  BY DEF Full!Overwrite
<1> HIDE DEF rest
<1>3. /\ new \o rest \in Seq(FullRow)
      /\ Len(new \o rest) = Len(new) + Len(rest)
      /\ \A i \in 1..Len(new) : (new \o rest)[i] = new[i]
  BY <1>1
<1> QED
  BY <1>1, <1>2, <1>3 DEF Full!IsPrefix

LEMMA FullStep == FullInv /\ [Full!Next]_fullVars => FullInv'
<1> SUFFICES ASSUME FullInv, [Full!Next]_fullVars
             PROVE  FullInv'
  OBVIOUS
<1> USE DEF FullInv, Full!At, Full!ObjectHoldsSnapshot
<1>1. ASSUME NEW r \in FullRow, Full!Insert(r)
      PROVE  FullInv'
  <2>1. PICK i \in 1..Len(fullTable) + 1 : fullTable' = Full!InsertAt(fullTable, i, r)
    BY <1>1 DEF Full!Insert
  <2>2. /\ SubSeq(fullTable, 1, i - 1) \in Seq(FullRow)
        /\ SubSeq(fullTable, i, Len(fullTable)) \in Seq(FullRow)
    OBVIOUS
  <2>3. fullTable' \in Seq(FullRow)
    BY <2>1, <2>2 DEF Full!InsertAt
  <2> QED
    BY <1>1, <2>3 DEF Full!Insert
<1>2. CASE Full!Trim
  <2>1. PICK n \in 1..Len(fullTable) - FullMaxRetentionRows :
          fullTable' = SubSeq(fullTable, n + 1, Len(fullTable))
    BY <1>2 DEF Full!Trim
  <2>2. n \in Nat
    OBVIOUS
  <2>3. fullTable' \in Seq(FullRow)
    BY <2>1, <2>2
  <2> QED
    BY <1>2, <2>3 DEF Full!Trim
<1>3. CASE Full!Start
  BY <1>3 DEF Full!Start, Full!Idle
<1>4. CASE Full!GetAllRows
  <2>1. PICK n \in 0..Len(fullTable) :
          fullJob' = [pc |-> "write", rows |-> SubSeq(fullTable, 1, n)]
    BY <1>4 DEF Full!GetAllRows
  <2>2. fullJob'.pc = "write" /\ fullJob'.rows \in Seq(FullRow)
    BY <2>1, Beginning
  <2> QED
    BY <1>4, <2>2 DEF Full!GetAllRows
<1>5. CASE Full!WriteBackupFile
  <2>1. PICK n \in 0..Len(fullJob.rows) :
          /\ n < Len(fullJob.rows) => DiskCanFill
          /\ fullTmp' = Full!Overwrite(SubSeq(fullJob.rows, 1, n), fullTmp)
    BY <1>5 DEF Full!WriteBackupFile
  <2> DEFINE written == SubSeq(fullJob.rows, 1, n)
  <2>2. written \in Seq(FullRow) /\ (~DiskCanFill => written = fullJob.rows)
    BY <2>1, Beginning
  <2>3. /\ fullTmp' \in Seq(FullRow)
        /\ ~DiskCanFill => Full!IsPrefix(fullJob.rows, fullTmp')
    BY <2>1, <2>2, OverwriteBegins
  <2>4. /\ fullJob' = [fullJob EXCEPT !.pc = "upload"] /\ fullJob.pc = "write"
        /\ UNCHANGED <<fullTable, fullS3, logged>>
    BY <1>5 DEF Full!WriteBackupFile
  <2>5. fullJob'.rows = fullJob.rows
    BY <2>4
  <2> HIDE DEF written
  <2> QED
    BY <2>3, <2>4, <2>5
<1>6. CASE Full!Upload
  BY <1>6 DEF Full!Upload
<1>7. CASE Full!Fail
  <2>1. logged = Full!NotLogged /\ UNCHANGED <<fullTable, logged>> /\ fullJob' = Full!Idle
    BY <1>7 DEF Full!Fail
  <2>2. fullJob'.pc = "idle" /\ fullJob'.rows \in Seq(FullRow)
    BY <2>1 DEF Full!Idle
  <2>3. fullTmp' \in Seq(FullRow) /\ fullS3' \in Seq(FullRow)
    <3>1. CASE fullJob.pc = "write" /\ UNCHANGED fullS3
               /\ \E n \in 0..Len(fullJob.rows) :
                    fullTmp' = Full!Overwrite(SubSeq(fullJob.rows, 1, n), fullTmp)
      BY <3>1, Beginning, OverwriteBegins
    <3> QED
      BY <1>7, <3>1 DEF Full!Fail
  <2> QED
    BY <2>1, <2>2, <2>3
<1>8. CASE Full!Restart
  <2>1. /\ fullJob'.pc = "idle" /\ fullJob'.rows = <<>>
        /\ fullTmp' \in {fullTmp, <<>>} /\ logged' = Full!NotLogged
        /\ UNCHANGED <<fullTable, fullS3>>
    BY <1>8 DEF Full!Restart, Full!Idle
  <2>2. <<>> \in Seq(FullRow)
    OBVIOUS
  <2>3. fullTmp' \in Seq(FullRow)
    BY <2>1, <2>2
  <2>4. fullJob'.rows \in Seq(FullRow)
    BY <2>1, <2>2
  <2> QED
    BY <2>1, <2>3, <2>4
<1>9. CASE UNCHANGED fullVars
  BY <1>9 DEF fullVars
<1> QED
  BY <1>1, <1>2, <1>3, <1>4, <1>5, <1>6, <1>7, <1>8, <1>9 DEF Full!Next

LEMMA FullPart == [JobsNext]_jobsVars => [Full!Next]_fullVars
  BY DEF JobsNext, jobsVars

\* While the disk does not fill up: after a success message the object begins with
\* the rows the run read, for any number of rows and however earlier runs failed,
\* on whatever they left in the local file (server.go:282-305, s3.go:154-181).
THEOREM ObjectHoldsSnapshotAlways ==
  ASSUME ~DiskCanFill
  PROVE  JobsSpec => []ObjectHoldsSnapshot
<1>1. FullInv => ObjectHoldsSnapshot
  BY DEF FullInv, ObjectHoldsSnapshot
<1>2. FullInv /\ [JobsNext]_jobsVars => FullInv'
  BY FullStep, FullPart
<1> QED
  BY <1>1, <1>2, InitFull, PTL DEF JobsSpec

-----------------------------------------------------------------------------
(* The full backup's types *)

\* No row is twice in a sequence.
Distinct(q) == \A i, j \in 1 .. Len(q) : q[i] = q[j] => i = j

\* A row enters the table once; what a run reads of it has no row twice, either,
\* so that a message never counts more rows than there are.
OnceInv ==
    /\ FullInv
    /\ fullUnused \subseteq FullRow
    /\ fullJob.pc \in {"idle", "getRows", "write", "upload"}
    /\ Distinct(fullTable) /\ Distinct(fullJob.rows)
    /\ \A i \in 1 .. Len(fullTable) : fullTable[i] \notin fullUnused
    /\ logged \in {Full!NotLogged} \cup 0 .. Cardinality(FullRow)

LEMMA NoMoreThanRows ==
  ASSUME NEW q \in Seq(FullRow), Distinct(q)
  PROVE  Len(q) <= Cardinality(FullRow)
<1> DEFINE D == 1 .. Len(q)
<1>1. IsFiniteSet(FullRow)
  BY JobsAssumption
<1>2. q \in Injection(D, FullRow)
  BY DEF Distinct, Injection, IsInjective
<1>3. Cardinality(D) <= Cardinality(FullRow)
  BY <1>1, <1>2, FS_Injection DEF ExistsInjection
<1>4. Cardinality(D) = Len(q)
  <2>1. Len(q) \in Nat /\ 1 \in Int
    OBVIOUS
  <2>2. Cardinality(D) = IF 1 > Len(q) THEN 0 ELSE Len(q) - 1 + 1
    BY <2>1, FS_Interval
  <2> QED
    BY <2>1, <2>2
<1> QED
  BY <1>3, <1>4

\* A part of a sequence without repetition has none, and the elements of the whole.
LEMMA PartOfDistinct ==
  ASSUME NEW q \in Seq(FullRow), Distinct(q),
         NEW m \in Int, m >= 1, NEW n \in Int, n <= Len(q)
  PROVE  LET part == SubSeq(q, m, n)
         IN /\ part \in Seq(FullRow) /\ Distinct(part)
            /\ \A i \in 1 .. Len(part) : \E j \in 1 .. Len(q) : part[i] = q[j]
<1> DEFINE part == SubSeq(q, m, n)
<1>1. \A k \in m .. n : k \in 1 .. Len(q) /\ q[k] \in FullRow
  OBVIOUS
<1>2. /\ part \in Seq(FullRow) /\ Len(part) = IF m <= n THEN n - m + 1 ELSE 0
      /\ \A i \in 1 .. n - m + 1 : part[i] = q[m + i - 1]
  BY <1>1, SubSeqProperties
<1> HIDE DEF part
<1>3. ASSUME NEW i \in 1 .. Len(part)
      PROVE  m + i - 1 \in 1 .. Len(q) /\ part[i] = q[m + i - 1]
  BY <1>2
<1>4. Distinct(part)
  <2> SUFFICES ASSUME NEW i \in 1 .. Len(part), NEW j \in 1 .. Len(part), part[i] = part[j]
               PROVE  i = j
    BY DEF Distinct
  <2>1. m + i - 1 = m + j - 1
    BY <1>3 DEF Distinct
  <2>2. i \in Int /\ j \in Int
    BY <1>2
  <2> QED
    BY <2>1, <2>2
<1> QED
  BY <1>2, <1>3, <1>4 DEF part

\* A row that is not in a sequence is inserted at a place of it.
LEMMA Inserted ==
  ASSUME NEW q \in Seq(FullRow), NEW r \in FullRow, NEW i \in 1 .. Len(q) + 1
  PROVE  LET p == Full!InsertAt(q, i, r)
         IN /\ p \in Seq(FullRow) /\ Len(p) = Len(q) + 1
            /\ \A k \in 1 .. Len(p) : p[k] = IF k < i THEN q[k] ELSE IF k = i THEN r ELSE q[k - 1]
<1> DEFINE n == Len(q)
           p == Full!InsertAt(q, i, r)
           before == SubSeq(q, 1, i - 1)
           behind == SubSeq(q, i, n)
           head == before \o <<r>>
<1>1. \A k \in 1 .. n : q[k] \in FullRow
  OBVIOUS
<1>2. p = head \o behind
  BY DEF Full!InsertAt
<1>n. n \in Nat /\ i \in Int /\ 1 <= i /\ i <= n + 1
  OBVIOUS
<1>3. /\ before \in Seq(FullRow) /\ Len(before) = i - 1
      /\ \A k \in 1 .. i - 1 : before[k] = q[k]
  BY <1>1, <1>n, SubSeqProperties
<1>4. /\ behind \in Seq(FullRow) /\ Len(behind) = n - i + 1
      /\ \A k \in 1 .. n - i + 1 : behind[k] = q[i + k - 1]
  BY <1>1, <1>n, SubSeqProperties
<1> HIDE DEF p, before, behind
<1>5. /\ head \in Seq(FullRow) /\ Len(head) = i /\ head[i] = r
      /\ \A k \in 1 .. i - 1 : head[k] = q[k]
  BY <1>n, <1>3
<1> HIDE DEF head
<1>6. Len(head) + Len(behind) = n + 1
  BY <1>n, <1>4, <1>5
<1>7. /\ head \o behind \in Seq(FullRow) /\ Len(head \o behind) = Len(head) + Len(behind)
      /\ \A k \in 1 .. Len(head) + Len(behind) :
            (head \o behind)[k] = IF k <= Len(head) THEN head[k] ELSE behind[k - Len(head)]
  BY <1>4, <1>5, ConcatProperties, Zenon
<1>8. /\ p \in Seq(FullRow) /\ Len(p) = n + 1
      /\ \A k \in 1 .. n + 1 : p[k] = IF k <= i THEN head[k] ELSE behind[k - i]
  BY <1>2, <1>5, <1>6, <1>7
<1>9. ASSUME NEW k \in 1 .. n + 1
      PROVE  p[k] = IF k < i THEN q[k] ELSE IF k = i THEN r ELSE q[k - 1]
  <2>1. CASE k <= i
    BY <1>n, <1>5, <1>8, <2>1
  <2>2. CASE ~(k <= i)
    <3>1. k - i \in 1 .. n - i + 1 /\ i + (k - i) - 1 = k - 1 /\ ~(k < i) /\ k # i
      BY <1>n, <2>2
    <3> QED
      BY <1>4, <1>8, <2>2, <3>1
  <2> QED
    BY <2>1, <2>2
<1> QED
  BY <1>8, <1>9 DEF p

LEMMA InsertedDistinct ==
  ASSUME NEW q \in Seq(FullRow), Distinct(q), NEW r \in FullRow, NEW i \in 1 .. Len(q) + 1,
         \A k \in 1 .. Len(q) : q[k] # r
  PROVE  LET p == Full!InsertAt(q, i, r)
         IN /\ Distinct(p)
            /\ \A k \in 1 .. Len(p) : p[k] = r \/ \E j \in 1 .. Len(q) : p[k] = q[j]
<1> DEFINE p == Full!InsertAt(q, i, r)
           From(k) == IF k < i THEN k ELSE k - 1
<1>1. /\ Len(p) = Len(q) + 1 /\ p[i] = r
      /\ \A k \in 1 .. Len(p) : k # i => From(k) \in 1 .. Len(q) /\ p[k] = q[From(k)]
  <2>1. /\ Len(p) = Len(q) + 1
        /\ \A k \in 1 .. Len(p) : p[k] = IF k < i THEN q[k] ELSE IF k = i THEN r ELSE q[k - 1]
    BY Inserted
  <2> HIDE DEF p
  <2> QED
    BY <2>1
<1> HIDE DEF p
<1>2. \A k, j \in 1 .. Len(p) : k # i /\ j # i /\ From(k) = From(j) => k = j
  BY <1>1
<1> HIDE DEF From
<1>3. Distinct(p)
  BY <1>1, <1>2 DEF Distinct
<1> QED
  BY <1>1, <1>3 DEF p

LEMMA OnceStep == OnceInv /\ [Full!Next]_fullVars => OnceInv'
<1> SUFFICES ASSUME OnceInv, [Full!Next]_fullVars
             PROVE  OnceInv'
  OBVIOUS
<1> USE DEF Full!At
<1>0. FullInv'
  BY FullStep DEF OnceInv
<1>types. /\ fullTable \in Seq(FullRow) /\ fullJob.rows \in Seq(FullRow)
          /\ Distinct(fullTable) /\ Distinct(fullJob.rows) /\ fullUnused \subseteq FullRow
          /\ \A i \in 1 .. Len(fullTable) : fullTable[i] \notin fullUnused
          /\ logged \in {Full!NotLogged} \cup 0 .. Cardinality(FullRow)
          /\ fullJob.pc \in {"idle", "getRows", "write", "upload"}
  BY DEF OnceInv, FullInv
<1>empty. Distinct(<<>>)
  BY DEF Distinct
<1>1. ASSUME NEW r \in FullRow, Full!Insert(r)
      PROVE  OnceInv'
  <2>1. PICK i \in 1..Len(fullTable) + 1 : fullTable' = Full!InsertAt(fullTable, i, r)
    BY <1>1 DEF Full!Insert
  <2>2. r \in fullUnused /\ fullUnused' = fullUnused \ {r} /\ UNCHANGED <<fullJob, logged>>
    BY <1>1 DEF Full!Insert
  <2>3. \A k \in 1 .. Len(fullTable) : fullTable[k] # r
    BY <1>types, <2>2
  <2>4. /\ Distinct(fullTable')
        /\ \A k \in 1 .. Len(fullTable') :
              fullTable'[k] = r \/ \E j \in 1 .. Len(fullTable) : fullTable'[k] = fullTable[j]
    BY <1>types, <2>1, <2>3, InsertedDistinct
  <2> QED
    BY <1>0, <1>types, <2>2, <2>4 DEF OnceInv
<1>2. CASE Full!Trim
  <2>1. PICK n \in 1..Len(fullTable) - FullMaxRetentionRows :
          fullTable' = SubSeq(fullTable, n + 1, Len(fullTable))
    BY <1>2 DEF Full!Trim
  <2>2. n + 1 \in Int /\ n + 1 >= 1 /\ Len(fullTable) \in Int
    BY <1>types
  <2>3. /\ Distinct(fullTable')
        /\ \A k \in 1 .. Len(fullTable') : \E j \in 1 .. Len(fullTable) : fullTable'[k] = fullTable[j]
    BY <1>types, <2>1, <2>2, PartOfDistinct
  <2>4. UNCHANGED <<fullUnused, fullJob, logged>>
    BY <1>2 DEF Full!Trim
  <2> QED
    BY <1>0, <1>types, <2>3, <2>4 DEF OnceInv
\* A step of the backup run.
<1>run. ASSUME UNCHANGED <<fullTable, fullUnused>>, Distinct(fullJob'.rows),
               fullJob'.pc \in {"idle", "getRows", "write", "upload"},
               logged' \in {Full!NotLogged} \cup 0 .. Cardinality(FullRow)
        PROVE  OnceInv'
  BY <1>run, <1>0, <1>types DEF OnceInv
<1>3. CASE Full!Start
  BY <1>3, <1>types, <1>empty, <1>run DEF Full!Start, Full!Idle
<1>4. CASE Full!GetAllRows
  <2>1. PICK n \in 0..Len(fullTable) :
          fullJob' = [pc |-> "write", rows |-> SubSeq(fullTable, 1, n)]
    BY <1>4 DEF Full!GetAllRows
  <2>2. Distinct(SubSeq(fullTable, 1, n))
    BY <1>types, PartOfDistinct
  <2> QED
    BY <1>4, <1>types, <1>run, <2>1, <2>2 DEF Full!GetAllRows
<1>5. CASE Full!WriteBackupFile
  <2>1. /\ fullJob'.pc = "upload" /\ fullJob'.rows = fullJob.rows
        /\ UNCHANGED <<fullTable, fullUnused, logged>>
    BY <1>5, <1>0, <1>types DEF Full!WriteBackupFile
  <2> QED
    BY <1>types, <1>run, <2>1
<1>6. CASE Full!Upload
  <2>1. /\ fullJob'.pc = "idle" /\ fullJob'.rows = fullJob.rows
        /\ logged' = Len(fullJob.rows) /\ UNCHANGED <<fullTable, fullUnused>>
    BY <1>6 DEF Full!Upload
  <2>2. Len(fullJob.rows) <= Cardinality(FullRow) /\ Len(fullJob.rows) \in Nat
        /\ Cardinality(FullRow) \in Nat
    BY <1>types, NoMoreThanRows, JobsAssumption, FS_CardinalityType
  <2> QED
    BY <1>types, <1>run, <2>1, <2>2
<1>7. CASE Full!Fail \/ Full!Restart
  <2>1. /\ fullJob'.pc = "idle" /\ fullJob'.rows = <<>> /\ logged' \in {logged, Full!NotLogged}
        /\ UNCHANGED <<fullTable, fullUnused>>
    BY <1>7 DEF Full!Fail, Full!Restart, Full!Idle
  <2> QED
    BY <1>types, <1>empty, <1>run, <2>1
<1>8. CASE UNCHANGED fullVars
  BY <1>8, <1>0, <1>types DEF fullVars, OnceInv
<1> QED
  BY <1>1, <1>2, <1>3, <1>4, <1>5, <1>6, <1>7, <1>8 DEF Full!Next

\* The types of both jobs, for any rows, timestamps and maxima: no message of the
\* full backup counts more rows than were ever reported, because none is read
\* twice (server.go:230-305).
THEOREM TypesCorrect == JobsSpec => []JobsTypeOK
<1>1. JobsInit => TypeOK /\ OnceInv
  <2>1. JobsInit => Init
    BY DEF JobsInit
  <2>2. JobsInit => OnceInv
    BY InitFull DEF JobsInit, Full!Init, Full!Idle, OnceInv, Distinct
  <2> QED
    BY <2>1, <2>2, InitType
<1>2. TypeOK /\ OnceInv /\ [JobsNext]_jobsVars => TypeOK' /\ OnceInv'
  <2>1. [JobsNext]_jobsVars => [Next]_vars
    BY DEF JobsNext, jobsVars
  <2> QED
    BY <2>1, TypeStep, OnceStep, FullPart
<1>3. TypeOK /\ OnceInv => JobsTypeOK
  <2>1. FullInv => /\ fullTable \in Seq(FullRow) /\ fullTmp \in Seq(FullRow)
                   /\ fullS3 \in Seq(FullRow) /\ fullJob.rows \in Seq(FullRow)
    BY DEF FullInv
  <2>2. Full!Cardinality(FullRow) = Cardinality(FullRow)
    BY DEF Cardinality, Full!Cardinality, IsFiniteSet, Full!IsFiniteSet
  <2> QED
    BY <2>1, <2>2 DEF OnceInv, JobsTypeOK, Full!TypeOK
<1> QED
  BY <1>1, <1>2, <1>3, PTL DEF JobsSpec
=============================================================================
