------------------------------- MODULE MCJobs -------------------------------
(* Jobs with the values TLC checks it for. *)
EXTENDS Jobs, TLC

CONSTANTS r1, r2, r3, r4, r5, q1, q2, q3, q4

MCRow == {r1, r2, r3, r4, r5}
MCStamp == {1, 2, 3}
MCFullRow == {q1, q2, q3, q4}
RowSymmetry == Permutations(MCRow)
=============================================================================
