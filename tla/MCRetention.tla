----------------------------- MODULE MCRetention -----------------------------
(* Retention with the values TLC checks it for. *)
EXTENDS Retention, TLC

CONSTANTS r1, r2, r3, r4, r5

MCRow == {r1, r2, r3, r4, r5}
MCStamp == {1, 2, 3}
RowSymmetry == Permutations(MCRow)
=============================================================================
