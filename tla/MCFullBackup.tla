---------------------------- MODULE MCFullBackup ----------------------------
(* FullBackup with the values TLC checks it for. *)
EXTENDS FullBackup, TLC

CONSTANTS r1, r2, r3, r4

MCRow == {r1, r2, r3, r4}
RowSymmetry == Permutations(MCRow)
=============================================================================
