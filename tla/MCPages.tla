------------------------------- MODULE MCPages -------------------------------
(* Pages with the values TLC checks it for. *)
EXTENDS Pages, TLC

CONSTANTS c1, c2, u1, u2, f1, f2, s1

MCConn == {c1, c2}
MCUpdater == {u1, u2}
MCStamp == {1, 2, 3}
MCSource == {s1}
MCFetch == {f1, f2}
PagesSymmetry ==
    Permutations(MCConn) \cup Permutations(MCUpdater) \cup Permutations(MCFetch)
=============================================================================
