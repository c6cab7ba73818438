----------------------------- MODULE MCPrograms -----------------------------
(* Programs with the values TLC checks it for. *)
EXTENDS Programs

CONSTANTS p1, p2, cert, privkey, l1, l2, garage

MCProcess == {p1, p2}
MCFile == {cert, privkey}
MCLine == {l1, l2}
MCLimit == <<1, 2, 2>>
MCPeriod == <<1, 2, 4>>
MCNeeded == {2, 3}
MCSensor == {garage}
MCMisfortune == {"file", "publish", "link", "exit"}
=============================================================================
