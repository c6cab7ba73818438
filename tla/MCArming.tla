------------------------------- MODULE MCArming -------------------------------
(* Arming with the values TLC checks it for. *)
EXTENDS Arming, TLC

CONSTANTS garage, shed, q1, q2, q3

MCSensor == {garage, shed}
MCThreeRequests == {q1, q2, q3}
MCAllFaults == {"redis", "ha"}
MCText == {"", "true", "false"}   \* no code tells "true" from another string
ArmingSymmetry == Permutations(MCThreeRequests) \cup Permutations(MCSensor)
===============================================================================
