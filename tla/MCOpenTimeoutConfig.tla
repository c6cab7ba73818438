------------------------- MODULE MCOpenTimeoutConfig -------------------------
(* OpenTimeoutConfig with the values TLC checks it for. *)
EXTENDS OpenTimeoutConfig

CONSTANTS garage, shed, q1, q2, q3

MCSource == {garage, shed}
MCTwoRequests == {q1, q2}
MCThreeRequests == {q1, q2, q3}
MCMinutes == {0, 1, 60, 61}
=============================================================================
