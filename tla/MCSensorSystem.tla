--------------------------- MODULE MCSensorSystem ---------------------------
(* SensorSystem with the values TLC checks it for. *)
EXTENDS SensorSystem, TLC

CONSTANTS garage, t1, t2

MCSensor == {garage}
MCTimer == {t1, t2}
MCMisfortune == {"file", "publish", "link", "exit"}
MCServerEvents == {"restart"}
MCNoFaults == {}
TimerSymmetry == Permutations(MCTimer)
=============================================================================
