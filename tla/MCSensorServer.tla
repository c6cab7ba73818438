--------------------------- MODULE MCSensorServer ---------------------------
(* SensorServer with the values TLC checks it for. *)
EXTENDS SensorServer, TLC

CONSTANTS garage, t1, t2

MCOneSensor == {garage}
MCTwoTimers == {t1, t2}
MCDoorReports == {"OPEN", "CLOSED"}
MCAllReports == {"OPEN", "CLOSED", "UNKNOWN"}
MCNoFaults == {}
MCStoreFaults == {"redis", "ha", "ntfy", "postgres"}

MCAllButRestart == {"repeat", "lapse", "arm"}
MCRepeats == {"repeat"}
MCAllButArm == {"repeat", "lapse", "restart"}

TimerSymmetry == Permutations(Timer)
=============================================================================
