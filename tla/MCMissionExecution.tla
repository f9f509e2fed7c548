------------------------- MODULE MCMissionExecution -------------------------
(* Instances of MissionExecution for TLC: the requests operators may make   *)
(* and the environments a run of the checker assumes.                       *)
EXTENDS MissionExecution

AllActions == {"pause", "cancel", "retry"}
StopActions == {"pause", "cancel"}

NoFaults == {}
CrashesAndFailures == {"crash", "io"}
Restarts == {"restart"}
=============================================================================
