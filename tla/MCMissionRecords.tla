--------------------------- MODULE MCMissionRecords ---------------------------
EXTENDS MissionRecords, TLC

CONSTANTS c1, c2

AnyTab == Permutations({c1, c2})
FailuresAndCrashes == {"io", "crash"}
=============================================================================
