SPECIFICATION Spec
CONSTANTS
  Process = {server}
  Server = server
  Credential = {k1, k2}
  NoCredential = none
  MaxClock = 2
  MaxVersion = 3
  MaxUses = 2
  Crashes = TRUE
SYMMETRY AnyCredential
INVARIANTS TypeOK SessionsEnded ApprovalUsedOnce OneLiveCredential DeviceTokenOnce
PROPERTIES StopTakesEffect ApprovalIsFresh
CHECK_DEADLOCK FALSE
