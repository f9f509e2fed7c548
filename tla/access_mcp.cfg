SPECIFICATION Spec
CONSTANTS
  Process = {server, mcp}
  Server = server
  Credential = {k1, k2}
  NoCredential = none
  MaxClock = 2
  MaxVersion = 3
  MaxUses = 2
  Crashes = FALSE
SYMMETRY AnyCredential
PROPERTIES StopTakesEffect
CHECK_DEADLOCK FALSE
