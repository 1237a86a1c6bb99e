SPECIFICATION Spec
CONSTANTS
  VpnRequired = FALSE
  MaxTroubles = 2
  MaxSessions = 2
  MaxGeneration = 4
INVARIANT RestartReportsAreTrue
CHECK_DEADLOCK FALSE
