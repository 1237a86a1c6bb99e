SPECIFICATION FairSpec
CONSTANTS
  VpnRequired = TRUE
  MaxTroubles = 2
  MaxSessions = 2
  MaxGeneration = 4
INVARIANTS TypeOK CommandsFollowObservations
PROPERTIES StartedGameIsNotStopped ReadyMeansReady RecoveryEnds
CHECK_DEADLOCK FALSE
