SPECIFICATION FairSpec
CONSTANTS
  None = None
  MaxIds = 2
  MaxPresses = 2
  MaxStops = 1
  MaxInstances = 2
INVARIANTS
  WishRunsOnce
  OffersAreCurrent
PROPERTIES
  RestIsOffered
CHECK_DEADLOCK FALSE
