SPECIFICATION Spec
CONSTANTS
  bounty = bounty
  flow = flow
  Tasks = {bounty}
  Workflows = {flow}
  Repeating = {bounty}
  Target = 2
  NoRequest = NoRequest
  MaxRuns = 2
  MaxStops = 1
  MaxCrashes = 1
INVARIANTS
  TypeOK
  SessionOwnsItsRuns
PROPERTIES
  RequestsAreAccounted
  RepeatsAreEarned
CHECK_DEADLOCK FALSE
