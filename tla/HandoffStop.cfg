SPECIFICATION Spec
CONSTANTS
  bounty = bounty
  flow = flow
  Tasks = {bounty}
  Workflows = {}
  Repeating = {}
  Target = 2
  NoRequest = NoRequest
  MaxRuns = 2
  MaxStops = 1
  MaxCrashes = 0
PROPERTY SessionEndsItsHandoff
CHECK_DEADLOCK FALSE
