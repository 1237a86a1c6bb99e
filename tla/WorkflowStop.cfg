SPECIFICATION Spec
CONSTANTS
  bounty = bounty
  flow = flow
  Tasks = {}
  Workflows = {flow}
  Repeating = {}
  Target = 2
  NoRequest = NoRequest
  MaxRuns = 2
  MaxStops = 1
  MaxCrashes = 0
INVARIANT StopReachesWorkflows
CHECK_DEADLOCK FALSE
