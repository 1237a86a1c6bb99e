SPECIFICATION FairSpec
CONSTANTS
  bounty = bounty
  flow = flow
  Tasks = {bounty}
  Workflows = {}
  Repeating = {bounty}
  Target = 2
  NoRequest = NoRequest
  MaxRuns = 2
  MaxStops = 1
  MaxCrashes = 0
PROPERTY StoppedSessionEnds
CHECK_DEADLOCK FALSE
