SPECIFICATION FairSpec
CONSTANTS
  Requests = {r1, r2}
  Starters = {a}
  Stoppers = {s}
  Units = 1
  MaxGenerations = 2
  MaxRuns = 2
  NoRequest = NoRequest
  Free = Free
INVARIANTS
  TypeOK
  LeaseHeldUntilQuiescent
  VerdictIsTrue
  RunIsAccounted
PROPERTIES
  NextSessionOnlyFromSettled
  RequestRunsOnce
  ImplementsContract
  StopEndsRun
CHECK_DEADLOCK TRUE
