SPECIFICATION Spec
CONSTANTS
  menu = menu
  skill = skill
  pay = pay
  wheel = wheel
  Inputs = {menu, skill, pay, wheel}
  Retryable = {menu, pay, wheel}
  Effects = {pay, wheel}
  Routed = {wheel}
  Protected = {skill}
  Discardable = {skill}
  Limit <- Submissions
  Events = {story}
  Replans = {story, restart}
  Restart = restart
  NoEvent = NoEvent
  MaxDepth = 3
  MaxSends = 2
  MaxAttempts = 2
INVARIANTS
  TypeOK
  ReceiptsAreKept
  RestartsAreHandled
PROPERTIES
  GivenUpIsRepeatable
  ImplementsLedger
CHECK_DEADLOCK FALSE
