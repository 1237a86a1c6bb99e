SPECIFICATION FairSpec
CONSTANTS
  one = one
  two = two
  other = other
  session = session
  preview = preview
  Leaves = {one, two, other}
  Services = {session, preview}
  ServiceOf <- Threads
  Target = 2
  SizeOf <- Sizes
  DecodeSize = 1
INVARIANTS BudgetKept SomebodyGoesOn
PROPERTIES HeldTicketReturns StopFreesRecognition
CHECK_DEADLOCK FALSE
