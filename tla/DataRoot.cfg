SPECIFICATION Spec
CONSTANTS
  Revisions = {v1, v2}
  None = None
  MaxSlots = 3
  MaxRuns = 3
  MaxTransactions = 2
SYMMETRY Symmetry
CHECK_DEADLOCK FALSE
INVARIANTS
  TypeOK
  PackagesAreKept
  SlotStaysUsable
  ServiceSeesWholePublication
  JournalIsEnough
