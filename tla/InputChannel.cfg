SPECIFICATION Spec
CONSTANTS
  Commands <- MCCommands
  MaxChannels = 2
  MaxGenerations = 3
  MaxWaiting = 1
  MaxSessions = 2
  MaxFaults = 1
INVARIANTS
  TypeOK
  SentAsReported
  ContactsAreKnown
  OneAfterStop
  OpenDeliveryBlocks
