SPECIFICATION Spec
CONSTANTS
  Requests = {r1, r2, r3}
  Services = {llm, ocr}
  UnknownService = other
  NoRequest = none
  MaxRecords = 2
  MaxQueueWait = 2
  ActiveTimeout = 1
  TerminalRetention = 1
  QueueBound = 3
  MaxEpoch = 1
SYMMETRY RequestSymmetry
INVARIANTS TypeOK SingleOwner OwnerIsRecorded OwnerMovesOn QueuedIsReachable RegistryIsBounded
PROPERTIES EndedIsFinal CancelBeatsStart NoLateStart NoOvertaking DegradedGrantsNothing ImplementsLease
CHECK_DEADLOCK FALSE
