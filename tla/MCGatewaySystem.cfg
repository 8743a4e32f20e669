SPECIFICATION GatewaySpec
CONSTANTS
  Requests = {r1, r2}
  Services = {llm}
  UnknownService = other
  NoRequest = none
  ServiceOf <- MCServiceOf
  MaxRecords = 2
  MaxQueueWait = 1
  QueueWait = 1
  ActiveTimeout = 4
  TerminalRetention = 2
  QueueBound = 2
  MaxEpoch = 1
  MaxInflight = 2
  RequestTimeout = 1
  InferenceTimeout = 1
  CommandLifetime = 1
SYMMETRY RequestSymmetry
INVARIANTS GatewayTypeOK InferenceHoldsLease AcknowledgedCancelHolds ReleasedBeforeAnswer SlotsMatchTasks
PROPERTIES OnlyOwnCommandsEnd
CHECK_DEADLOCK FALSE
