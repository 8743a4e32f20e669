SPECIFICATION Spec
CONSTANTS
  Bodies <- MCBodies
  Words = {"a", "b"}
  FunctionCalls = {"f", "g"}
  Reasons = {"length", "stop"}
  Missing = missing
  Invalid = invalid
INVARIANTS RoundTrip
CHECK_DEADLOCK FALSE
