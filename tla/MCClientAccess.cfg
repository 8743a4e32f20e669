SPECIFICATION Spec
CONSTANTS
  Keys = {k1}
  Capabilities = {llm, ocr}
  Requests = {r1, r2}
  NoCapability = nocap
  Unreadable = unreadable
  MaxChanges = 2
SYMMETRY AccessSymmetry
INVARIANTS TypeOK AdmittedIsAuthorized
CHECK_DEADLOCK FALSE
