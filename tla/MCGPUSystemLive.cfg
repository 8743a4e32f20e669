SPECIFICATION FairSpec
CONSTANTS
  llm = llm
  ocr = ocr
  ai_llm = ai_llm
  ai_ocr_vlm = ai_ocr_vlm
  ai_ocr_api = ai_ocr_api
  Services = {llm, ocr}
  Components <- MCComponents
  Managed <- MCManaged
  HealthAttempts = 2
  Requests = {r1}
  UnknownService = other
  NoRequest = none
  MaxRecords = 2
  MaxQueueWait = 1
  ActiveTimeout = 1
  TerminalRetention = 1
  QueueBound = 2
  MaxEpoch = 1
  StartsOutliveProcess = FALSE
PROPERTIES ReconcileEnds OwnerLetsGo
CHECK_DEADLOCK FALSE
