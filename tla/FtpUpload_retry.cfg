SPECIFICATION Spec
CONSTANTS
  Phones = {p1}
  MaxNames = 3
  Chunks = 3
  MaxTries = 3
  Faults = {"copy", "line", "disk", "stall"}
INVARIANTS
  TypeOK
  ReadingIsOwnWholeCapture
  OnlyFirstAttemptReads
  FailedUploadLeavesNoFile
PROPERTIES
  UploadEnds
  KeepsPromise
CHECK_DEADLOCK FALSE
