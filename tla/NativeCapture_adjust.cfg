SPECIFICATION Spec
CONSTANTS
  Block = 4
  Request = 10
  ZeroGain = FALSE
  Callers = {"service", "native"}
  MaxRuns = 2
INVARIANTS
  TypeOK
  NeverTooLong
  UndisturbedIsWhole
CHECK_DEADLOCK FALSE
PROPERTY CaptureEnds
