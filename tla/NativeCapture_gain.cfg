SPECIFICATION Spec
CONSTANTS
  Block = 4
  Request = 10
  ZeroGain = FALSE
  Callers = {"service"}
  MaxRuns = 1
INVARIANT GainIsReduced
CHECK_DEADLOCK FALSE
