SPECIFICATION Spec
CONSTANTS
  Sensors = {s1, s2}
  Tires = {1}
  Times = {9, 12}
  Psis = {80, 950}
  PsiLimit = 950
  Ahead = 1
  Start = 10
  Stop = 11
  Workers = {w1}
  MaxOld = 1
  MaxRequests = 2
  Spans = {1, 3}
  DefaultSpan = 4
  Marks = {90}
  Nominals = {0, 10}
INVARIANT
  LastIsNewest
CHECK_DEADLOCK FALSE
