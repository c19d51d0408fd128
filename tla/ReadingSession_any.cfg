SPECIFICATION Spec
CONSTANTS
  MaxJobs = 2
  MaxActs = 2
  MaxTries = 3
  UserActs = {"stop", "rotate", "leave", "cancel"}
INVARIANTS
  TypeOK
  ReadingsAreFresh
  RunningIsAccountedFor
PROPERTY
  JobsEnd
CHECK_DEADLOCK FALSE
