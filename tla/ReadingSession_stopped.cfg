SPECIFICATION Spec
CONSTANTS
  MaxJobs = 2
  MaxActs = 2
  MaxTries = 3
  UserActs = {"stop", "rotate", "leave", "cancel"}
INVARIANT StoppedMeansStopped
CHECK_DEADLOCK FALSE
