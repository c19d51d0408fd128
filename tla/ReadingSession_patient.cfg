SPECIFICATION Spec
CONSTANTS
  MaxJobs = 3
  MaxActs = 3
  MaxTries = 3
  UserActs = {}
INVARIANT CrashNeedsItsUserAct
PROPERTY PressIsAnswered
CHECK_DEADLOCK FALSE
