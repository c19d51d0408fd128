SPECIFICATION Spec
CONSTANTS
  Phones = {p1, p2}
  MaxNames = 4
  Chunks = 1
  MaxTries = 2
  Faults = {"copy", "disk"}
INVARIANTS
  FilesAreNotMixed
PROPERTY
  OnlyOwnFileIsDeleted
CHECK_DEADLOCK FALSE
