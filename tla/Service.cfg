\* A test manager that waits for every answer, and programs that do not end.
CONSTANTS
  Asked <- AnsweredKinds
  MaxCrashes = 0
  Deadline = FALSE
SPECIFICATION FairSpec
INVARIANTS
  FramingKept
PROPERTIES
  ServiceProvided
CHECK_DEADLOCK FALSE
