\* Programs that end at any point, twice in all, and a test manager that insists.
CONSTANTS
  Asked <- DeviceKinds
  MaxCrashes = 2
  Deadline = TRUE
SPECIFICATION InsistSpec
INVARIANTS
  TypeOK
PROPERTIES
  AnswersResume
CHECK_DEADLOCK FALSE
