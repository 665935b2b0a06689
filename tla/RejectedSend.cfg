\* A Send for a stream that was never configured.
CONSTANTS
  Asked <- RejectedKinds
  MaxCrashes = 0
  Deadline = FALSE
SPECIFICATION Spec
PROPERTIES
  RejectionReported
CHECK_DEADLOCK FALSE
