\* Every habit but quiet: a test that starts while a receiver of the last one leaves.
CONSTANTS
  MaxStreams = 3
  NumThreads = 3
  MaxFd = 3
  MaxId = 4
  MaxBatch = 2
  Profiles <- TestProfiles
  Habits = {"patient", "unhurried", "ordered", "recvFirst", "oneSend"}
  Prompt = TRUE
  Disturbed = FALSE
SPECIFICATION Spec
PROPERTIES
  StartsDelivered
CHECK_DEADLOCK FALSE
