\* Every habit but recvFirst: a test that only sends.
CONSTANTS
  MaxStreams = 3
  NumThreads = 3
  MaxFd = 3
  MaxId = 3
  MaxBatch = 2
  Profiles <- TestProfiles
  Habits = {"patient", "unhurried", "quiet", "ordered", "oneSend"}
  Prompt = TRUE
  Disturbed = FALSE
SPECIFICATION Spec
PROPERTIES
  OneResponse
CHECK_DEADLOCK FALSE
