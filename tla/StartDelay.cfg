\* Every habit, and a sender that starts later than another.
CONSTANTS
  MaxStreams = 3
  NumThreads = 3
  MaxFd = 3
  MaxId = 3
  MaxBatch = 2
  Profiles <- DelayedProfiles
  Habits = {"patient", "unhurried", "quiet", "ordered", "recvFirst", "oneSend"}
  Prompt = TRUE
  Disturbed = FALSE
SPECIFICATION Spec
PROPERTIES
  ReportComplete
CHECK_DEADLOCK FALSE
