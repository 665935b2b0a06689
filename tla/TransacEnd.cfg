\* Every habit, and receivers of transactions next to timed senders.
CONSTANTS
  MaxStreams = 3
  NumThreads = 3
  MaxFd = 3
  MaxId = 3
  MaxBatch = 2
  Profiles <- TransacProfiles
  Habits = {"patient", "unhurried", "quiet", "ordered", "recvFirst", "oneSend"}
  Prompt = TRUE
  Disturbed = FALSE
SPECIFICATION Spec
INVARIANTS
  MainLoopListens
CHECK_DEADLOCK FALSE
