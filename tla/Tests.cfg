\* A test manager with every habit: receive, send, stop, start over.
CONSTANTS
  MaxStreams = 3
  NumThreads = 3
  MaxFd = 3
  MaxId = 5
  MaxBatch = 2
  Profiles <- TestProfiles
  Habits = {"patient", "unhurried", "quiet", "ordered", "recvFirst", "oneSend"}
  Prompt = TRUE
  Disturbed = FALSE
SPECIFICATION Spec
INVARIANTS
  NoFault
  SocketsOwned
  MainLoopListens
PROPERTIES
  StartsDelivered
  OneResponse
  ReportComplete
CHECK_DEADLOCK FALSE
