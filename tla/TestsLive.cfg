\* A test manager with every habit: receive, send, stop, start over.
CONSTANTS
  MaxStreams = 3
  NumThreads = 3
  MaxFd = 3
  MaxId = 3
  MaxBatch = 2
  Profiles <- EchoProfiles
  Habits = {"patient", "unhurried", "quiet", "ordered", "recvFirst", "oneSend"}
  Prompt = TRUE
  Disturbed = TRUE
SPECIFICATION FairSpec
PROPERTIES
  SendAnswered
  RecvStopAnswered
  ReceiversLeave
CHECK_DEADLOCK FALSE
