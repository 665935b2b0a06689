\* Any command at any time: no habit, sends that fail.
CONSTANTS
  MaxStreams = 2
  NumThreads = 2
  MaxFd = 1
  MaxId = 2
  MaxBatch = 1
  Profiles <- MixedProfiles
  Habits = {}
  Prompt = TRUE
  Disturbed = TRUE
SPECIFICATION Spec
INVARIANTS
  TypeOK
  NoLostWakeup
  TableIndexed
  RecordedIsSending
PROPERTIES
  IdsNeverRecycled
CHECK_DEADLOCK FALSE
