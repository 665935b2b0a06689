CONSTANTS
  MaxStarts = 2
  MaxHello = 1
  MaxStops = 1
  MaxRetry = 1
  Cyclic = 2
  Tests <- TwoTests
  MaxDisturbed = 1
SPECIFICATION Spec
INVARIANTS TypeOK RowsKept FramesDue StartHeard OneSender PowerStaysOff
PROPERTIES TestEnds SenderQuits
CHECK_DEADLOCK FALSE
