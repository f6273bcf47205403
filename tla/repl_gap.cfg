SPECIFICATION Spec
CONSTANTS
  SegmentSize = 4
  BatchSizes <- OneOrTwo
  Terms <- OneTerm
  FlushThreshold = 3
  BreakerLimit = 2
  MaxWire = 2
  MaxBatches = 3
  MaxTruncates = 0
  MaxFaults = 0
  MaxCrashes = 0
  MaxErrors = 0
INVARIANT NothingSkipped
CHECK_DEADLOCK FALSE
