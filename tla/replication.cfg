SPECIFICATION Spec
CONSTANTS
  SegmentSize = 4
  BatchSizes <- OneOrThree
  Terms <- TwoTerms
  FlushThreshold = 2
  BreakerLimit = 2
  MaxWire = 1
  MaxBatches = 3
  MaxTruncates = 1
  MaxFaults = 1
  MaxCrashes = 1
  MaxErrors = 1
INVARIANTS NeverAhead ExactHistory 
CHECK_DEADLOCK FALSE
