SPECIFICATION Spec
CONSTANTS
  SegmentSize = 3
  BatchSizes <- OneOrTwo
  MaxAppends = 4
  MaxSnapshots = 0
  MaxCrashes = 2
  MaxErrors = 0
CHECK_DEADLOCK FALSE
INVARIANT AckedBatchesRecovered
