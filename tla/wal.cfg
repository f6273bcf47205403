SPECIFICATION Spec
CONSTANTS
  SegmentSize = 3
  BatchSizes <- OneOrTwo
  MaxAppends = 4
  MaxSnapshots = 2
  MaxCrashes = 2
  MaxErrors = 1
CHECK_DEADLOCK FALSE
INVARIANTS TypeOK RecoveryExact LSNsIncrease AuditAccepts
PROPERTY AckedStaysOnDisk
