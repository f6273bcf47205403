CONSTANTS
  Seeding = {TRUE, FALSE}
  Kept = 1
  MaxBatches = 3
  MaxCrashes = 1
  MaxFaults = 1
  MaxDamage = 1
SPECIFICATION FairSpec
INVARIANTS AppliedAtMostOnce NothingLost LSNsNotReused ReadyIsRetained
PROPERTIES SegmentsReclaimed CloseReturns
CHECK_DEADLOCK FALSE
