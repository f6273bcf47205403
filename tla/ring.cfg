CONSTANTS
  p1 = p1
  p2 = p2
  Producers = {p1, p2}
  Cap = 2
  MaxBatch = 2
  MaxSubmits = 2
SPECIFICATION FairSpec
INVARIANTS NoSlotRace NoLostWakeup
PROPERTIES ImplementsFifo ClaimedIsDrained
CHECK_DEADLOCK FALSE
