CONSTANTS
  Base = 3
  Radix = 2
  IntHalf = 16
  FirstAccounts <- AllAccounts
  AccountBatches <- NoAccounts
  Batches <- BatchRun
  MaxTime = 7
  MaxCrashes = 0
  MaxWalErrors = 0
  ClockSteps <- Forward
SPECIFICATION Spec
INVARIANTS WordArithmetic AppliedAsStaged LinkedChainsAtomic HoldsBacked Solvent RejectionsReported
PROPERTY Conservation
CHECK_DEADLOCK FALSE
