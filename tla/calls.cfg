SPECIFICATION FairSpec
CONSTANTS
  Reads <- AllReads
  Kinds <- AllKinds
  Kind <- Kinded
  Target <- Targets
  Creates <- BothCreates
  Batch <- Twice
  FirstAccounts = {"a"}
  Transfers <- OneTransfer
  Channels = {1, 2, 3}
  QueueSize = 1
  Casts <- TwoCasts
  MaxCancels = 1
  MaxWalErrors = 1
CHECK_DEADLOCK FALSE
INVARIANTS OwnAnswers NeverBlocks ReadsFresh CreatedOnce
 
