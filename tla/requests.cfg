SPECIFICATION Spec
CONSTANTS
  Requests <- ContendedNames
  Sent <- Contended
  Unary <- Calls
  call = call
  retry = retry
  batch = batch
  QueueSize = 2
  MaxSize = 1
  TTL = 1
  MaxNow = 1
  MaxCancels = 1
  MaxWalErrors = 1
  MayClose = TRUE
SYMMETRY Interchangeable
CHECK_DEADLOCK FALSE
INVARIANTS  KeyOnce SameAnswer NothingLost
PROPERTY KeysSettled
