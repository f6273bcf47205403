CONSTANTS
  Node = {a, b, c}
  First = a
  MaxPromotions = 1
  MaxCrashes = 1
  MaxErrors = 0
SPECIFICATION Spec
INVARIANT NoStaleFeed
CHECK_DEADLOCK FALSE
