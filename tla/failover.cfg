CONSTANTS
  Node = {a, b, c}
  First = a
  MaxPromotions = 1
  MaxCrashes = 1
  MaxErrors = 1
SPECIFICATION FairSpec
INVARIANT StaleFenced
PROPERTIES PromotionReturns FindsPrimary
CHECK_DEADLOCK FALSE
