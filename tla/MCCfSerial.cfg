CONSTANTS
  Used = {0, 2, 7}
  Values = {0, 135, 240}
  Stale <- MCStale
  AckGarbage = {0, 240}
  MaxAccesses = 3
  MayFail = TRUE
  MayInterrupt = TRUE
SPECIFICATION FairSpec
INVARIANT ListensFirst
PROPERTIES AccessesInOrder Proceeds
CHECK_DEADLOCK FALSE
