CONSTANTS
  Sizes <- MCSizes
  MaxCalls = 4
  Signedness = {TRUE}
SPECIFICATION Spec
PROPERTIES WholeAgain
CHECK_DEADLOCK FALSE
