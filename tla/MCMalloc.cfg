CONSTANTS
  Sizes <- MCSizes
  MaxCalls = 5
  Signedness = {TRUE, FALSE}
SPECIFICATION Spec
INVARIANTS NoneOverlap LinksLead
PROPERTIES FirstFit
CHECK_DEADLOCK FALSE
