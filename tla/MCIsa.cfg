CONSTANTS
  Lines <- LiveLines
  Origins <- MCOrigins
  Starts <- MCStarts
SPECIFICATION Spec
INVARIANTS DecodesAsWritten CarryChains JumpArrives CallReturns MacrosKeepRest
CHECK_DEADLOCK FALSE
