CONSTANTS
  SERIAL_COOLDOWN = 10
  SECTOR = 3
  SIZE_T = 1024
  MaxTyped = 2
  MayEnd = TRUE
  MayInterrupt = FALSE
  Disks <- MCDisks
  Programs <- MCPrograms
  InputBytes = {65, 66}
  WildBytes = {99}
SPECIFICATION FairSpec
INVARIANTS PrintsSector TellsCard OffersLatest
PROPERTIES NoOverrun ForegroundRuns
CHECK_DEADLOCK FALSE
