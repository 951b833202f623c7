CONSTANTS
  SERIAL_COOLDOWN = 10
  SECTOR = 2
  SIZE_T = 1024
  MaxTyped = 3
  MayEnd = FALSE
  MayInterrupt = TRUE
  Disks <- MCDisks
  Programs <- MCPrograms
  InputBytes = {65, 66}
  WildBytes = {0}
SPECIFICATION FairSpec
INVARIANTS TypeOK IrqFollowsInput NoMissedInterrupt EchoInOrder
PROPERTIES FallsThrough SignalStops EchoesAll
CHECK_DEADLOCK FALSE
