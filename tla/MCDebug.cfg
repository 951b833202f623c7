CONSTANTS
  SERIAL_COOLDOWN = 1
  SECTOR = 2
  SIZE_T = 1024
  MaxTyped = 0
  MaxLines = 2
  MayEnd = TRUE
  MayInterrupt = TRUE
  Disks <- MCDisks
  Programs <- MCPrograms
  InputBytes = {65}
  WildBytes = {0}
  Options <- MCOptions
  Lines <- MCLines
SPECIFICATION DebugSpec
INVARIANT CostsOneByte
PROPERTIES StopsForAReason PromptsApart MarkerAtPc
CHECK_DEADLOCK FALSE
