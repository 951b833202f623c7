CONSTANTS
  StackTop = 64
  SERIAL_COOLDOWN = 10
  SECTOR = 2
  SIZE_T = 1024
  MaxTyped = 2
  MayEnd = FALSE
  MayInterrupt = FALSE
  Disks <- MCDisks
  Programs <- MCPrograms
  InputBytes = {65}
  WildBytes = {0}
SPECIFICATION FairSpec
INVARIANTS ComputesAlone CopiesData FrameKept
PROPERTIES HandlerInvisible Finishes
CHECK_DEADLOCK FALSE
