CONSTANTS
  StackTop = 0
  SERIAL_COOLDOWN = 10
  SECTOR = 2
  SIZE_T = 1024
  MaxTyped = 2
  MayEnd = FALSE
  MayInterrupt = FALSE
  Disks <- MCDisks
  Programs <- JustMemcpy
  InputBytes = {65}
  WildBytes = {0}
SPECIFICATION Spec
INVARIANT FrameKept
CHECK_DEADLOCK FALSE
