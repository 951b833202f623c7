CONSTANTS
  SECTOR = 2
  SIZE_T = 1024
  MaxData = 5
  MayReadNone = FALSE
  WildBytes = {99}
  Disks <- MCDisks
  SectorCounts = {1, 2}
  Addresses = {0, 1, 2}
  Modes = {160, 224}
  Features = {1, 129, 7}
  Commands = {32, 236, 239, 145}
SPECIFICATION Spec
INVARIANTS StaysInBuffer DrqMeansData AnswersProbe
PROPERTIES DeliversSectors
CHECK_DEADLOCK FALSE
