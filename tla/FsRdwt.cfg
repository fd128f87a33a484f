CONSTANTS
  NR_PART_PER_DRIVE = 2
  NR_SUB_PER_PART = 3
  MINOR_hd1a = 8
  Disks <- MCDisks
  MaxCount = 2
  SECTOR_SIZE = 2
  FsBufSects = 2
  MAX_TICKS = 5
  Word = 64
  Ms = 10
  HZ = 1
  HD_TIMEOUT = 20
  MaxWait = 3
  ROOT_DEV = 11
  Fds <- MCFds
  RdwrFds <- MCRdwrFds
  StartSect = 2
  NrSects = 3
  InodeSect = 1
  Size0 = 3
  Lengths <- MCLengths
  MaxOps = 2
SPECIFICATION FairSpec
INVARIANTS InterruptsMatched PartitionsRead PanicsOnlyLate TransfersExact
PROPERTIES RequestsEnd
CHECK_DEADLOCK FALSE
