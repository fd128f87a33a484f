CONSTANTS
  p1 = p1
  p2 = p2
  Procs <- MCTwoProcs
  INIT_PROC = p1
  Paths <- MCAll
  DOT <- MCDot
  Ttys <- MCTtys
  TAR <- MCTar
  MAX_FILENAME_LEN = 4
  NrFiles = 2
  NrFileDesc = 2
  NrInode = 3
  ROOT_DEV = ROOT_DEV
  NO_DEV = NO_DEV
  NR_SUPER_BLOCK = 2
  DevSects = 39
  BitsPerByte = 4
  BitsPerSect = 20
  InodesPerSect = 20
  TtyDev = 16
  NR_DEFAULT_FILE_SECTS = 8
  INSTALL_START_SECT = 22
  INSTALL_NR_SECTS = 8
  NR_SECTS_FOR_LOG = 8
  BlockEntries = 8
  MaxDir = 5
  MaxCnt = 2
  MaxNum = 5
  NIL = NIL
SPECIFICATION Spec
INVARIANTS UsersCounted CacheCoherent MapsMatchInodes FilesOnDisk GraphHangsTogether
CHECK_DEADLOCK FALSE
