CONSTANTS
  p1 = p1
  p2 = p2
  Procs <- MCOneProc
  INIT_PROC = p1
  Paths <- MCFiles
  DOT <- MCDot
  Ttys <- MCTtys
  TAR <- MCTar
  MAX_FILENAME_LEN = 4
  NrFiles = 1
  NrFileDesc = 1
  NrInode = 4
  ROOT_DEV = ROOT_DEV
  NO_DEV = NO_DEV
  NR_SUPER_BLOCK = 2
  DevSects = 48
  BitsPerByte = 4
  BitsPerSect = 20
  InodesPerSect = 20
  TtyDev = 16
  NR_DEFAULT_FILE_SECTS = 8
  INSTALL_START_SECT = 31
  INSTALL_NR_SECTS = 8
  NR_SECTS_FOR_LOG = 8
  BlockEntries = 8
  MaxDir = 6
  MaxCnt = 2
  MaxNum = 6
  NIL = NIL
SPECIFICATION Spec
PROPERTY UnlinkKeepsOthers
CHECK_DEADLOCK FALSE
