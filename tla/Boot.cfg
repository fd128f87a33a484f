CONSTANTS
  BytsPerSec = 4
  SecPerTrk = 9
  RsvdSecCnt = 1
  FATSz = 5
  RootDirSectors = 2
  SectEntries = 2
  SegSize = 16
  FatGap = 8
  KERNEL_FILE_PHY_ADDR = 48
  LOADER_PHY_ADDR = 80
  LOADER_OFF = 2
  MemTop = 92
  Page = 2
  Low = 8
  Mid = 16
  Nib = 128
  Unit = 32
  Word = 64
  TableSpan = 4
  PROCS_BASE = 160
  PROC_IMAGE_SIZE_DEFAULT = 32
  INIT_PROC = INIT_PROC
  Children = {0, 1, 2}
  Machines <- MCMachines
  Archives <- MCArchives
  SECTOR_SIZE = 4
  ChunkSects = 2
  SizeDigits = 2
  NR_FILES = 4
  Special = {"dev_tty0", "cmd.tar"}
SPECIFICATION StartSpec
INVARIANTS KernelInPlace MemoryMapped
PROPERTIES StartEnds
CHECK_DEADLOCK FALSE
