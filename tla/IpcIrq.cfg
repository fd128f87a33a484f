CONSTANTS
  u1 = u1
  tty = tty
  hd = hd
  x1 = x1
  x2 = x2
  Procs <- MCProcs
  IrqTasks <- MCIrqTasks
  DiskTasks <- MCDiskTasks
  Data <- MCData
  ANY = ANY
  INTERRUPT = INTERRUPT
  HARD_INT = HARD_INT
  NO_TASK = NO_TASK
SPECIFICATION HistorySpec
INVARIANTS QueuesSurviveInterrupts ConsistentWhenBack DiskInterruptNotLost
PROPERTY ImplementsIpc
CHECK_DEADLOCK FALSE
