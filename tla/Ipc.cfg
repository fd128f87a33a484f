CONSTANTS
  u1 = u1
  u2 = u2
  tty = tty
  hd = hd
  x1 = x1
  Procs <- MCFour
  IrqTasks <- MCIrqTasks
  Data <- MCOneData
  ANY = ANY
  INTERRUPT = INTERRUPT
  HARD_INT = HARD_INT
  NO_TASK = NO_TASK
SPECIFICATION Spec
SYMMETRY Symmetry
INVARIANTS QueuesHoldSenders NoMissedRendezvous NoSendCycle
PROPERTIES ImplementsRendezvous QueueOrderKept
CHECK_DEADLOCK FALSE
