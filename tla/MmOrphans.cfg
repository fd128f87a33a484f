CONSTANTS
  First = 5
  Last = 8
  Statuses <- MCOneStatus
  NO_TASK = NO_TASK
  SplitUpdates = TRUE
SPECIFICATION Spec
INVARIANTS NoZombieMissed ParentsAlive FsKnowsLiving
CHECK_DEADLOCK FALSE
