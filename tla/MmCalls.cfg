CONSTANTS
  First = 5
  Last = 7
  Statuses <- MCStatuses
  NO_TASK = NO_TASK
  SplitUpdates = FALSE
SPECIFICATION FairSpec
 
PROPERTIES ReapsOwnChild  
CHECK_DEADLOCK FALSE
