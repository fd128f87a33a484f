CONSTANTS
  u1 = u1
  u2 = u2
  Users <- MCTwoUsers
  Counts <- MCCounts
  Pressed <- MCPressed
  KbBytes = 2
  TtyBytes = 2
  NO_TASK = NO_TASK
  TASK_TTY = TASK_TTY
SPECIFICATION FairSpec
INVARIANTS AnswersExpected LineAddsUp
PROPERTIES WriteAnswered KeysFetched
CHECK_DEADLOCK FALSE
