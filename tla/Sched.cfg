CONSTANTS
  Last = 4
  Priority <- MCPriority
  Kept = {0}
  FS = 1
  MM = 2
  InitProc = 3
  Slots = {4}
  Garbage = {0}
  MaxDumps = 1
SPECIFICATION LogSpec
INVARIANTS PrioritiesRestored
PROPERTY RunnableRuns
