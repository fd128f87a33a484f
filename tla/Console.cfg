CONSTANTS
  NR_CONSOLES = 2
  SCR_WIDTH = 2
  ScrLines = 2
  ConLines = 3
  Spare = 1
  BootLines = 1
  Printed <- MCPrinted
  MaxHit = 1
  MaxAstray = 1
SPECIFICATION MCSpec
INVARIANTS ScreenShowsCurrent WritesStayInConsole
PROPERTIES OutCharEnds
CHECK_DEADLOCK FALSE
