CONSTANTS
  NR_CONSOLES = 2
  SCR_WIDTH = 2
  ScrLines = 2
  ConLines = 3
  Spare = 1
  BootLines = 1
  Printed = {}
  MaxHit = 0
  MaxAstray = 1
  KB_IN_BYTES = 4
  Keys <- MCKeys
  MaxTyped = 3
SPECIFICATION KbSpec
INVARIANTS KeysObeyed WaitsForTheKeyboard
CHECK_DEADLOCK FALSE
