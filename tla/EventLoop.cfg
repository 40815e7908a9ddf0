SPECIFICATION Spec
CONSTANTS
  Keys <- PressedKeys
  Bytes <- TerminalBytes
  Codes <- KeyCodes
  Decode <- TermkeyDecode
  Name <- KeyName
  Esc = "esc"
  Escape <- EscapeKey
  Del <- DelKey
  Backspace <- BackspaceKey
  Nul = "nul"
  InputBufferSize = 4
  MaxPending = 2
  MaxSequence = 3
  MaxOutput = 1
CHECK_DEADLOCK FALSE
INVARIANTS
  TypeOK
  InputIsSinceLastKey
PROPERTIES
  PipesBytes
  PipesKeys
  ExitShowsAllOutput
  KeysKeepMoving
  DeathIsNoticed
