\* What a write sends is more than the pty holds.
SPECIFICATION Spec
CONSTANTS
  Null = Null
  Main = "tkremap"
  Children = {"child", "other"}
  Configurations <- MCConfigurations
  MaxTyped = 1
  MaxAsked = 2
  Chunk = 2
  Attempts = 2
  MaxInput = 1
  MaxOutput = 1
  MaxSize = 1
CHECK_DEADLOCK FALSE
INVARIANT OneReaderOfTheTerminal
INVARIANT LoopFindsAllAsItWas
INVARIANT PtyIsAsLargeAsTheTerminal
 
PROPERTY CommandsReturn
