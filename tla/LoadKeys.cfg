SPECIFICATION Spec
CONSTANTS
  Modes <- LoadModes
  Cuts = {}
  Global = "global"
  Default = "default"
  Keys <- LoadKeys
  KeyInfo <- LoadKeyInfo
  Calls <- LoadCalls
  Program <- LoadProgram
  Options <- LoadOptions
  RehandleDepthMax = 3
  ModestackSize = 4
  RepeatRange = 8
  EffectCap = 2
  NoKey = NoKey
  NoCall = NoCall
  NoNode = NoNode
CHECK_DEADLOCK FALSE
INVARIANTS
  OnlyNestedLoadsCrash
  LexerIsFreed
  ConfKeepsMode
PROPERTIES
  EveryKeyIsHandled
