SPECIFICATION Spec
CONSTANTS
  Modes <- ChainModes
  Cuts = {"cut1", "cut2"}
  Global = "global"
  Default = "default"
  Keys <- ChainKeys
  KeyInfo <- ChainKeyInfo
  Calls <- ChainCalls
  Program <- ChainProgram
  Options <- ChainOptions
  RehandleDepthMax = 3
  ModestackSize = 4
  RepeatRange = 8
  EffectCap = 2
  NoKey = NoKey
  NoCall = NoCall
  NoNode = NoNode
CHECK_DEADLOCK FALSE
INVARIANTS
  BrokenChainIsPassed
