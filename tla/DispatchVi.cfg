SPECIFICATION Spec
CONSTANTS
  Modes <- ViModes
  Cuts = {}
  Global = "global"
  Default = "default"
  Keys <- ViKeys
  KeyInfo <- ViKeyInfo
  Calls <- ViCalls
  Program <- ViProgram
  Options <- ViOptions
  RehandleDepthMax = 10
  ModestackSize = 4
  RepeatRange = 16
  EffectCap = 16
  NoKey = NoKey
  NoCall = NoCall
  NoNode = NoNode
INVARIANTS
  TypeOK
  KeysDoAsConfigured
  ChainBreakersActOnce
  CountIsConfined
  NestingIsBounded
PROPERTIES
  EveryKeyIsHandled
