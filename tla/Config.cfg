\* Configurations of up to two statements.
SPECIFICATION Spec
CONSTANTS
  Null = Null
  Nothing = Nothing
  NoKey = NoKey
  SymNames <- MCSymNames
  Terminfo <- MCTerminfo
  Files <- MCFiles
  CallResults <- MCCallResults
  MaxArgs = 4
  MaxKeys = 3
  MaxCommands = 6
  GetlineSize = 12
INVARIANT ReadsAsWritten
INVARIANT NoWordIsLost
INVARIANT LexerCountsWords
INVARIANT BufferIsRespected
PROPERTY ReadingEnds
