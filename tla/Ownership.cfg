\* Three lines, at the start or typed later.
SPECIFICATION Spec
CONSTANTS
  Null = Null
  Freed = Freed
  Keys = {"a", "b"}
  Types = {"char", "sym"}
  KeyType <- MCKeyType
  Program <- MCProgram
  Texts <- MCTexts
  Lines <- MCLines
  Tree <- MCTree
  MaxLines = 3
  MaxNodes = 8
  MaxRepeat = 1
  MaxDepth = 2
INVARIANT TypeOK
INVARIANT CountsAreReferences
 
INVARIANT AllIsFreed
INVARIANT TableIsKept
