SPECIFICATION Spec
CONSTANTS
  SymbolOrder <- MCOrder
  Epsilon = "@0@"
  FlagNames <- MCFlags
  NO_SYMBOL_NUMBER = 9
  NO_TABLE_INDEX = 9999
  TRANSITION_TARGET_TABLE_START = 1000
  FloorJumpThreshold = 1
  NumStates = 5
  Rows <- PackingRows
  FinalStart = {FALSE}
  Graphs <- MCGraphs
INVARIANTS
  TypeOK
  NoFalseHit
  IndexOwnership
  LookupReadsInTable
PROPERTIES
  FloorNeverFalls
