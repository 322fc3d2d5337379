SPECIFICATION ProcLookupSpec
CONSTANTS
  SymbolOrder <- MCOrder
  Epsilon = "@0@"
  FlagNames <- MCFlags
  NO_SYMBOL_NUMBER = 99
  NO_TABLE_INDEX = 9999
  TRANSITION_TARGET_TABLE_START = 1000
  FloorJumpThreshold = 4
  Graphs <- MCGraphs
  FlagOperation <- MCFlagOperation
  Features = {"F"}
  BlankName = " "
  UpperName <- MCUpperName
  BoundaryNames = {"#"}
  Settings <- MCSettings
  MaxSteps = 3
  Chosen = {"duplicates"}
INVARIANTS
  AnalysesBest
