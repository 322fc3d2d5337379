SPECIFICATION LoopSpec
CONSTANTS
  SymbolOrder <- MCOrder
  Epsilon = "@0@"
  FlagNames <- MCFlags
  NO_SYMBOL_NUMBER = 99
  NO_TABLE_INDEX = 9999
  TRANSITION_TARGET_TABLE_START = 1000
  FloorJumpThreshold = 4
  Graphs <- MCGraphs
  FlagOperation <- MCFlagOperation
  Features = {"F"}
  UnknownName = "@_UNKNOWN_SYMBOL_@"
  IdentityName = "@_IDENTITY_SYMBOL_@"
  DefaultName = "@_DEFAULT_SYMBOL_@"
  MAX_RECURSION_DEPTH = 5
  Limits <- MCLimits
  MaxCalls = 1
  MaxInput = 2
  MaxLoopDepth = 12
  Chosen = {"siblingloop"}
INVARIANTS
  LoopsTrapped
