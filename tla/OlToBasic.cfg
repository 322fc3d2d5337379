SPECIFICATION BackSpec
CONSTANTS
  SymbolOrder <- MCOrder
  Epsilon = "@0@"
  FlagNames <- MCFlags
  NO_SYMBOL_NUMBER = 9
  NO_TABLE_INDEX = 9999
  TRANSITION_TARGET_TABLE_START = 1000
  FloorJumpThreshold = 4
  NumStates = 3
  Rows <- LayoutRows
  FinalStart = {TRUE, FALSE}
  Graphs <- MCGraphs
INVARIANTS
  SymbolsInOrder
  TransitionsFaithful
  FinalityFaithful
  AgendaNamesStates
  RoundTrip
PROPERTIES
  ConversionEnds
  ExploresGraph
  RoundTripEnds
