SPECIFICATION ComposeSpec
CONSTANTS
  SymbolOrder <- MCOrder
  Epsilon = "@0@"
  Identity = "@_IDENTITY_SYMBOL_@"
  Boundary = "@#@"
  FlagNames = {"@P.F.A@"}
  Cases <- MCCases
  OtherSymbols = {"z"}
  MaxPairs = 5
  Chosen = {"one", "two", "three", "boundaries", "flagged"}
INVARIANTS
  ResultIsComposition
PROPERTIES
  ExploresProduct
  ExplorationEnds
