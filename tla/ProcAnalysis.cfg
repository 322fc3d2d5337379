SPECIFICATION ProcSpec
CONSTANTS
  BufferSize = 5
  NoToken = "none"
  Symbols = {"a", "b", "A", "_", "."}
  Superblanks = {"[]"}
  Reserved = {"^"}
  AlphabeticTokens = {"a", "b", "A", "?"}
  Blank = "_"
  Nul = "NUL"
  LowerOf <- MCLowerOf
  Lexicons <- MCLexicons
  Tokens = {"a", "b", "A", "?", "[]", ".", "^"}
  MaxStream = 4
  Inputs <- Lines
INVARIANTS
  NothingLost
  AnalysesBelong
  FlushedAfterAnswer
PROPERTIES
  AnalysisEnds
