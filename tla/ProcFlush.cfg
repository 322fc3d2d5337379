SPECIFICATION ProcSpec
CONSTANTS
  BufferSize = 5
  NoToken = "none"
  Symbols = {"a", "b", "A", "_", "."}
  Superblanks = {"[]"}
  Reserved = {"^"}
  AlphabeticTokens = {"a", "b", "A", "?"}
  Blank = "_"
  Nul = "NUL"
  LowerOf <- MCLowerOf
  Lexicons <- MCLexicons
  Tokens = {"a", "?"}
  MaxStream = 2
  Inputs <- Requests
INVARIANTS
  FlushedAfterAnswer
