SPECIFICATION Spec
CONSTANTS
  Address = {11, 12, 13}
  MaxStack = 3
  Nets <- MCNets
  Literals = {1}
  NameOrder <- MCNameOrder
  SymbolNet <- MCSymbolNet
  UnaryOps = {"INVERT_NET"}
  UnimplementedOps = {"PRUNE_NET"}
  BinaryOps = {"MINUS_NET", "CROSSPRODUCT_NET"}
  IteratedOps = {"UNION_NET", "COMPOSE_NET"}
  ReplacingOps = {"LABEL_NET"}
  ApplyUnary <- MCApplyUnary
  ApplyBinary <- MCApplyBinary
  NotAutomata <- MCNotAutomata
  FlagsNotIdentities <- MCFlagsNotIdentities
  Freed = Freed
  Interactive = FALSE
INVARIANTS TypeOK OneOwner DefinitionsAgree
PROPERTIES ErrorsKeepStack CommandEnds
CHECK_DEADLOCK FALSE
