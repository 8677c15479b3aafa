SPECIFICATION TextSpec
CONSTANTS
  Null = Null
  Word = 65536
  MaxDepth = 2
  Scalars <- MCScalars
  Keys <- MCKeys
  MaxNest = 2
  MaxBytes = 12
  MaxHeaders = 6
  MaxRoutes = 3
  Patterns <- MCPatterns
  Methods <- MCMethods
  Users <- MCUsers
  Requests <- MCRequests
  TheMux <- MCMux
  Calls <- MCCalls
  Statuses = {303, 307}
  Extra <- MCExtra
  Pieces <- MCPieces
  Targets <- MCTargets
  Splits = {3, 15, 35}
  ReadBuf = 80
  WriteBuf = 20
  MaxRedirects = 1
  MaxSaid = 2
  WordBits = 8
  ByteBits = 4
  Half = 128
  One = 8
  Operands <- MCOperands
INVARIANTS
  TextsExact
  CodesExact
  RoutingSound
  TextIsTheTree
  ExchangeExact
  ArithmeticExact
  BitOpsExact
CHECK_DEADLOCK FALSE
