SPECIFICATION DataSpec
CONSTANTS
  a = a
  b = b
  Bytes = {a, b}
  Inputs <- MCInputs
  Sizes <- MCSizes
  N <- MCN
  W = 8
  SlotCount = 4
  None = None
  NoBuilder = NoBuilder
  Junk <- MCJunk
  Fds = {0, 1, 2, 3}
  Borrowers = {b1, b2, b3}
  ConnCap = 2
  HeadCap = 6
  PushSizes = {1, 3}
  Aligns = {1, 2}
  SliceHdr = 1
  SliceAlign = 2
  SbInitial = 1
  MaxLen = 3
  MaxScopes = 2
  MaxBlocks = 3
  MaxChunks = 2
  to = to
  Procs = {p1, p2}
  Paths <- MCPaths
  Links <- MCLinks
  Contents <- MCContents
  Inodes = {0, 1, 2}
  Null = Null
INVARIANTS
  LoansExact
  FreeListExact
  ArenaSound
  BuilderBuffer
  FilesSound
PROPERTIES
  ImplementsByteQueue
  FreshLoan
