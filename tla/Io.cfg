SPECIFICATION IoSpec
CONSTANTS
  x = x
  CR = CR
  LF = LF
  Sources <- MCSources
  BufCap = 2
  ReadSizes = {0, 1, 3}
  LineArena = 8
  MaxCalls = 3
  NL = NL
  Texts <- MCTexts
  WriteCap = 3
  MemCaps <- MCMemCaps
  DefaultCap = 2
  CopySize = 2
  MaxWritten = 7
  Radix = 2
  Items <- MCItems
  MaxItems = 3
  Messages <- MCMessages
  ByteValues = 2
  SocketRoom = 3
  MaxMessages = 3
  Threads = {t1, t2}
  Fds = {0, 1}
  NoFd = NoFd
  US = 2
  MS = 4
  SEC = 8
  MIN = 16
  HOUR = 32
  Skews = {0, 7}
  Reach = 40
  MaxTime = 6
  k1 = k1
  k2 = k2
  k3 = k3
  k4 = k4
  Keys <- MCKeys
  Raw <- MCRaw
  Vals = {v1, v2}
  Absent = Absent
  MinCap = 4
  MaxCap = 8
INVARIANTS
  StreamsExact
  SocketsSound
  DatesNearInstants
  DurationsReadBack
  MapSound
PROPERTIES
  ImplementsMsgLink
  EverythingArrives
  IterationExact
  ImplementsDict
  EveryCallReturns
CHECK_DEADLOCK FALSE
