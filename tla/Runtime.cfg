SPECIFICATION RuntimeSpec
CONSTANTS
  Threads = {t1, t2, t3}
  None = None
  Coros = {c1, c2, c3}
  main = main
  SchedCap = 3
  MaxYields = 2
  Sigs = {1, 3, 4}
  Track = 4
  Quiet = {3}
  PipeCap = 2
  Chunk = 2
  Writes <- FittingWrites
  MaxIn = 3
  ExitCodes = {0, 3}
  Uses = {"capture", "stdout", "session"}
INVARIANTS
  LockSound
  OnceExact
  CoroStack
  CaptureSound
PROPERTIES
  RunAllComplete
  WaitFindsFired
  CaptureReturns
  StdinEnds
CHECK_DEADLOCK FALSE
