SPECIFICATION ProcessSpec
CONSTANTS
  Threads = {t1}
  None = None
  Coros = {c1}
  main = main
  SchedCap = 1
  MaxYields = 1
  Sigs = {1}
  Track = 4
  Quiet = {}
  PipeCap = 2
  Chunk = 1
  Writes <- LargeStdout
  MaxIn = 0
  ExitCodes = {0}
  Uses = {"capture"}
PROPERTY CaptureReturns
CHECK_DEADLOCK FALSE
