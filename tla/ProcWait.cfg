SPECIFICATION ProcessSpec
CONSTANTS
  Threads = {t1}
  None = None
  Coros = {c1}
  main = main
  SchedCap = 1
  MaxYields = 1
  Sigs = {1}
  Track = 4
  Quiet = {}
  PipeCap = 1
  Chunk = 1
  Writes <- FittingWrites
  MaxIn = 0
  ExitCodes = {0, 3}
  Uses = {"session"}
PROPERTY WaitTellsExit
CHECK_DEADLOCK FALSE
