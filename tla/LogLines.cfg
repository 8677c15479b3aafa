SPECIFICATION Spec
CONSTANTS
  Loggers = {t1, t2}
  MaxFields = 2
  None = None
INVARIANT LinesWhole
CHECK_DEADLOCK FALSE
