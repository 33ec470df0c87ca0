SPECIFICATION RestartSpec
CONSTANTS
  Thread = {0, 1}
  Sema = {}
  Priority = {0}
  SemaInit <- MCSemaInit
  MaxWakeups = 0
  MaxSuspends = 0
  MaxDisables = 0
PROPERTIES RestartReturns
CHECK_DEADLOCK FALSE
