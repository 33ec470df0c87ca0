SPECIFICATION Spec
CONSTANTS
  Thread = {0, 1, 2}
  Sema = {}
  Priority = {0, 1}
  SemaInit <- MCSemaInit
  MaxWakeups = 1
  MaxSuspends = 1
  MaxDisables = 1
INVARIANTS
  TypeOK
  BatonNotLost
  ReadyExact
  RunsHighestPriority
  NoLostWakeup
  BatonExclusive
  SuspensionsBalance
PROPERTIES
  FifoWithinPriority
CONSTRAINTS BeforeQuit
CHECK_DEADLOCK FALSE
