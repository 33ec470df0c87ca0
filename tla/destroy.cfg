SPECIFICATION LifeSpec
CONSTANTS
  Thread = {0, 1, 2}
  Sema = {1}
  Priority = {0}
  SemaInit <- MCSemaInit
  MaxWakeups = 0
  MaxSuspends = 0
  MaxDisables = 0
INVARIANTS
  OneHostExecutes
  DeletedThreadHasNoJoiner
PROPERTIES DestructorReturns
CHECK_DEADLOCK FALSE
