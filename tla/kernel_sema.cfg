SPECIFICATION FairSpec
CONSTANTS
  Thread = {0, 1, 2}
  Sema = {1}
  Priority = {0, 1}
  SemaInit <- MCSemaInit
  MaxWakeups = 0
  MaxSuspends = 0
  MaxDisables = 0
INVARIANTS
  WaitersExact
  NoIdleToken
PROPERTIES
  WaitEndsWithToken
  BatonDelivered
  JoinersReleased
CONSTRAINTS BeforeQuit
CHECK_DEADLOCK FALSE
