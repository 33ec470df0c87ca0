SPECIFICATION IntSpec
CONSTANTS
  Thread = {0, 1}
  Sema = {}
  Priority = {0}
  SemaInit <- MCSemaInit
  MaxWakeups = 0
  MaxSuspends = 0
  MaxDisables = 0
  Cause = {}
  Channel = {5}
  Handler = {1}
  Compiled = {1}
  Alarm = {1}
  MaxDelay = 1
  MaxPending = 2
  VblankTicks = 1
  TimerTicks = 1
INVARIANTS
  AlarmFiresOnce
  OneHandlerAtATime
CONSTRAINTS ShortQueues
CHECK_DEADLOCK FALSE
