SPECIFICATION KeptSpec
CONSTANTS
  Thread = {0, 1}
  Sema = {1}
  Priority = {0, 1}
  SemaInit <- MCSemaInit
  MaxWakeups = 0
  MaxSuspends = 0
  MaxDisables = 0
  Cause = {2}
  Channel = {5}
  Handler = {1}
  Compiled = {1}
  Alarm = {1, 2}
  MaxDelay = 2
  MaxPending = 3
  VblankTicks = 2
  TimerTicks = 1
PROPERTIES
  AlarmDelivered
  MaskEnds
CHECK_DEADLOCK FALSE
