SPECIFICATION FairSifSpec
CONSTANTS
  Thread = {0, 1}
  Sema = {1, 2}
  Priority = {0}
  SemaInit <- MCSemaInit
  MaxWakeups = 0
  MaxSuspends = 0
  MaxDisables = 0
  Cause = {2}
  Channel = {5}
  Handler = {1}
  Compiled = {1}
  Alarm = {}
  MaxDelay = 1
  MaxPending = 3
  VblankTicks = 1
  TimerTicks = 1
  Client = {0, 1}
  Server = {"cdvdfsv"}
  OtherServer = {"none"}
  MaxEarly = 2
PROPERTIES
  RpcService
CHECK_DEADLOCK FALSE
