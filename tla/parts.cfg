SPECIFICATION PartsSpec
CONSTANTS
  MemorySize = 24
  Reg = {1, 2, 3, 4, 5, 6, 7, 8, 9, 10, 11, 12}
  W = 3
  QwcRange = 64
  MaxTags = 7
  MicroSize = 6
  MaxSteps = 14
  LoopSteps = 6
  Path = {"sly", "spy", "data", "notes"}
  Image = {"sly", "spy", "data"}
  None = "none"
  Depth <- MCDepth
  File = {"a", "b"}
  Loadable = {"a"}
  Text = {"x", "y"}
  MaxJobs = 2
  MaxLines = 2
INVARIANTS
  IdiomsWork
  AccumulatesExactly
  DivisionInverts
  PacketsArrive
  GameIsTheDiscShown
  WorkerHasAWindow
  CancelReachesOneJob
  LogComplete
PROPERTIES
  TransfersEnd
  InputsHeld
  ImageFollowsLoads
  LoadEnds
CHECK_DEADLOCK FALSE
