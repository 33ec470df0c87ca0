SPECIFICATION CompiledSpec
CONSTANTS
  Words = 12
  Exec = {1, 2, 3, 4, 5, 6, 7, 8, 9, 10, 11, 12}
  Entry = 1
  Window = 2
  Span = 20
  MaxFrames = 4
INVARIANTS
  RangesDisjoint
  ReachedIsEmitted
  GotosHaveLabels
  FollowsTheMachine
PROPERTIES
  AnalysisEnds
CHECK_DEADLOCK FALSE
