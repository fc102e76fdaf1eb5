SPECIFICATION Spec
CONSTANTS
  c1 = c1  c2 = c2  c3 = c3  s1 = s1  i1 = i1  i2 = i2  b1 = b1  b2 = b2
  HTTP = HTTP  Default = Default  Given = Given
  Calls <- ThreeCalls
  Sessions <- OneSession
  Ids <- TwoIds
  Bodies <- TwoBodies
  Scripts <- SmallScripts
  Capacity = 1
  Buffer = 2
  MaxFaults = 1
CHECK_DEADLOCK FALSE
INVARIANTS
  CreatesOnceOrNot
  PreparedTurnRuns
  NothingMissed
  BarrierHolds
  TitleOfFirstTurn
