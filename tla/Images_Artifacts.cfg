SPECIFICATION Spec
CONSTANTS
  d1 = d1  d2 = d2  u1 = u1  g1 = g1  h1 = h1
  Directs <- TwoDirects
  Tools <- OneTool
  Uploads <- OneUpload
  Threads <- OneThread
  MaxCalls = 3
  MaxOutputs = 2
  MaxFaults = 2
SYMMETRY Alike
INVARIANTS
  RecordsAreWhole
  FailedRequestLeavesNothing
