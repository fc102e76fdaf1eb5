SPECIFICATION Spec
CONSTANTS
  h1 = h1  n1 = n1  x1 = x1  a1 = a1  a2 = a2
  Threads <- OneThread
  Turns <- TwoTurns
  ThreadOf <- BothOnOne
  External <- OneExternal
  Adapters <- OneAdapter
  NoAdapter = NoAdapter
  NoTurn = NoTurn
  MaxStoreErrors = 1
  MaxCrashes = 0
  MaxDuplicates = 0
  Disconnects = FALSE
CHECK_DEADLOCK FALSE
INVARIANTS
  OneActiveTurnPerThread
