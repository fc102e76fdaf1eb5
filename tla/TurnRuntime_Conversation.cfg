SPECIFICATION Spec
CONSTANTS
  h1 = h1  n1 = n1  x1 = x1  a1 = a1  a2 = a2
  Threads <- OneThread
  Turns <- TwoTurns
  ThreadOf <- BothOnOne
  External <- OneExternal
  Adapters <- TwoAdapters
  NoAdapter = NoAdapter
  NoTurn = NoTurn
  MaxStoreErrors = 0
  MaxCrashes = 2
  MaxDuplicates = 0
  Disconnects = FALSE
CHECK_DEADLOCK FALSE
INVARIANTS
  TurnsStayApart
  NothingOrphaned
  InterruptedTurnIsExplained
PROPERTIES
  LinearConversation
