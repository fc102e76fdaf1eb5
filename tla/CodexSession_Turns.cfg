SPECIFICATION Spec
CONSTANTS
  t1 = t1  t2 = t2  h1 = h1
  Turns <- TwoTurns
  Askers <- FirstTurn
  Cancellable <- FirstTurn
  Threads <- OneThread
  MaxClients = 2
  MaxFaults = 1
CHECK_DEADLOCK FALSE
INVARIANTS
  RequestsAreTracked
  EndedTurnIsInterrupted
  TurnHearsSidecar
  SidecarDies
