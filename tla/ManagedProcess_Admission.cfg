SPECIFICATION Spec
CONSTANTS
  p1 = p1  p2 = p2  p3 = p3  c1 = c1  c2 = c2
  Processes <- ThreeProcesses
  ThreadOf <- Owners
  Callers <- TwoCallers
  NoCaller = NoCaller
  MaxActive = 2
  MaxPerThread = 1
  Droppable = {"inserted"}
  MaxOutput = 0
  MaxErrors = 0
  MaxCrashes = 0
SYMMETRY Swaps
CHECK_DEADLOCK FALSE
INVARIANTS
  WithinQuotas
  ShutdownLeavesNothing
