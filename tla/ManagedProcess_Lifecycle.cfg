SPECIFICATION FairSpec
CONSTANTS
  p1 = p1  p2 = p2  p3 = p3  c1 = c1  c2 = c2
  Processes <- OneProcess
  ThreadOf <- Owners
  Callers <- TwoCallers
  NoCaller = NoCaller
  MaxActive = 1
  MaxPerThread = 1
  Droppable = {"entering", "checked", "inserted", "starting"}
  MaxOutput = 1
  MaxErrors = 1
  MaxCrashes = 1
CHECK_DEADLOCK FALSE
INVARIANTS
  EventsAreCovered
  EndsAreFinal
  GroupIsGuarded
  ShownEndMeansDead
  CommandRunsOnce

  
