SPECIFICATION Spec
CONSTANTS
  c1 = c1  c2 = c2  c3 = c3
  Answers <- SomeAnswers
  Styles <- AllStyles
  Requests <- TwoTurns
  MaxSteps = 2
  Budget = 5
  ResultCost = 2
  MaxFaults = 1
CHECK_DEADLOCK FALSE
INVARIANTS
  CallsAreAnswered
  RequestsAreWhole
  NothingRunsUnallowed
  AcceptedIsShownOnce
PROPERTIES
  ToolsEndWithTurn
