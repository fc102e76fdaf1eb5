SPECIFICATION Spec
CONSTANTS
  w1 = w1  w2 = w2
  Writers <- TwoWriters
  Ops <- Mutations
  States <- AllStates
  Valid <- ValidStates
  Empty <- NoRecords
  Refused <- ErrorResult
  Apply <- Effects
  Migrate <- ResetWorkflow
  NoOp = NoOp
  NoWriter = NoWriter
  PowerLoss = TRUE
CHECK_DEADLOCK FALSE
INVARIANTS
  IInv
PROPERTIES
  DurableMutations
