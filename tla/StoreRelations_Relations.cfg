SPECIFICATION RelationsSpec
CONSTANTS
  h1 = h1  h2 = h2  k1 = k1  k2 = k2  p1 = p1  m1 = m1  m2 = m2
  t1 = t1  a1 = a1  q1 = q1  root = root  call = call
  ThreadIds <- TwoThreads
  WorkspaceIds <- TwoWorkspaces
  ProjectIds <- OneProject
  MessageIds <- TwoMessages
  TurnIds <- OneTurn
  ArtifactIds <- OneArtifact
  ProcessIds <- OneProcess
  Roots <- OneRoot
  Calls <- OneCall
  Contexts <- SmallContexts
  Bodies <- SmallBodies
  None = None
SYMMETRY Renamings
CHECK_DEADLOCK FALSE
INVARIANTS
  Relations
  StaysValid
