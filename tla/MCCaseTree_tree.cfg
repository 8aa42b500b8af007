SPECIFICATION FairSpec
CONSTANTS
  CaseId = {r, k1, k2, k3, k4}
  Root = r
  Schema <- MCSchema
  RootSchema = "root"
  Chain <- Rounds
  Node <- MCNode
  TypeOf <- MCTypeOf
  Target <- MCTarget
  Inserted <- X
  Deletable <- Y
  MaxRounds = 1
  NoCase = NoCase
  NoNode = NoNode
INVARIANTS
  TreeSound
  BoundaryKeepsUp
PROPERTIES
  RequestReturns
CHECK_DEADLOCK FALSE
