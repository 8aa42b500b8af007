SPECIFICATION Spec
CONSTANTS
  CaseId = {r, k1, k2}
  Root = r
  Schema <- MCSchema
  RootSchema = "root"
  Chain <- Followed
  Node <- MCNode
  TypeOf <- MCTypeOf
  Target <- MCTarget
  Inserted <- X
  Deletable <- Nobody
  MaxRounds = 0
  NoCase = NoCase
  NoNode = NoNode
INVARIANTS
  EffectivePathExecuted
CHECK_DEADLOCK FALSE
