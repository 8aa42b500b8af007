SPECIFICATION Spec
CONSTANTS
  Drafts <- MCDrafts
  Partition <- MCPartition
  LoopPartition <- MCLoopPartition
  NewAccesses <- MCNewAccesses
  CaseValues = {0, 1}
  Unset = 2
  MaxNodes = 14
INVARIANTS
  MovedCaseIsSound
  EarlyMovesGoOn
CHECK_DEADLOCK FALSE
