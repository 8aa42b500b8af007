SPECIFICATION Spec
CONSTANTS
  Drafts <- MCDrafts
  Submissions <- MCSubmissions
  Partition <- MCPartition
  LoopPartition <- MCLoopPartition
  NewAccesses <- MCNewAccesses
  CaseValues = {0, 1}
  Unset = 2
  MaxNodes = 14
INVARIANTS
  AcceptedIffBlockStructured
  EditsKeepBlocks
  ReleasedSchemasRun
  StepsFindWhatTheyNeed
CHECK_DEADLOCK FALSE
