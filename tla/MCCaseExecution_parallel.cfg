SPECIFICATION FairSpec
CONSTANTS
  Schema <- Parallel
  Node <- MCNode
  TypeOf <- MCTypeOf
  ControlEdge <- MCControlEdge
  SyncEdge <- MCSyncEdge
  StartOfLoop <- MCStartOfLoop
  Element <- MCElement
  Value <- MCValue
  NoValue = NoValue
  Writes <- MCWrites
  Mandatory <- MCMandatory
  Discriminator <- MCDiscriminator
  XorTarget <- MCXorTarget
  RepeatOn <- MCRepeatOn
  MaxIterations <- MCMaxIterations
  Agent <- MCAgent
  NoAgent = NoAgent
  StaffRule <- MCStaffRule
  Automatic <- MCAutomatic
  Orders <- MCOrders
  InitialData <- NothingSet
  CountBound = 4
  Duration <- MCDuration
  Lead <- MCLead
  MaxTime = 100
  Deadline <- MCDeadline
INVARIANTS
  MarkingsConsistent
  CaseSound
  AcceptedDeadlinesHold
  RepeatedStepWritesAfresh
PROPERTIES
  OwnershipKept
  SyncRespected
  RequestReturns
CHECK_DEADLOCK FALSE
