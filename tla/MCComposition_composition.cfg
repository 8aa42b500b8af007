SPECIFICATION Spec
CONSTANTS
  SchemaId = {"bill", "order", "deliver"}
  TemplateId = {"template"}
  Type = {"INTEGER", "STRING"}
  InitialStores <- MCInitialStores
  Mappings <- MCMappings
  Conditions <- MCConditions
  MaxEdits = 2
CHECK_DEADLOCK FALSE
INVARIANTS
  CallsPassData
  CasesCanEnd
