SPECIFICATION AuditFairSpec
CONSTANTS
  Orgs = {o1}
  MaxXid = 3
  MaxId = 3
  Batch = 2
  Window = 2
  MaxCrashes = 0
PROPERTY EveryRowIsChained
