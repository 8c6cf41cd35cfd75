\* A change request and a CAPA with two rounds of approval each, and an audit with three findings.
SPECIFICATION QualitySpec
CONSTANTS
  Users = {u1, u2}
  NoUser = NoUser
  NoResult = NoResult
  NoInstance = NoInstance
  Dcrs = {d1}
  Instances = {i1, i2}
  ApprovalEntry <- MCEntry
  Roles <- MCRoles
  Stages <- MCStages
  StageDef <- MCStageDef
  Entries <- MCEntries
  Malformed <- MCMalformed
  Contexts <- MCContexts
  NoContext <- MCNoContext
  Capas = {c1}
  People = {p1, p2}
  Nobody = Nobody
  MaxStages = 9
  MaxOwners = 1
  MaxFindings = 3
SYMMETRY Interchangeable
INVARIANTS
  DcrIsSound
  CapaIsSound
  ClosedAuditIsCorrected
CHECK_DEADLOCK FALSE
