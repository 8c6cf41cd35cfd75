\* One instance, every definition, any role change between any two decisions.
SPECIFICATION EngineSpec
CONSTANTS
  Users = {u1, u2, u3}
  NoUser = NoUser
  NoResult = NoResult
  Instances = {i1}
  Roles <- MCRoles
  Stages <- MCStages
  StageDef <- MCStageDef
  Entries <- MCEntries
  Malformed <- MCMalformed
  Contexts <- MCContexts
  NoContext <- MCNoContext
SYMMETRY Interchangeable
INVARIANTS
  PendingOnlyInCurrentStage
  StageEndsAreRight
PROPERTIES
  NoSilentDowngrade
  TerminalIsFinal
CHECK_DEADLOCK FALSE
