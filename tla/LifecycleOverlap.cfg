\* Every unlocked request may be overlapped by any other.
SPECIFICATION Spec
CONSTANTS
  Docs = {d1}
  Singletons = {}
  Users = {u1, u2}
  Tokens = {t1, t2}
  MaxVersions = 2
  MaxCycles = 2
  MaxTime = 2
  MaxInFlight = 1
  Overlapping = {"start_revision", "obsolete", "approve", "request_changes", "release"}
  AllowApproverRelease = FALSE
  System = System
  NoUser = NoUser
  NoToken = NoToken
SYMMETRY Interchangeable
INVARIANTS
  TypeOK
  SingleEffective
  GovernedWereSigned
PROPERTIES
  LateReleaseHarmless
CHECK_DEADLOCK FALSE
