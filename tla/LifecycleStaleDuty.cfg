\* The release duty check precedes the cutover in another session.
SPECIFICATION Spec
CONSTANTS
  Docs = {d1}
  Singletons = {}
  Users = {u1, u2}
  Tokens = {t1, t2}
  MaxVersions = 2
  MaxCycles = 2
  MaxTime = 2
  MaxInFlight = 1
  Overlapping = {"release"}
  AllowApproverRelease = FALSE
  System = System
  NoUser = NoUser
  NoToken = NoToken
SYMMETRY Interchangeable
INVARIANTS
  ReleaserIsIndependent
CHECK_DEADLOCK FALSE
