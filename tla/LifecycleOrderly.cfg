\* Only task decisions are overlapped by other requests; the Beat sweep with its fairness.
\* No symmetry, since liveness is checked; the draft tokens are LifecycleOverlap's matter.
SPECIFICATION FairSpec
CONSTANTS
  Docs = {d1}
  Singletons = {}
  Users = {u1, u2}
  Tokens = {t1}
  MaxVersions = 3
  MaxCycles = 2
  MaxTime = 2
  MaxInFlight = 1
  Overlapping = {"approve", "request_changes"}
  AllowApproverRelease = FALSE
  System = System
  NoUser = NoUser
  NoToken = NoToken
INVARIANTS
  ApprovalsAreSound
PROPERTIES
  DocumentIsConsistent
  ImplementsRegister
  ScheduledReleaseHappens
CHECK_DEADLOCK FALSE
