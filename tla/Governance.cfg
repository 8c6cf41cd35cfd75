\* Two requests for one document, one with the leadership gate switched at will, and the
\* review clock of one document with two deliveries of the sweep.
SPECIFICATION GovernanceFairSpec
CONSTANTS
  Docs = {d1}
  Singletons = {}
  Users = {u1, u2}
  Tokens = {t1}
  MaxVersions = 2
  MaxCycles = 2
  MaxTime = 3
  MaxInFlight = 0
  Overlapping = {}
  AllowApproverRelease = TRUE
  System = System
  NoUser = NoUser
  NoToken = NoToken
  MaxRequests = 2
  GoLive = {0, 2}
  LastChange = 2
  Directors = {u2}
  Writers = {u1}
  NoDoc = NoDoc
  Leadership = {d1}
  Periods = {0, 2}
  DefaultPeriod = 1
  Lead = 1
  RestDays = {3}
  SnapDays = 2
  ReviewSweeps = {s1, s2}
  Idle = Idle
  MaxReviews = 1
  Owner = u1
INVARIANTS
  ReviewsAreSound
PROPERTIES
  ChangesAreTraceable
  ImplementedGoesLive
  DueIsReviewed
CHECK_DEADLOCK FALSE
