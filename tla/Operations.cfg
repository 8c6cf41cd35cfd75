\* One email with crashes without end and a requeue; a mirror with two faults and a change
\* to the disk; one document to acknowledge; one task with its timers.
SPECIFICATION OperationsFairSpec
CONSTANTS
  NumEmails = 1
  Drains = {w1, w2}
  NoEmail = NoEmail
  NoTime = NoTime
  MaxAttempts = 2
  RetryBase = 1
  Limit = 2
  MaxRun = 2
  MaxSend = 1
  QuietWait = 1
  MaxRequeues = 1
  Builds = {b1, b2, b3, b4, b5}
  NoBuild = NoBuild
  KeepRows = 1
  MaxReleases = 1
  MaxFaults = 2
  MaxTampers = 1
  Users = {u1, u2}
  Sweepers = {s1, s2}
  MaxSeq = 3
  Major = {1, 3}
  MaxChanges = 3
  Parts = 2
  Zone = 1
  WeekLength = 3
  WorkWeek = {0, 1}
  Slack = 1
  Horizon = 11
  Sla = 3
  Offsets <- MCOffsets
  Sweeps = {t1}
  MaxEdits = 2
INVARIANTS
  SendersAreApart
PROPERTIES
  OutboxIsSound
  EveryEmailSettles
  MirrorIsTrusted
  MirrorJobConverges
  ObligationsAreSound
  ObligationsReconcile
  NoticesAreSound
  OverdueIsNoticed
CHECK_DEADLOCK FALSE
