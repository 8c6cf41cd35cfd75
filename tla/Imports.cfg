\* Two runs of one source root and two workers; three files to review; two items to commit.
SPECIFICATION ImportsFairSpec
CONSTANTS
  Runs = {r1, r2}
  Workers = {w1, w2}
  NoRun = NoRun
  MaxRedeliveries = 1
  NFiles = 3
  Codes = {1}
  TakenCodes = {}
  Owners = {1, 2}
  Ambiguous = {3}
  MaxRequests = 2
  Items = 2
  Committers = {c1, c2}
  MaxTasks = 3
PROPERTIES
  ReviewIsHonoured
  LedgerIsTrue
  RootIsExclusive
  EveryRunLeavesPipeline
  CommitStageComesToRest
CHECK_DEADLOCK FALSE
