\* Two records that may share one content, crashes at every call to storage; two workers,
\* redelivered builds, a pack inside a pack, legal erasure at any time; three transactions
\* that write three rows of the audit trail, and a linker that may die once.
SPECIFICATION EvidenceFairSpec
CONSTANTS
  Recs = {r1, r2}
  Structured = {r1}
  Shas = {s1}
  People = {ann, bob}
  Clerks = {ann}
  NoOne = NoOne
  Policies <- ThreePolicies
  AllowSelf = FALSE
  MaxAborts = 1
  inner = inner
  outer = outer
  finding = finding
  Packs = {inner, outer}
  Members = {finding}
  Scope <- MCScope
  Subjects <- MCSubjects
  Builders = {w1, w2}
  NoPack = NoPack
  MaxGenerate = 2
  MaxMessages = 1
  Orgs = {o1}
  MaxXid = 3
  MaxId = 3
  Batch = 1
  Window = 2
  MaxCrashes = 1
INVARIANTS
  EvidenceIsAccountedFor
  PacksAreSound
PROPERTIES
  ChainIsSound
  ChainCatchesUp
  DisposalIsLawful
  RecordErasureCompletes
  PackBuildsEnd
CHECK_DEADLOCK FALSE
