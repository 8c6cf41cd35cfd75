---------------------- MODULE DocumentLifecycleProofs ----------------------
(***************************************************************************)
(* Theorems about DocumentLifecycle, for every value of its constants.      *)
(***************************************************************************)
EXTENDS DocumentLifecycle, TLAPS

(* Type correctness is inductive only together with the fact that an open   *)
(* draft has a token: a check-in hands that token to the late lock release. *)
Types == TypeOK /\ DraftHasToken

\* A request that arrives now, with what it reads, is a request record.
LEMMA FreshRequestType ==
  ASSUME TypeOK, NEW q \in FreshRequests
  PROVE  q \in Requests
<1>1. \A d \in Docs : LatestState(d) \in VersionStates
  BY ConstantsAssumption DEF TypeOK, LatestState, VersionStates, Versions
<1>2. ASSUME NEW op \in Ops, NEW d \in Docs, NEW u \in Users, NEW k \in 0..MaxCycles,
             NEW v \in 0..MaxVersions
      PROVE  Request(op, d, u, k, v) \in Requests
  BY <1>1, <1>2 DEF TypeOK, Request, Requests
<1>3. \A d \in Docs : 0..last[d] \subseteq 0..MaxVersions
  BY ConstantsAssumption DEF TypeOK
<1>4. 0 \in 0..MaxCycles /\ 0 \in 0..MaxVersions /\ Cycles \subseteq 0..MaxCycles
  BY ConstantsAssumption DEF Cycles
<1> QED
  BY <1>2, <1>3, <1>4 DEF FreshRequests, Ops

\* The empty vault is well typed.
LEMMA InitTypes == Init => Types
  BY ConstantsAssumption
  DEF Init, Types, TypeOK, DraftHasToken, DocStates, VersionStates, TaskStates,
      Versions, Cycles

\* The cutover keeps the types, whoever signs it.
LEMMA CutoverTypes ==
  ASSUME Types, NEW d \in Docs, NEW v \in Versions, NEW s \in Users \cup {System},
         Cutover(d, v, s), due' \in [Docs -> SUBSET Versions],
         inflight' \in SUBSET Requests
  PROVE  Types'
<1> USE ConstantsAssumption DEF Cutover
<1>0. v \in 0..MaxVersions
  BY DEF Versions
<1>1. vstate' \in [Docs -> [Versions -> VersionStates]]
  BY DEF Types, TypeOK, VersionStates
<1>2. supersededBy' \in [Docs -> [Versions -> 0..MaxVersions]]
  BY <1>0 DEF Types, TypeOK
<1>3. effFrom' \in [Docs -> [Versions -> 0..MaxTime]]
  BY DEF Types, TypeOK
<1>4. releasers' \in [Docs -> [Versions -> SUBSET (Users \cup {System})]]
  BY DEF Types, TypeOK
<1>5. /\ docState' \in [Docs -> DocStates]
      /\ eff' \in [Docs -> 0..MaxVersions]
  BY DEF Types, TypeOK, DocStates, Versions
<1> QED
  BY <1>1, <1>2, <1>3, <1>4, <1>5 DEF Types, TypeOK, DraftHasToken, lockVars, taskVars

\* A request keeps the types when it commits, whenever it read the rows.
LEMMA HandleTypes ==
  ASSUME Types, NEW q \in Requests, Handle(q), inflight' \in SUBSET Requests
  PROVE  Types'
<1> USE ConstantsAssumption DEF Types
<1>0. /\ q.doc \in Docs /\ q.user \in Users /\ q.eff \in 0..MaxVersions
      /\ q.task \in 0..MaxCycles
  BY DEF Requests
<1>1. ASSUME NEW t \in Tokens, StartRevision(q, t) PROVE Types'
  BY <1>0, <1>1
  DEF StartRevision, Acquire, OpenDraft, TypeOK, DraftHasToken, versionVars, signVars,
      taskVars, DocStates
<1>2. CASE Obsolete(q)
  <2>1. q.eff \in Versions
    BY <1>0, <1>2 DEF Obsolete, Versions
  <2>2. /\ vstate' \in [Docs -> [Versions -> VersionStates]]
        /\ docState' \in [Docs -> DocStates]
        /\ eff' \in [Docs -> 0..MaxVersions]
    BY <1>0, <1>2, <2>1 DEF Obsolete, TypeOK, DocStates, VersionStates
  <2> QED
    BY <1>2, <2>2 DEF Obsolete, TypeOK, DraftHasToken, signVars, lockVars, taskVars
<1>3. Decidable(q) => last[q.doc] \in Versions /\ q.task \in Cycles
  <2>1. last[q.doc] \in 0..MaxVersions
    BY <1>0 DEF TypeOK
  <2>2. last[q.doc] # 0 => last[q.doc] \in Versions
    BY <2>1 DEF Versions
  <2>3. q.task # 0 => q.task \in Cycles
    BY <1>0 DEF Cycles
  <2> QED
    BY <2>2, <2>3 DEF Decidable
<1>4. ASSUME NEW from \in 0..MaxTime, Approve(q, from) PROVE Types'
  <2>1. /\ vstate' \in [Docs -> [Versions -> VersionStates]]
        /\ docState' \in [Docs -> DocStates]
    BY <1>0, <1>3, <1>4 DEF Approve, RecordDecision, TypeOK, VersionStates, DocStates
  <2>2. /\ task' \in [Docs -> [Cycles -> TaskStates]]
        /\ decided' \in [Docs -> [Cycles -> 0..MaxVersions]]
    BY <1>0, <1>3, <1>4 DEF Approve, RecordDecision, TypeOK, TaskStates
  <2>3. /\ effFrom' \in [Docs -> [Versions -> 0..MaxTime]]
        /\ approvers' \in [Docs -> [Versions -> SUBSET Users]]
    BY <1>0, <1>3, <1>4 DEF Approve, TypeOK
  <2> QED
    BY <1>4, <2>1, <2>2, <2>3 DEF Approve, TypeOK, DraftHasToken, lockVars
<1>5. CASE RequestChanges(q)
  <2>1. /\ vstate' \in [Docs -> [Versions -> VersionStates]]
        /\ docState' \in [Docs -> DocStates]
    BY <1>0, <1>3, <1>5 DEF RequestChanges, RecordDecision, TypeOK, VersionStates, DocStates
  <2>2. /\ task' \in [Docs -> [Cycles -> TaskStates]]
        /\ decided' \in [Docs -> [Cycles -> 0..MaxVersions]]
    BY <1>0, <1>3, <1>5 DEF RequestChanges, RecordDecision, TypeOK, TaskStates
  <2> QED
    BY <1>5, <2>1, <2>2 DEF RequestChanges, TypeOK, DraftHasToken, lockVars, signVars
<1>6. CASE Release(q)
  <2>1. PICK v \in Versions : Cutover(q.doc, v, q.user)
    BY <1>6 DEF Release
  <2>2. due' \in [Docs -> SUBSET Versions]
    BY <1>6 DEF Release, TypeOK
  <2> QED
    BY <1>0, <2>1, <2>2, CutoverTypes
<1> QED
  BY <1>1, <1>2, <1>4, <1>5, <1>6 DEF Handle

\* The steps of the check-out lock and of submission keep the types.
LEMMA DocumentStepTypes ==
  ASSUME Types, NEW d \in Docs, DocumentStep(d)
  PROVE  Types'
<1> USE ConstantsAssumption DEF Types
<1>1. CASE CreateDocument(d)
  BY <1>1
  DEF CreateDocument, TypeOK, DraftHasToken, versionVars, signVars, lockVars, taskVars, DocStates
<1>2. ASSUME NEW u \in Users, ImportBaseline(d, u) PROVE Types'
  <2>1. 1 \in Versions
    BY DEF Versions
  <2> QED
    BY <1>2, <2>1
    DEF ImportBaseline, TypeOK, DraftHasToken, lockVars, taskVars, DocStates, VersionStates
<1>3. ASSUME NEW u \in Users, NEW t \in Tokens, Checkout(d, u, t) PROVE Types'
  BY <1>3
  DEF Checkout, Acquire, OpenDraft, TypeOK, DraftHasToken, docVars, versionVars, signVars,
      taskVars
<1>4. ASSUME NEW t \in Tokens, AcquireThenCrash(d, t) PROVE Types'
  BY <1>4
  DEF AcquireThenCrash, Acquire, TypeOK, DraftHasToken, docVars, versionVars, signVars,
      taskVars
<1>5. ASSUME NEW u \in Users, HoldsDraft(d, u), CloseDraft(d)
      PROVE  /\ holder' \in [Docs -> Users \cup {NoUser}]
             /\ draftToken' \in [Docs -> Tokens \cup {NoToken}]
             /\ unreleased' \in [Docs -> SUBSET Tokens]
             /\ DraftHasToken'
  BY <1>5 DEF HoldsDraft, CloseDraft, TypeOK, DraftHasToken
<1>6. ASSUME NEW u \in Users, Checkin(d, u) PROVE Types'
  <2>1. last[d] + 1 \in Versions
    BY <1>6 DEF Checkin, TypeOK, Versions
  <2>2. /\ last' \in [Docs -> 0..MaxVersions]
        /\ vstate' \in [Docs -> [Versions -> VersionStates]]
        /\ author' \in [Docs -> [Versions -> Users \cup {NoUser}]]
    BY <1>6, <2>1 DEF Checkin, TypeOK, VersionStates, Versions
  <2> QED
    BY <1>5, <1>6, <2>2 DEF Checkin, TypeOK, docVars, signVars, taskVars
<1>7. ASSUME NEW u \in Users, CheckinNoChange(d, u) PROVE Types'
  BY <1>5, <1>7 DEF CheckinNoChange, TypeOK, docVars, versionVars, signVars, taskVars
<1>8. ASSUME NEW t \in Tokens, ReleaseAfterCommit(d, t) \/ CrashAfterCommit(d, t)
      PROVE  Types'
  <2>1. unreleased' = [unreleased EXCEPT ![d] = @ \ {t}]
    BY <1>8 DEF ReleaseAfterCommit, CrashAfterCommit
  <2>2. unreleased' \in [Docs -> SUBSET Tokens]
    BY <2>1 DEF TypeOK
  <2>3. lock' \in [Docs -> Tokens \cup {NoToken}]
    <3>1. CASE ReleaseAfterCommit(d, t)
      <4>1. LockAfterRelease(d, t) \in Tokens \cup {NoToken}
        BY DEF LockAfterRelease, TypeOK
      <4>2. lock' = [lock EXCEPT ![d] = LockAfterRelease(d, t)]
        BY <3>1 DEF ReleaseAfterCommit
      <4> QED
        BY <4>1, <4>2 DEF TypeOK
    <3>2. CASE CrashAfterCommit(d, t)
      BY <3>2 DEF CrashAfterCommit, TypeOK
    <3> QED
      BY <1>8, <3>1, <3>2
  <2>4. /\ UNCHANGED <<docVars, versionVars, signVars, holder, draftToken, taskVars>>
        /\ UNCHANGED <<inflight, due, now>>
    BY <1>8 DEF ReleaseAfterCommit, CrashAfterCommit
  <2> QED
    BY <2>2, <2>3, <2>4 DEF TypeOK, DraftHasToken, docVars, versionVars, signVars, taskVars
<1>9. CASE LockLapse(d) \/ BreakLock(d)
  BY <1>9
  DEF LockLapse, BreakLock, TypeOK, DraftHasToken, docVars, versionVars, signVars, taskVars
<1>10. CASE SubmitReview(d)
  <2>1. last[d] \in Versions /\ cycles[d] + 1 \in Cycles
    BY <1>10
    DEF SubmitReview, AdvanceLatest, InstantiateApproval, LatestState, TypeOK, Versions, Cycles
  <2>2. /\ docState' \in [Docs -> DocStates]
        /\ vstate' \in [Docs -> [Versions -> VersionStates]]
    BY <1>10, <2>1 DEF SubmitReview, AdvanceLatest, TypeOK, DocStates, VersionStates
  <2>3. cycles' \in [Docs -> 0..MaxCycles]
    BY <1>10 DEF SubmitReview, InstantiateApproval, TypeOK
  <2>4. /\ task' \in [Docs -> [Cycles -> TaskStates]]
        /\ submitted' \in [Docs -> [Cycles -> 0..MaxVersions]]
    BY <1>10, <2>1 DEF SubmitReview, InstantiateApproval, TypeOK, TaskStates
  <2> QED
    BY <1>10, <2>2, <2>3, <2>4 DEF SubmitReview, TypeOK, DraftHasToken, signVars, lockVars
<1>11. ASSUME NEW v \in Versions, ArchiveVersion(d, v) PROVE Types'
  BY <1>11
  DEF ArchiveVersion, TypeOK, DraftHasToken, docVars, signVars, lockVars, taskVars, VersionStates
<1>12. ASSUME NEW v \in Versions, SweepCutover(d, v) PROVE Types'
  <2>1. /\ due' \in [Docs -> SUBSET Versions]
        /\ inflight' \in SUBSET Requests
    BY <1>12 DEF SweepCutover, TypeOK
  <2> QED
    BY <1>12, <2>1, CutoverTypes DEF SweepCutover
<1>13. ASSUME NEW v \in Versions, SweepSkip(d, v) PROVE Types'
  BY <1>13
  DEF SweepSkip, TypeOK, DraftHasToken, docVars, versionVars, signVars, lockVars, taskVars
<1> QED
  BY <1>1, <1>2, <1>3, <1>4, <1>6, <1>7, <1>8, <1>9, <1>10, <1>11, <1>12, <1>13
  DEF DocumentStep

\* Every step keeps the types.
LEMMA NextTypes == Types /\ [Next]_vars => Types'
<1> SUFFICES ASSUME Types, [Next]_vars PROVE Types'
  OBVIOUS
<1>1. CASE \E d \in Docs : DocumentStep(d)
  BY <1>1, DocumentStepTypes
<1>2. CASE Serve
  <2>1. PICK q \in FreshRequests : Handle(q) /\ UNCHANGED inflight
    BY <1>2 DEF Serve
  <2>2. q \in Requests
    BY FreshRequestType DEF Types
  <2>3. inflight' \in SUBSET Requests
    BY <2>1 DEF Types, TypeOK
  <2> QED
    BY <2>1, <2>2, <2>3, HandleTypes
<1>3. CASE Load
  <2>1. inflight' \in SUBSET Requests
    BY <1>3, FreshRequestType DEF Load, Types, TypeOK
  <2> QED
    BY <1>3, <2>1
    DEF Load, Types, TypeOK, DraftHasToken, docVars, versionVars, signVars, lockVars, taskVars
<1>4. CASE Commit
  <2>1. PICK q \in inflight : Handle(q) /\ inflight' = inflight \ {q}
    BY <1>4 DEF Commit
  <2>2. q \in Requests /\ inflight' \in SUBSET Requests
    BY <2>1 DEF Types, TypeOK
  <2> QED
    BY <2>1, <2>2, HandleTypes
<1>5. CASE Abort
  BY <1>5
  DEF Abort, Types, TypeOK, DraftHasToken, docVars, versionVars, signVars, lockVars, taskVars
<1>6. CASE SweepScan \/ SweepCrash
  BY <1>6
  DEF SweepScan, SweepCrash, Types, TypeOK, DraftHasToken, docVars, versionVars, signVars,
      lockVars, taskVars
<1>7. CASE Tick
  BY <1>7, ConstantsAssumption
  DEF Tick, Types, TypeOK, DraftHasToken, docVars, versionVars, signVars, lockVars, taskVars
<1>8. CASE UNCHANGED vars
  BY <1>8
  DEF vars, Types, TypeOK, DraftHasToken, docVars, versionVars, signVars, lockVars, taskVars
<1> QED
  BY <1>1, <1>2, <1>3, <1>4, <1>5, <1>6, <1>7, <1>8 DEF Next

\* Every column and key keeps its type under every interleaving of requests.
THEOREM TypeCorrect == Spec => []TypeOK
<1>1. Spec => []Types
  BY InitTypes, NextTypes, PTL DEF Spec
<1> QED
  BY <1>1, PTL DEF Types

(***************************************************************************)
(* INV-1 and signed governance, with every unlocked request overlapped by   *)
(* any other.  SingleEffective needs that the first version of a document   *)
(* meets no other (AbsentIsUntouched); GovernedWereSigned needs that the    *)
(* cutover finds an approval signature on the version it promotes.          *)
(***************************************************************************)
Governed ==
  /\ AbsentIsUntouched
  /\ SingleEffective
  /\ ApprovedWereSigned
  /\ GovernedWereSigned

\* The empty vault governs nothing.
LEMMA InitGoverned == Init => Governed
  BY DEF Init, Governed, AbsentIsUntouched, SingleEffective, ApprovedWereSigned,
         GovernedWereSigned

\* A step that leaves versions and signatures alone keeps the invariant when it
\* neither uncreates a document nor admits a request for one that does not exist.
LEMMA QuietGoverned ==
  ASSUME Governed, UNCHANGED <<vstate, approvers, releasers, imported>>,
         \A d \in Docs : docState'[d] = "Absent" => docState[d] = "Absent",
         \A q \in inflight' : docState'[q.doc] # "Absent"
  PROVE  Governed'
  BY DEF Governed, AbsentIsUntouched, SingleEffective, ApprovedWereSigned, GovernedWereSigned

(* A step that moves one version of one existing document, and not to a     *)
(* governing state; an approval comes with its signature.                   *)
MovesVersion(d, v, st) ==
  /\ vstate' = [vstate EXCEPT ![d][v] = st]
  /\ st \in VersionStates \ {"Effective", "Superseded"}
  /\ st = "Approved" => approvers'[d][v] # {}
  /\ \A e \in Docs, w \in Versions : approvers[e][w] \subseteq approvers'[e][w]
  /\ UNCHANGED <<releasers, imported>>
  /\ docState'[d] # "Absent"
  /\ \A e \in Docs : docState'[e] = "Absent" => docState[e] = "Absent"
  /\ \A q \in inflight' : docState'[q.doc] # "Absent"

\* Such a step keeps the invariant.
LEMMA OneVersionGoverned ==
  ASSUME Types, Governed, NEW d \in Docs, NEW v \in Versions, NEW st,
         MovesVersion(d, v, st)
  PROVE  Governed'
<1> USE DEF MovesVersion
<1>1. \A e \in Docs, w \in Versions :
         vstate'[e][w] = IF e = d /\ w = v THEN st ELSE vstate[e][w]
  BY DEF Types, TypeOK
<1>2. AbsentIsUntouched'
  BY <1>1 DEF Governed, AbsentIsUntouched
<1>3. SingleEffective'
  BY <1>1 DEF Governed, SingleEffective
<1>4. ApprovedWereSigned'
  BY <1>1 DEF Governed, ApprovedWereSigned
<1>5. GovernedWereSigned'
  BY <1>1 DEF Governed, GovernedWereSigned
<1> QED
  BY <1>2, <1>3, <1>4, <1>5 DEF Governed

\* The cutover: the prior Effective version is demoted whatever the pointer says.
LEMMA CutoverGoverned ==
  ASSUME Types, Governed, NEW d \in Docs, NEW v \in Versions,
         NEW s \in Users \cup {System}, Cutover(d, v, s), inflight' \subseteq inflight
  PROVE  Governed'
<1>1. \A e \in Docs, w \in Versions :
         vstate'[e][w] = IF e # d THEN vstate[e][w]
                         ELSE IF w = v THEN "Effective"
                         ELSE IF vstate[d][w] = "Effective" THEN "Superseded"
                         ELSE vstate[d][w]
  BY DEF Types, TypeOK, Cutover, PriorEffective
<1>2. docState' = [docState EXCEPT ![d] = "Effective"]
  BY DEF Cutover
<1>3. vstate[d][v] = "Approved" /\ docState[d] = "Approved"
  BY DEF Cutover, Releasable, LegalFrom
<1>4. AbsentIsUntouched'
  BY <1>1, <1>2 DEF Governed, AbsentIsUntouched, Types, TypeOK
<1>5. SingleEffective'
  BY <1>1 DEF Governed, SingleEffective
<1>6. ApprovedWereSigned'
  BY <1>1 DEF Governed, ApprovedWereSigned, Cutover
<1>7. \A e \in Docs, w \in Versions :
         /\ releasers[e][w] \subseteq releasers'[e][w]
         /\ e = d /\ w = v => releasers'[e][w] # {}
  BY DEF Cutover, Types, TypeOK
<1>8. GovernedWereSigned'
  <2> SUFFICES ASSUME NEW e \in Docs, NEW w \in Versions,
                      vstate'[e][w] \in {"Effective", "Superseded"}
               PROVE  \/ e \in imported' /\ w = 1
                      \/ approvers'[e][w] # {} /\ releasers'[e][w] # {}
    BY DEF GovernedWereSigned
  <2>1. UNCHANGED <<approvers, imported>>
    BY DEF Cutover
  <2>2. CASE e = d /\ w = v
    BY <1>3, <1>7, <2>1, <2>2 DEF Governed, ApprovedWereSigned
  <2>3. CASE ~(e = d /\ w = v)
    <3>1. vstate[e][w] \in {"Effective", "Superseded"}
      BY <1>1, <2>3
    <3> QED
      BY <1>7, <2>1, <3>1 DEF Governed, GovernedWereSigned
  <2> QED
    BY <2>2, <2>3
<1> QED
  BY <1>4, <1>5, <1>6, <1>8 DEF Governed

\* A request commits, on what it read at any earlier time.
LEMMA HandleGoverned ==
  ASSUME Types, Governed, NEW q \in Requests, Handle(q), docState[q.doc] # "Absent",
         inflight' \subseteq inflight
  PROVE  Governed'
<1> USE ConstantsAssumption
<1>0. /\ q.doc \in Docs /\ q.user \in Users /\ q.eff \in 0..MaxVersions
      /\ inflight \subseteq Requests /\ \A r \in Requests : r.doc \in Docs
  BY DEF Requests, Types, TypeOK
<1>1. ASSUME NEW t \in Tokens, StartRevision(q, t) PROVE Governed'
  <2>1. docState' = [docState EXCEPT ![q.doc] = "UnderRevision"]
    BY <1>1 DEF StartRevision
  <2>2. \A e \in Docs : docState'[e] = "Absent" => docState[e] = "Absent"
    BY <2>1 DEF Types, TypeOK
  <2>3. \A r \in inflight' : docState'[r.doc] # "Absent"
    BY <1>0, <2>2 DEF Governed, AbsentIsUntouched
  <2> QED
    BY <1>1, <2>2, <2>3, QuietGoverned DEF StartRevision, versionVars, signVars
<1>2. CASE Obsolete(q)
  <2>1. docState' = [docState EXCEPT ![q.doc] = "Obsolete"]
    BY <1>2 DEF Obsolete
  <2>2. /\ \A e \in Docs : docState'[e] = "Absent" => docState[e] = "Absent"
        /\ docState'[q.doc] # "Absent"
    BY <1>0, <2>1 DEF Types, TypeOK
  <2>3. \A r \in inflight' : docState'[r.doc] # "Absent"
    BY <1>0, <2>2 DEF Governed, AbsentIsUntouched
  <2>4. q.eff \in Versions /\ "Obsolete" \in VersionStates
    BY <1>0, <1>2 DEF Obsolete, Versions, VersionStates
  <2>5. vstate' = [vstate EXCEPT ![q.doc][q.eff] = "Obsolete"]
    BY <1>2 DEF Obsolete
  <2>6. UNCHANGED <<approvers, releasers, imported>>
    BY <1>2 DEF Obsolete, signVars
  <2>7. MovesVersion(q.doc, q.eff, "Obsolete")
    BY <2>2, <2>3, <2>4, <2>5, <2>6 DEF MovesVersion
  <2> QED
    BY <1>0, <2>4, <2>7, OneVersionGoverned
<1>3. ASSUME NEW from \in 0..MaxTime, Approve(q, from) PROVE Governed'
  <2>1. docState' = [docState EXCEPT ![q.doc] = "Approved"]
    BY <1>3 DEF Approve, RecordDecision
  <2>2. /\ \A e \in Docs : docState'[e] = "Absent" => docState[e] = "Absent"
        /\ docState'[q.doc] # "Absent"
    BY <1>0, <2>1 DEF Types, TypeOK
  <2>3. \A r \in inflight' : docState'[r.doc] # "Absent"
    BY <1>0, <2>2 DEF Governed, AbsentIsUntouched
  <2>4. PICK v \in Versions : v = last[q.doc]
    BY <1>0, <1>3 DEF Approve, Decidable, Versions, Types, TypeOK
  <2>5. vstate' = [vstate EXCEPT ![q.doc][v] = "Approved"]
    BY <1>3, <2>4 DEF Approve, RecordDecision
  <2>6. /\ \A e \in Docs, w \in Versions : approvers[e][w] \subseteq approvers'[e][w]
        /\ approvers'[q.doc][v] # {}
    BY <1>0, <1>3, <2>4 DEF Approve, Types, TypeOK
  <2>7. UNCHANGED <<releasers, imported>>
    BY <1>3 DEF Approve
  <2>8. MovesVersion(q.doc, v, "Approved")
    BY <2>2, <2>3, <2>5, <2>6, <2>7 DEF MovesVersion, VersionStates
  <2> QED
    BY <1>0, <2>4, <2>8, OneVersionGoverned
<1>4. CASE RequestChanges(q)
  <2>1. docState' = [docState EXCEPT ![q.doc] = "Draft"]
    BY <1>4 DEF RequestChanges, RecordDecision
  <2>2. /\ \A e \in Docs : docState'[e] = "Absent" => docState[e] = "Absent"
        /\ docState'[q.doc] # "Absent"
    BY <1>0, <2>1 DEF Types, TypeOK
  <2>3. \A r \in inflight' : docState'[r.doc] # "Absent"
    BY <1>0, <2>2 DEF Governed, AbsentIsUntouched
  <2>4. PICK v \in Versions : v = last[q.doc]
    BY <1>0, <1>4 DEF RequestChanges, Decidable, Versions, Types, TypeOK
  <2>5. vstate' = [vstate EXCEPT ![q.doc][v] = "Draft"]
    BY <1>4, <2>4 DEF RequestChanges, RecordDecision
  <2>6. UNCHANGED <<approvers, releasers, imported>>
    BY <1>4 DEF RequestChanges, signVars
  <2>7. MovesVersion(q.doc, v, "Draft")
    BY <2>2, <2>3, <2>5, <2>6 DEF MovesVersion, VersionStates
  <2> QED
    BY <1>0, <2>4, <2>7, OneVersionGoverned
<1>5. CASE Release(q)
  BY <1>0, <1>5, CutoverGoverned DEF Release
<1> QED
  BY <1>1, <1>2, <1>3, <1>4, <1>5 DEF Handle

\* The steps that need no request record.
LEMMA DocumentStepGoverned ==
  ASSUME Types, Governed, NEW d \in Docs, DocumentStep(d)
  PROVE  Governed'
<1> USE ConstantsAssumption
<1>0. inflight \subseteq Requests /\ \A r \in Requests : r.doc \in Docs
  BY DEF Requests, Types, TypeOK
<1>1. CASE CreateDocument(d)
  <2>1. docState' = [docState EXCEPT ![d] = "Draft"] /\ inflight' = inflight
    BY <1>1 DEF CreateDocument
  <2>2. /\ \A e \in Docs : docState'[e] = "Absent" => docState[e] = "Absent"
        /\ \A q \in inflight' : docState'[q.doc] # "Absent"
    BY <1>0, <2>1 DEF Types, TypeOK, Governed, AbsentIsUntouched
  <2> QED
    BY <1>1, <2>2, QuietGoverned DEF CreateDocument, versionVars, signVars
<1>2. ASSUME NEW u \in Users, ImportBaseline(d, u) PROVE Governed'
  <2>1. /\ docState' = [docState EXCEPT ![d] = "Effective"] /\ inflight' = inflight
        /\ imported' = imported \cup {d} /\ UNCHANGED <<approvers, releasers>>
        /\ docState[d] = "Absent"
    BY <1>2 DEF ImportBaseline
  <2>2. \A w \in Versions : vstate[d][w] = "Absent"
    BY <2>1 DEF Governed, AbsentIsUntouched
  <2>3. \A e \in Docs, w \in Versions :
           vstate'[e][w] = IF e = d /\ w = 1 THEN "Effective" ELSE vstate[e][w]
    BY <1>2 DEF ImportBaseline, Types, TypeOK, Versions
  <2>4. AbsentIsUntouched'
    BY <1>0, <2>1, <2>3 DEF Types, TypeOK, Governed, AbsentIsUntouched
  <2>5. SingleEffective'
    BY <2>2, <2>3 DEF Governed, SingleEffective
  <2>6. ApprovedWereSigned'
    BY <2>1, <2>3 DEF Governed, ApprovedWereSigned
  <2>7. GovernedWereSigned'
    BY <2>1, <2>3 DEF Governed, GovernedWereSigned
  <2> QED
    BY <2>4, <2>5, <2>6, <2>7 DEF Governed
<1>3. ASSUME UNCHANGED <<docState, vstate, approvers, releasers, imported, inflight>>
      PROVE  Governed'
  BY <1>3, QuietGoverned DEF Governed, AbsentIsUntouched
<1>4. ASSUME NEW u \in Users, CheckinNoChange(d, u) PROVE Governed'
  BY <1>3, <1>4 DEF CheckinNoChange, docVars, versionVars, signVars
<1>11. ASSUME NEW t \in Tokens,
              \/ \E u \in Users : Checkout(d, u, t)
              \/ AcquireThenCrash(d, t)
              \/ ReleaseAfterCommit(d, t)
              \/ CrashAfterCommit(d, t)
       PROVE  Governed'
  BY <1>3, <1>11
  DEF Checkout, AcquireThenCrash, ReleaseAfterCommit, CrashAfterCommit, docVars, versionVars,
      signVars
<1>5. ASSUME NEW u \in Users, Checkin(d, u) PROVE Governed'
  <2>1. PICK v \in Versions : v = last[d] + 1
    BY <1>5 DEF Checkin, Types, TypeOK, Versions
  <2>2. /\ vstate' = [vstate EXCEPT ![d][v] = "Draft"]
        /\ UNCHANGED <<docState, approvers, releasers, imported, inflight>>
        /\ docState[d] # "Absent"
    BY <1>5, <2>1 DEF Checkin, HoldsDraft, Editable, docVars, signVars
  <2>3. MovesVersion(d, v, "Draft")
    BY <2>2 DEF MovesVersion, VersionStates, Governed, AbsentIsUntouched
  <2> QED
    BY <2>1, <2>3, OneVersionGoverned
<1>6. CASE LockLapse(d) \/ BreakLock(d)
  BY <1>3, <1>6 DEF LockLapse, BreakLock, docVars, versionVars, signVars
<1>7. CASE SubmitReview(d)
  <2>1. PICK v \in Versions : v = last[d]
    BY <1>7 DEF SubmitReview, AdvanceLatest, LatestState, Types, TypeOK, Versions
  <2>2. /\ vstate' = [vstate EXCEPT ![d][v] = "InReview"]
        /\ docState' = [docState EXCEPT ![d] = "InReview"]
        /\ UNCHANGED <<approvers, releasers, imported, inflight>>
    BY <1>7, <2>1 DEF SubmitReview, AdvanceLatest, signVars
  <2>3. /\ \A e \in Docs : docState'[e] = "Absent" => docState[e] = "Absent"
        /\ docState'[d] # "Absent"
    BY <2>2 DEF Types, TypeOK
  <2>4. \A q \in inflight' : docState'[q.doc] # "Absent"
    BY <1>0, <2>2, <2>3 DEF Governed, AbsentIsUntouched
  <2>5. MovesVersion(d, v, "InReview")
    BY <2>2, <2>3, <2>4 DEF MovesVersion, VersionStates
  <2> QED
    BY <2>1, <2>5, OneVersionGoverned
<1>8. ASSUME NEW v \in Versions, ArchiveVersion(d, v) PROVE Governed'
  <2>1. /\ vstate' = [vstate EXCEPT ![d][v] = "Obsolete"]
        /\ UNCHANGED <<docState, approvers, releasers, imported, inflight>>
    BY <1>8 DEF ArchiveVersion, docVars, signVars
  <2>2. docState[d] # "Absent"
    BY <1>8 DEF ArchiveVersion, Archivable, Governed, AbsentIsUntouched
  <2>3. MovesVersion(d, v, "Obsolete")
    BY <2>1, <2>2 DEF MovesVersion, VersionStates, Governed, AbsentIsUntouched
  <2> QED
    BY <2>3, OneVersionGoverned
<1>9. ASSUME NEW v \in Versions, SweepCutover(d, v) PROVE Governed'
  BY <1>9, CutoverGoverned DEF SweepCutover
<1>10. ASSUME NEW v \in Versions, SweepSkip(d, v) PROVE Governed'
  BY <1>3, <1>10 DEF SweepSkip, docVars, versionVars, signVars
<1> QED
  BY <1>1, <1>2, <1>4, <1>5, <1>6, <1>7, <1>8, <1>9, <1>10, <1>11
  DEF DocumentStep

\* Every step keeps the invariant.
LEMMA NextGoverned == Types /\ Governed /\ [Next]_vars => Governed'
<1> SUFFICES ASSUME Types, Governed, [Next]_vars PROVE Governed'
  OBVIOUS
<1>0. ASSUME UNCHANGED <<docState, vstate, approvers, releasers, imported>>,
             inflight' \subseteq inflight
      PROVE  Governed'
  BY <1>0, QuietGoverned DEF Governed, AbsentIsUntouched
<1>1. CASE \E d \in Docs : DocumentStep(d)
  BY <1>1, DocumentStepGoverned
<1>2. ASSUME NEW q \in FreshRequests, Admitted(q) PROVE docState[q.doc] # "Absent"
  <2>1. q.state = docState[q.doc]
    BY DEF FreshRequests, Request
  <2> QED
    BY <1>2, <2>1 DEF Admitted, Decidable, LegalFrom
<1>3. CASE Serve
  <2>1. PICK q \in FreshRequests : Admitted(q) /\ Handle(q) /\ UNCHANGED inflight
    BY <1>3 DEF Serve
  <2>2. q \in Requests
    BY FreshRequestType DEF Types
  <2> QED
    BY <1>2, <2>1, <2>2, HandleGoverned
<1>4. CASE Load
  <2>1. \A q \in inflight' : docState[q.doc] # "Absent"
    BY <1>2, <1>4 DEF Load, Governed, AbsentIsUntouched
  <2> QED
    BY <1>4, <2>1, QuietGoverned DEF Load, docVars, versionVars, signVars
<1>5. CASE Commit
  <2>1. PICK q \in inflight : Handle(q) /\ inflight' = inflight \ {q}
    BY <1>5 DEF Commit
  <2>2. q \in Requests /\ docState[q.doc] # "Absent"
    BY DEF Types, TypeOK, Governed, AbsentIsUntouched
  <2> QED
    BY <2>1, <2>2, HandleGoverned
<1>6. CASE Abort
  BY <1>0, <1>6 DEF Abort, docVars, versionVars, signVars
<1>7. CASE SweepScan \/ SweepCrash \/ Tick
  BY <1>0, <1>7 DEF SweepScan, SweepCrash, Tick, docVars, versionVars, signVars
<1>8. CASE UNCHANGED vars
  BY <1>0, <1>8 DEF vars, docVars, versionVars, signVars
<1> QED
  BY <1>1, <1>3, <1>4, <1>5, <1>6, <1>7, <1>8 DEF Next

\* Under every interleaving, Types and Governed hold throughout.
LEMMA GovernedAlways == Spec => []Governed
<1>1. Init => Types /\ Governed
  BY InitTypes, InitGoverned
<1>2. Types /\ Governed /\ [Next]_vars => Types' /\ Governed'
  BY NextTypes, NextGoverned
<1> QED
  BY <1>1, <1>2, PTL DEF Spec

\* INV-1: the cutover alone, without the partial unique index, keeps at most one
\* Effective version per document, whatever stale requests do around it.
THEOREM EffectiveIsUnique == Spec => []SingleEffective
  BY GovernedAlways, PTL DEF Governed

\* No version governs, or has been superseded, without its approval and release
\* signatures, unless it is an imported baseline.
THEOREM GovernanceIsSigned == Spec => []GovernedWereSigned
  BY GovernedAlways, PTL DEF Governed

-----------------------------------------------------------------------------
(* The check-out lock.  A token is never both the open draft's and that of   *)
(* an earlier check-in whose lock release is still to run.                   *)
TokenIsFresh == \A d \in Docs : draftToken[d] \notin unreleased[d]

\* What one step can do to the lock of one document.
LockUntouched(d) ==
  draftToken'[d] = draftToken[d] /\ unreleased'[d] = unreleased[d]

DraftOpens(d) ==
  \E t \in Tokens : Unused(d, t) /\ draftToken'[d] = t /\ unreleased'[d] = unreleased[d]

DraftCloses(d) ==
  /\ draftToken[d] \in Tokens
  /\ draftToken'[d] = NoToken /\ unreleased'[d] = unreleased[d] \cup {draftToken[d]}
  /\ lock'[d] = lock[d]

LateRelease(d) ==
  \E t \in unreleased[d] :
    /\ draftToken'[d] = draftToken[d] /\ unreleased'[d] = unreleased[d] \ {t}
    /\ lock'[d] \in {lock[d], LockAfterRelease(d, t)}

LockMoves(d) == LockUntouched(d) \/ DraftOpens(d) \/ DraftCloses(d) \/ LateRelease(d)

\* Every step is one of these to every document.
LEMMA StepMovesLock ==
  ASSUME Types, [Next]_vars, NEW e \in Docs
  PROVE  LockMoves(e)
<1>0. ASSUME UNCHANGED <<draftToken, unreleased>> PROVE LockMoves(e)
  BY <1>0 DEF LockMoves, LockUntouched
<1>1. ASSUME NEW d \in Docs, NEW u \in Users, NEW t \in Tokens,
             Acquire(d, t), OpenDraft(d, u, t), UNCHANGED unreleased
      PROVE  LockMoves(e)
  <2>1. CASE e = d
    BY <1>1, <2>1 DEF Acquire, OpenDraft, Types, TypeOK, LockMoves, DraftOpens
  <2>2. CASE e # d
    BY <1>1, <2>2 DEF OpenDraft, Types, TypeOK, LockMoves, LockUntouched
  <2> QED
    BY <2>1, <2>2
<1>2. ASSUME NEW d \in Docs, NEW u \in Users, HoldsDraft(d, u), CloseDraft(d), UNCHANGED lock
      PROVE  LockMoves(e)
  <2>1. CASE e = d
    <3>1. draftToken[d] \in Tokens
      BY <1>2, ConstantsAssumption DEF HoldsDraft, Types, DraftHasToken
    <3> QED
      BY <1>2, <2>1, <3>1 DEF CloseDraft, Types, TypeOK, LockMoves, DraftCloses
  <2>2. CASE e # d
    BY <1>2, <2>2 DEF CloseDraft, Types, TypeOK, LockMoves, LockUntouched
  <2> QED
    BY <2>1, <2>2
<1>3. ASSUME NEW d \in Docs, NEW t \in Tokens, ReleaseAfterCommit(d, t) \/ CrashAfterCommit(d, t)
      PROVE  LockMoves(e)
  <2>1. CASE e = d
    <3>1. t \in unreleased[d] /\ draftToken' = draftToken
          /\ unreleased'[d] = unreleased[d] \ {t}
      BY <1>3 DEF ReleaseAfterCommit, CrashAfterCommit, Types, TypeOK
    <3>2. lock'[d] \in {lock[d], LockAfterRelease(d, t)}
      BY <1>3 DEF ReleaseAfterCommit, CrashAfterCommit, Types, TypeOK
    <3> QED
      BY <2>1, <3>1, <3>2 DEF LockMoves, LateRelease
  <2>2. CASE e # d
    BY <1>3, <2>2
    DEF ReleaseAfterCommit, CrashAfterCommit, Types, TypeOK, LockMoves, LockUntouched
  <2> QED
    BY <2>1, <2>2
<1>4. ASSUME NEW q \in Requests, Handle(q) PROVE LockMoves(e)
  <2>1. q.doc \in Docs /\ q.user \in Users
    BY DEF Requests
  <2>2. ASSUME NEW t \in Tokens, StartRevision(q, t) PROVE LockMoves(e)
    BY <1>1, <2>1, <2>2 DEF StartRevision
  <2>3. ASSUME ~ \E t \in Tokens : StartRevision(q, t) PROVE UNCHANGED lockVars
    BY <1>4, <2>3 DEF Handle, Obsolete, Approve, RequestChanges, Release, Cutover
  <2> QED
    BY <1>0, <2>2, <2>3 DEF lockVars
<1>5. ASSUME NEW d \in Docs, DocumentStep(d) PROVE LockMoves(e)
  <2>1. ASSUME NEW u \in Users, NEW t \in Tokens, Checkout(d, u, t) PROVE LockMoves(e)
    BY <1>1, <2>1 DEF Checkout
  <2>2. ASSUME NEW u \in Users, Checkin(d, u) \/ CheckinNoChange(d, u) PROVE LockMoves(e)
    BY <1>2, <2>2 DEF Checkin, CheckinNoChange
  <2>3. ASSUME NEW t \in Tokens, ReleaseAfterCommit(d, t) \/ CrashAfterCommit(d, t)
        PROVE  LockMoves(e)
    BY <1>3, <2>3
  <2>4. ASSUME \/ CreateDocument(d) \/ LockLapse(d) \/ BreakLock(d) \/ SubmitReview(d)
               \/ \E u \in Users : ImportBaseline(d, u)
               \/ \E t \in Tokens : AcquireThenCrash(d, t)
               \/ \E v \in Versions : \/ ArchiveVersion(d, v) \/ SweepCutover(d, v)
                                      \/ SweepSkip(d, v)
        PROVE  LockMoves(e)
    BY <1>0, <2>4
    DEF CreateDocument, LockLapse, BreakLock, SubmitReview, ImportBaseline, AcquireThenCrash,
        ArchiveVersion, SweepCutover, Cutover, SweepSkip, lockVars
  <2> QED
    BY <1>5, <2>1, <2>2, <2>3, <2>4 DEF DocumentStep
<1>6. ASSUME Serve \/ Commit PROVE LockMoves(e)
  BY <1>4, <1>6, FreshRequestType DEF Serve, Commit, Types, TypeOK
<1>7. ASSUME Load \/ Abort \/ SweepScan \/ SweepCrash \/ Tick \/ UNCHANGED vars
      PROVE  LockMoves(e)
  BY <1>0, <1>7 DEF Load, Abort, SweepScan, SweepCrash, Tick, vars, lockVars
<1> QED
  BY <1>5, <1>6, <1>7 DEF Next

LEMMA TokensStayFresh == Spec => [](Types /\ TokenIsFresh)
<1>1. Init => Types /\ TokenIsFresh
  BY InitTypes DEF Init, TokenIsFresh
<1>2. ASSUME Types, Types', TokenIsFresh, [Next]_vars PROVE TokenIsFresh'
  <2> SUFFICES ASSUME NEW d \in Docs PROVE draftToken'[d] \notin unreleased'[d]
    BY DEF TokenIsFresh
  <2>1. LockMoves(d) /\ draftToken[d] \notin unreleased[d]
    BY <1>2, StepMovesLock DEF TokenIsFresh
  <2>2. NoToken \notin unreleased'[d]
    BY <1>2, ConstantsAssumption DEF Types, TypeOK
  <2> QED
    BY <2>1, <2>2 DEF LockMoves, LockUntouched, DraftOpens, DraftCloses, LateRelease, Unused
<1> QED
  BY <1>1, <1>2, NextTypes, PTL DEF Spec

\* The lock release that follows a check-in frees the lock only if it still carries that
\* check-in's token (the compare-and-delete of locks.release), so however late it runs it
\* leaves alone whoever has checked the document out since.
THEOREM LateReleaseSparesHolder == Spec => LateReleaseHarmless
<1>1. ASSUME Types, TokenIsFresh, [Next]_vars, NEW d \in Docs,
             lock[d] = draftToken[d], draftToken'[d] = draftToken[d],
             unreleased'[d] # unreleased[d]
      PROVE  lock'[d] = lock[d]
  <2>1. LockMoves(d) /\ draftToken[d] \notin unreleased[d]
    BY <1>1, StepMovesLock DEF TokenIsFresh
  <2>2. CASE LateRelease(d)
    BY <1>1, <2>1, <2>2 DEF LateRelease, LockAfterRelease
  <2>3. CASE DraftCloses(d)
    BY <2>3 DEF DraftCloses
  <2> QED
    BY <1>1, <2>1, <2>2, <2>3 DEF LockMoves, LockUntouched, DraftOpens
<1>2. ASSUME Types /\ TokenIsFresh, [Next]_vars
      PROVE  [\A d \in Docs :
                /\ lock[d] = draftToken[d] /\ draftToken'[d] = draftToken[d]
                /\ unreleased'[d] # unreleased[d]
                => lock'[d] = lock[d]]_vars
  BY <1>1, <1>2
<1> QED
  BY <1>2, TokensStayFresh, PTL DEF Spec, LateReleaseHarmless
=============================================================================
