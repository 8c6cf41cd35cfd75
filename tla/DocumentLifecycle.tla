------------------------- MODULE DocumentLifecycle -------------------------
(***************************************************************************)
(* The controlled-document vault of EasySynQ: documents, their immutable   *)
(* version rows, the check-out lock, the approval task of a submitted       *)
(* version, the release cutover and the Beat release sweep.                 *)
(*                                                                         *)
(* An action is one committed transaction.  The handlers that lock the     *)
(* document row before they read it (checkout, check-in, break-lock,       *)
(* submit-review, the cutover) are one atomic step.  The handlers that read *)
(* the row without a lock (start-revision, obsolete, the task decision, and *)
(* the duty check that precedes a release) are split: Load keeps the values *)
(* the request read, and the commit writes from those values.              *)
(***************************************************************************)
EXTENDS Naturals, FiniteSets

CONSTANTS
  Docs,                  \* documented_information rows of kind DOCUMENT
  Singletons,            \* those of one singleton document type
  Users,                 \* app_user rows
  System,                \* the Beat actor (actor=None)
  NoUser,                \* NULL in working_draft.checked_out_by
  Tokens,                \* lock tokens (uuid4 in locks.acquire)
  NoToken,               \* the Redis key is absent
  MaxVersions,           \* bound: version rows of a document
  MaxCycles,             \* bound: approval cycles of a document
  MaxTime,               \* bound: clock
  MaxInFlight,           \* bound: unlocked requests between load and commit
  Overlapping,           \* the unlocked operations other requests may overlap
  AllowApproverRelease   \* the org's SoD-2 relaxation flag

Ops == {"start_revision", "obsolete", "approve", "request_changes", "release"}

ASSUME ConstantsAssumption ==
  /\ Singletons \subseteq Docs
  /\ System \notin Users /\ NoUser \notin Users
  /\ NoToken \notin Tokens
  /\ MaxVersions \in Nat \ {0} /\ MaxCycles \in Nat \ {0}
  /\ MaxTime \in Nat \ {0} /\ MaxInFlight \in Nat
  /\ Overlapping \subseteq Ops
  /\ AllowApproverRelease \in BOOLEAN

VARIABLES
  docState,      \* documented_information.current_state
  eff,           \* documented_information.current_effective_version_id (0: NULL)
  last,          \* highest version_seq of the document (0: no version yet)
  vstate,        \* document_version.version_state, by version_seq
  author,        \* document_version.author_user_id
  effFrom,       \* document_version.effective_from (0: NULL)
  supersededBy,  \* document_version.superseded_by_version_id (0: NULL)
  approvers,     \* signers of signature_event(meaning=approval) on the version
  releasers,     \* signers of signature_event(meaning=release)
  imported,      \* documents signed in with meaning=import_baseline
  holder,        \* working_draft.checked_out_by (NoUser: no row)
  draftToken,    \* working_draft.lock_token
  lock,          \* the Redis key lock:doc:{id}
  unreleased,    \* tokens of committed check-ins whose lock release is still to run
  cycles,        \* approval instances opened for the document
  task,          \* state of the APPROVE task of each cycle
  submitted,     \* the version a cycle was opened for
  decided,       \* the version the cycle's task approved or returned (0: none)
  inflight,      \* unlocked requests between their load and their commit
  due,           \* versions the running release sweep has scanned
  now            \* the clock

docVars     == <<docState, eff>>
versionVars == <<last, vstate, author, effFrom, supersededBy>>
signVars    == <<approvers, releasers, imported>>
lockVars    == <<holder, draftToken, lock, unreleased>>
taskVars    == <<cycles, task, submitted, decided>>
vars == <<docVars, versionVars, signVars, lockVars, taskVars, inflight, due, now>>

Versions == 1..MaxVersions
Cycles   == 1..MaxCycles
DocStates == {"Absent", "Draft", "InReview", "Approved", "Effective",
              "UnderRevision", "Obsolete"}
VersionStates == {"Absent", "Draft", "InReview", "Approved", "Effective",
                  "Superseded", "Obsolete"}
TaskStates == {"Absent", "PENDING", "DONE"}

(* What a request has read when it commits.  `latest' and `vstate' are the  *)
(* newest version and its state, which the decision reads for its duty      *)
(* check and then finds again, unrefreshed, in the session.                 *)
Requests == [op: Ops, doc: Docs, user: Users, task: 0..MaxCycles,
             version: 0..MaxVersions, state: DocStates, eff: 0..MaxVersions,
             latest: 0..MaxVersions, vstate: VersionStates]

LatestState(d) == IF last[d] = 0 THEN "Absent" ELSE vstate[d][last[d]]

Request(op, d, u, k, v) ==
  [op |-> op, doc |-> d, user |-> u, task |-> k, version |-> v,
   state |-> docState[d], eff |-> eff[d], latest |-> last[d],
   vstate |-> LatestState(d)]

(* The document states each lifecycle action is legal from.                 *)
LegalFrom ==
  [submit_review   |-> {"Draft", "UnderRevision"},
   approve         |-> {"InReview"},
   request_changes |-> {"InReview"},
   release         |-> {"Approved"},
   start_revision  |-> {"Effective"},
   obsolete        |-> {"Effective"}]

(***************************************************************************)
(* Initial state: an empty vault.                                          *)
(***************************************************************************)
Init ==
  /\ docState = [d \in Docs |-> "Absent"]
  /\ eff = [d \in Docs |-> 0]
  /\ last = [d \in Docs |-> 0]
  /\ vstate = [d \in Docs |-> [v \in Versions |-> "Absent"]]
  /\ author = [d \in Docs |-> [v \in Versions |-> NoUser]]
  /\ effFrom = [d \in Docs |-> [v \in Versions |-> 0]]
  /\ supersededBy = [d \in Docs |-> [v \in Versions |-> 0]]
  /\ approvers = [d \in Docs |-> [v \in Versions |-> {}]]
  /\ releasers = [d \in Docs |-> [v \in Versions |-> {}]]
  /\ imported = {}
  /\ holder = [d \in Docs |-> NoUser]
  /\ draftToken = [d \in Docs |-> NoToken]
  /\ lock = [d \in Docs |-> NoToken]
  /\ unreleased = [d \in Docs |-> {}]
  /\ cycles = [d \in Docs |-> 0]
  /\ task = [d \in Docs |-> [k \in Cycles |-> "Absent"]]
  /\ submitted = [d \in Docs |-> [k \in Cycles |-> 0]]
  /\ decided = [d \in Docs |-> [k \in Cycles |-> 0]]
  /\ inflight = {}
  /\ due = [d \in Docs |-> {}]
  /\ now = 1

(***************************************************************************)
(* Creation: a new Draft document, or an imported baseline whose first      *)
(* version is born Effective.                                              *)
(***************************************************************************)
SingletonSlotFree(d) ==
  d \in Singletons => \A e \in Singletons \ {d} : docState[e] # "Effective"

CreateDocument(d) ==
  /\ docState[d] = "Absent"
  /\ docState' = [docState EXCEPT ![d] = "Draft"]
  /\ UNCHANGED <<eff, versionVars, signVars, lockVars, taskVars, inflight, due, now>>

ImportBaseline(d, u) ==
  /\ docState[d] = "Absent"
  /\ SingletonSlotFree(d)
  /\ docState' = [docState EXCEPT ![d] = "Effective"]
  /\ eff' = [eff EXCEPT ![d] = 1]
  /\ last' = [last EXCEPT ![d] = 1]
  /\ vstate' = [vstate EXCEPT ![d][1] = "Effective"]
  /\ author' = [author EXCEPT ![d][1] = u]
  /\ effFrom' = [effFrom EXCEPT ![d][1] = now]
  /\ imported' = imported \cup {d}
  /\ UNCHANGED <<supersededBy, approvers, releasers, lockVars, taskVars, inflight, due, now>>

(***************************************************************************)
(* The check-out lock.  Redis holds the token, the working_draft row names  *)
(* the holder; a check-in asks the row, never Redis.                        *)
(***************************************************************************)

Editable(d) == docState[d] \in {"Draft", "UnderRevision"}

Unused(d, t) == t # draftToken[d] /\ t \notin unreleased[d]

Acquire(d, t) ==
  /\ lock[d] = NoToken
  /\ Unused(d, t)
  /\ lock' = [lock EXCEPT ![d] = t]

OpenDraft(d, u, t) ==
  /\ holder' = [holder EXCEPT ![d] = u]
  /\ draftToken' = [draftToken EXCEPT ![d] = t]

Checkout(d, u, t) ==
  /\ Editable(d)
  /\ Acquire(d, t)
  /\ OpenDraft(d, u, t)
  /\ UNCHANGED <<docVars, versionVars, signVars, unreleased, taskVars, inflight, due, now>>

(* The process dies between the Redis SET and the database commit.          *)
AcquireThenCrash(d, t) ==
  /\ docState[d] \in {"Draft", "UnderRevision", "Effective"}
  /\ Acquire(d, t)
  /\ UNCHANGED <<docVars, versionVars, signVars, holder, draftToken, unreleased,
                 taskVars, inflight, due, now>>

\* Mutant: a check-in that does not ask who holds the check-out.
HoldsDraftUnchecked(d, u) == Editable(d)

HoldsDraft(d, u) == Editable(d) /\ holder[d] = u

CloseDraft(d) ==
  /\ holder' = [holder EXCEPT ![d] = NoUser]
  /\ draftToken' = [draftToken EXCEPT ![d] = NoToken]
  /\ unreleased' = [unreleased EXCEPT ![d] = @ \cup {draftToken[d]}]

Checkin(d, u) ==
  /\ HoldsDraft(d, u)
  /\ last[d] < MaxVersions
  /\ last' = [last EXCEPT ![d] = @ + 1]
  /\ vstate' = [vstate EXCEPT ![d][last[d] + 1] = "Draft"]
  /\ author' = [author EXCEPT ![d][last[d] + 1] = u]
  /\ CloseDraft(d)
  /\ UNCHANGED <<docVars, effFrom, supersededBy, signVars, lock, taskVars, inflight, due, now>>

(* Identical bytes to the latest version: the draft is closed, no version.  *)
CheckinNoChange(d, u) ==
  /\ HoldsDraft(d, u)
  /\ last[d] # 0
  /\ CloseDraft(d)
  /\ UNCHANGED <<docVars, versionVars, signVars, lock, taskVars, inflight, due, now>>

\* Mutant: a release that deletes the key without comparing the token.
LockAfterPlainDelete(d, t) == NoToken

LockAfterRelease(d, t) == IF lock[d] = t THEN NoToken ELSE lock[d]

ReleaseAfterCommit(d, t) ==
  /\ t \in unreleased[d]
  /\ unreleased' = [unreleased EXCEPT ![d] = @ \ {t}]
  /\ lock' = [lock EXCEPT ![d] = LockAfterRelease(d, t)]
  /\ UNCHANGED <<docVars, versionVars, signVars, holder, draftToken, taskVars,
                 inflight, due, now>>

(* The process dies between the check-in's commit and the lock release.     *)
CrashAfterCommit(d, t) ==
  /\ t \in unreleased[d]
  /\ unreleased' = [unreleased EXCEPT ![d] = @ \ {t}]
  /\ UNCHANGED <<docVars, versionVars, signVars, holder, draftToken, lock, taskVars,
                 inflight, due, now>>

LockLapse(d) ==
  /\ lock[d] # NoToken
  /\ lock' = [lock EXCEPT ![d] = NoToken]
  /\ UNCHANGED <<docVars, versionVars, signVars, holder, draftToken, unreleased,
                 taskVars, inflight, due, now>>

BreakLock(d) ==
  /\ docState[d] # "Absent"
  /\ lock' = [lock EXCEPT ![d] = NoToken]
  /\ UNCHANGED <<docVars, versionVars, signVars, holder, draftToken, unreleased,
                 taskVars, inflight, due, now>>

(***************************************************************************)
(* T2 / T9: submit the latest Draft version and open its approval cycle.    *)
(***************************************************************************)
AdvanceLatest(d) ==
  /\ LatestState(d) = "Draft"
  /\ vstate' = [vstate EXCEPT ![d][last[d]] = "InReview"]
  /\ docState' = [docState EXCEPT ![d] = "InReview"]

InstantiateApproval(d) ==
  /\ cycles[d] < MaxCycles
  /\ cycles' = [cycles EXCEPT ![d] = @ + 1]
  /\ task' = [task EXCEPT ![d][cycles[d] + 1] = "PENDING"]
  /\ submitted' = [submitted EXCEPT ![d][cycles[d] + 1] = last[d]]

SubmitReview(d) ==
  /\ docState[d] \in LegalFrom.submit_review
  /\ AdvanceLatest(d)
  /\ InstantiateApproval(d)
  /\ UNCHANGED <<eff, last, author, effFrom, supersededBy, signVars, lockVars, decided,
                 inflight, due, now>>

(***************************************************************************)
(* T7 and T11, from the row the request read.                               *)
(***************************************************************************)
StartRevision(q, t) ==
  /\ q.op = "start_revision"
  /\ q.state \in LegalFrom.start_revision /\ q.eff # 0
  /\ Acquire(q.doc, t)
  /\ OpenDraft(q.doc, q.user, t)
  /\ docState' = [docState EXCEPT ![q.doc] = "UnderRevision"]
  /\ UNCHANGED <<eff, versionVars, signVars, unreleased, taskVars, due, now>>

Obsolete(q) ==
  /\ q.op = "obsolete"
  /\ q.state \in LegalFrom.obsolete /\ q.eff # 0
  /\ vstate' = [vstate EXCEPT ![q.doc][q.eff] = "Obsolete"]
  /\ eff' = [eff EXCEPT ![q.doc] = 0]
  /\ docState' = [docState EXCEPT ![q.doc] = "Obsolete"]
  /\ UNCHANGED <<last, author, effFrom, supersededBy, signVars, lockVars, taskVars, due, now>>

\* Mutant: T12 also takes the Effective version instead of falling through to T11.
ArchivableEffective(d, v) == vstate[d][v] \in {"Superseded", "Effective"}

Archivable(d, v) == vstate[d][v] = "Superseded"

(* T12: a Superseded version is archived; the document keeps its state.     *)
ArchiveVersion(d, v) ==
  /\ Archivable(d, v)
  /\ vstate' = [vstate EXCEPT ![d][v] = "Obsolete"]
  /\ UNCHANGED <<docVars, last, author, effFrom, supersededBy, signVars, lockVars,
                 taskVars, inflight, due, now>>

(***************************************************************************)
(* T3 and T4: the decision on an approval task.  The task row is locked and *)
(* re-read; the document is the one the request loaded; the version is the  *)
(* latest one now, with the state the session already holds for it.         *)
(***************************************************************************)
DecidedState(q) ==
  IF q.latest = last[q.doc] THEN q.vstate ELSE LatestState(q.doc)

\* Mutant: the decision trusts the task row it loaded before taking the row lock.
DecidableUnrefreshed(q) ==
  /\ q.task # 0
  /\ q.state \in LegalFrom.approve
  /\ last[q.doc] # 0 /\ DecidedState(q) = "InReview"

Decidable(q) ==
  /\ q.task # 0 /\ task[q.doc][q.task] = "PENDING"
  /\ q.state \in LegalFrom[q.op]
  /\ last[q.doc] # 0 /\ DecidedState(q) = "InReview"

RecordDecision(q, toVersion, toDoc) ==
  /\ vstate' = [vstate EXCEPT ![q.doc][last[q.doc]] = toVersion]
  /\ docState' = [docState EXCEPT ![q.doc] = toDoc]
  /\ task' = [task EXCEPT ![q.doc][q.task] = "DONE"]
  /\ decided' = [decided EXCEPT ![q.doc][q.task] = last[q.doc]]

Approve(q, from) ==
  /\ q.op = "approve"
  /\ Decidable(q)
  /\ RecordDecision(q, "Approved", "Approved")
  /\ effFrom' = [effFrom EXCEPT ![q.doc][last[q.doc]] = from]
  /\ approvers' = [approvers EXCEPT ![q.doc][last[q.doc]] = @ \cup {q.user}]
  /\ UNCHANGED <<eff, last, author, supersededBy, releasers, imported, lockVars,
                 cycles, submitted, due, now>>

RequestChanges(q) ==
  /\ q.op = "request_changes"
  /\ Decidable(q)
  /\ RecordDecision(q, "Draft", "Draft")
  /\ UNCHANGED <<eff, last, author, effFrom, supersededBy, signVars, lockVars,
                 cycles, submitted, due, now>>

(***************************************************************************)
(* T6 + T10: the cutover, SERIALIZABLE and under the document's row lock.   *)
(***************************************************************************)
\* Mutant: T6 without T10, no prior version is looked up.
PriorForgotten(d, v) == {}

PriorEffective(d, v) == {w \in Versions : vstate[d][w] = "Effective"} \ {v}

\* Mutant: no check that the version to release is the Approved one.
ReleasableUnapproved(d, v) ==
  /\ docState[d] \in LegalFrom.release
  /\ vstate[d][v] # "Absent"
  /\ effFrom[d][v] <= now
  /\ SingletonSlotFree(d)

\* Mutant: a Superseded version may be released again.
ReleasableRollback(d, v) ==
  /\ docState[d] \in LegalFrom.release
  /\ vstate[d][v] \in {"Approved", "Superseded"}
  /\ effFrom[d][v] <= now
  /\ SingletonSlotFree(d)

Releasable(d, v) ==
  /\ docState[d] \in LegalFrom.release
  /\ vstate[d][v] = "Approved"
  /\ effFrom[d][v] <= now
  /\ SingletonSlotFree(d)

Cutover(d, v, signer) ==
  /\ Releasable(d, v)
  /\ vstate' = [vstate EXCEPT ![d] = [w \in Versions |->
                  IF w = v THEN "Effective"
                  ELSE IF w \in PriorEffective(d, v) THEN "Superseded"
                  ELSE vstate[d][w]]]
  /\ supersededBy' = [supersededBy EXCEPT ![d] = [w \in Versions |->
                  IF w \in PriorEffective(d, v) THEN v ELSE supersededBy[d][w]]]
  /\ effFrom' = [effFrom EXCEPT ![d][v] = IF @ = 0 THEN now ELSE @]
  /\ eff' = [eff EXCEPT ![d] = v]
  /\ docState' = [docState EXCEPT ![d] = "Effective"]
  /\ releasers' = [releasers EXCEPT ![d][v] = @ \cup {signer}]
  /\ UNCHANGED <<last, author, approvers, imported, lockVars, taskVars, now>>

LatestApproved(d, v) ==
  /\ vstate[d][v] = "Approved"
  /\ \A w \in Versions : w > v => vstate[d][w] # "Approved"

Target(q, v) ==
  IF q.version # 0 THEN v = q.version ELSE LatestApproved(q.doc, v)

Release(q) ==
  /\ q.op = "release"
  /\ \E v \in Versions : Target(q, v) /\ Cutover(q.doc, v, q.user)
  /\ UNCHANGED due

(***************************************************************************)
(* The Beat sweep: one scan, then one cutover per scanned row.              *)
(***************************************************************************)
\* Mutant: the scan misses a version whose go-live time is this instant.
ScheduledStrictlyBefore(d, v) ==
  vstate[d][v] = "Approved" /\ effFrom[d][v] # 0 /\ effFrom[d][v] < now

ScheduledAndDue(d, v) ==
  vstate[d][v] = "Approved" /\ effFrom[d][v] # 0 /\ effFrom[d][v] <= now

SweepScan ==
  /\ \E d \in Docs, v \in Versions : ScheduledAndDue(d, v) /\ v \notin due[d]
  /\ due' = [d \in Docs |-> due[d] \cup {v \in Versions : ScheduledAndDue(d, v)}]
  /\ UNCHANGED <<docVars, versionVars, signVars, lockVars, taskVars, inflight, now>>

SweepCutover(d, v) ==
  /\ v \in due[d]
  /\ Cutover(d, v, System)
  /\ due' = [due EXCEPT ![d] = @ \ {v}]
  /\ UNCHANGED inflight

SweepSkip(d, v) ==
  /\ v \in due[d]
  /\ ~Releasable(d, v)
  /\ due' = [due EXCEPT ![d] = @ \ {v}]
  /\ UNCHANGED <<docVars, versionVars, signVars, lockVars, taskVars, inflight, now>>

SweepCrash ==
  /\ \E d \in Docs : due[d] # {}
  /\ due' = [d \in Docs |-> {}]
  /\ UNCHANGED <<docVars, versionVars, signVars, lockVars, taskVars, inflight, now>>

Tick ==
  /\ now < MaxTime
  /\ now' = now + 1
  /\ UNCHANGED <<docVars, versionVars, signVars, lockVars, taskVars, inflight, due>>

(***************************************************************************)
(* Requests.  Admitted is what a request's authorization checks against the *)
(* rows it loaded: SoD-1 for an approval, SoD-2 for a release.              *)
(***************************************************************************)

BarredFromRelease(d, v) ==
  {author[d][v]} \cup (IF AllowApproverRelease THEN {} ELSE approvers[d][v])

MayRelease(q) ==
  \A v \in Versions : Target(q, v) => q.user \notin BarredFromRelease(q.doc, v)

MayApprove(q) == q.latest # 0 => author[q.doc][q.latest] # q.user

Admitted(q) ==
  \/ q.op \in {"start_revision", "obsolete"} /\ q.state \in LegalFrom[q.op]
  \/ q.op = "approve" /\ Decidable(q) /\ MayApprove(q)
  \/ q.op = "request_changes" /\ Decidable(q)
  \/ q.op = "release" /\ q.state # "Absent" /\ MayRelease(q)

Handle(q) ==
  \/ \E t \in Tokens : StartRevision(q, t)
  \/ Obsolete(q)
  \/ \E from \in 0..MaxTime : Approve(q, from)
  \/ RequestChanges(q)
  \/ Release(q)

(* The requests that can arrive now, with what they would read.             *)
FreshRequests ==
  {Request(op, d, u, 0, 0) : op \in {"start_revision", "obsolete"}, d \in Docs, u \in Users}
  \cup {Request(op, d, u, k, 0) : op \in {"approve", "request_changes"}, d \in Docs,
                                 u \in Users, k \in Cycles}
  \cup UNION {{Request("release", d, u, 0, v) : u \in Users, v \in 0..last[d]} : d \in Docs}

(* A request no other request overlaps.                                     *)
Serve ==
  \E q \in FreshRequests : Admitted(q) /\ Handle(q) /\ UNCHANGED inflight

Load ==
  /\ Cardinality(inflight) < MaxInFlight
  /\ \E q \in FreshRequests :
        /\ q.op \in Overlapping
        /\ Admitted(q)
        /\ inflight' = inflight \cup {q}
  /\ UNCHANGED <<docVars, versionVars, signVars, lockVars, taskVars, due, now>>

Commit ==
  \E q \in inflight : Handle(q) /\ inflight' = inflight \ {q}

Abort ==
  /\ \E q \in inflight : inflight' = inflight \ {q}
  /\ UNCHANGED <<docVars, versionVars, signVars, lockVars, taskVars, due, now>>

DocumentStep(d) ==
  \/ CreateDocument(d)
  \/ \E u \in Users : ImportBaseline(d, u)
  \/ \E u \in Users, t \in Tokens : Checkout(d, u, t)
  \/ \E t \in Tokens : AcquireThenCrash(d, t)
  \/ \E u \in Users : Checkin(d, u) \/ CheckinNoChange(d, u)
  \/ \E t \in Tokens : ReleaseAfterCommit(d, t) \/ CrashAfterCommit(d, t)
  \/ LockLapse(d)
  \/ BreakLock(d)
  \/ SubmitReview(d)
  \/ \E v \in Versions : ArchiveVersion(d, v)
  \/ \E v \in Versions : SweepCutover(d, v) \/ SweepSkip(d, v)

Next ==
  \/ \E d \in Docs : DocumentStep(d)
  \/ Serve \/ Load \/ Commit \/ Abort
  \/ SweepScan \/ SweepCrash
  \/ Tick

Spec == Init /\ [][Next]_vars

(***************************************************************************)
(* Properties.                                                             *)
(***************************************************************************)
\* Every variable keeps its declared type: the columns and keys it stands for.
TypeOK ==
  /\ docState \in [Docs -> DocStates]
  /\ eff \in [Docs -> 0..MaxVersions]
  /\ last \in [Docs -> 0..MaxVersions]
  /\ vstate \in [Docs -> [Versions -> VersionStates]]
  /\ author \in [Docs -> [Versions -> Users \cup {NoUser}]]
  /\ effFrom \in [Docs -> [Versions -> 0..MaxTime]]
  /\ supersededBy \in [Docs -> [Versions -> 0..MaxVersions]]
  /\ approvers \in [Docs -> [Versions -> SUBSET Users]]
  /\ releasers \in [Docs -> [Versions -> SUBSET (Users \cup {System})]]
  /\ imported \in SUBSET Docs
  /\ holder \in [Docs -> Users \cup {NoUser}]
  /\ draftToken \in [Docs -> Tokens \cup {NoToken}]
  /\ lock \in [Docs -> Tokens \cup {NoToken}]
  /\ unreleased \in [Docs -> SUBSET Tokens]
  /\ cycles \in [Docs -> 0..MaxCycles]
  /\ task \in [Docs -> [Cycles -> TaskStates]]
  /\ submitted \in [Docs -> [Cycles -> 0..MaxVersions]]
  /\ decided \in [Docs -> [Cycles -> 0..MaxVersions]]
  /\ inflight \in SUBSET Requests
  /\ due \in [Docs -> SUBSET Versions]
  /\ now \in 1..MaxTime

\* A document that has not been created has no versions, and no request reads it.
AbsentIsUntouched ==
  /\ \A d \in Docs : docState[d] = "Absent" => \A v \in Versions : vstate[d][v] = "Absent"
  /\ \A q \in inflight : docState[q.doc] # "Absent"

\* An open working draft carries the token it was opened with.
DraftHasToken == \A d \in Docs : holder[d] # NoUser => draftToken[d] \in Tokens

\* INV-1: at most one version of a document is Effective.  The model has no
\* partial unique index, so this shows the cutover alone keeps INV-1, even when
\* stale start-revision and obsolete requests have moved the pointer.
SingleEffective ==
  \A d \in Docs, v, w \in Versions :
     vstate[d][v] = "Effective" /\ vstate[d][w] = "Effective" => v = w

\* A version that governs, or once governed, carries a release signature and an
\* approval signature, or it is the first version of an imported baseline.
GovernedWereSigned ==
  \A d \in Docs, v \in Versions :
     vstate[d][v] \in {"Effective", "Superseded"} =>
        \/ d \in imported /\ v = 1
        \/ approvers[d][v] # {} /\ releasers[d][v] # {}

\* An Approved version carries an approval signature.
ApprovedWereSigned ==
  \A d \in Docs, v \in Versions : vstate[d][v] = "Approved" => approvers[d][v] # {}

\* The pointer current_effective_version_id names exactly the Effective version.
PointerMatchesState ==
  \A d \in Docs, v \in Versions : eff[d] = v <=> vstate[d][v] = "Effective"

\* The document's state and its newest version agree, whatever cycle of check-in,
\* submission, decision, release and revision led there.
StateMatchesLatest ==
  \A d \in Docs :
     /\ docState[d] = "InReview" => LatestState(d) = "InReview"
     /\ docState[d] = "Approved" => LatestState(d) = "Approved"
     /\ docState[d] = "Effective" => LatestState(d) = "Effective"
     /\ docState[d] = "UnderRevision" => LatestState(d) \in {"Effective", "Draft"}
     /\ docState[d] = "Draft" => LatestState(d) \in {"Absent", "Draft"}

\* A document is InReview exactly when the task of its newest approval cycle is
\* pending, and no older cycle has a task left to decide.
OnePendingTask ==
  \A d \in Docs, k \in Cycles :
     task[d][k] = "PENDING" <=> docState[d] = "InReview" /\ k = cycles[d]

\* One approval instance decides the one version it was opened for.
OneInstanceOneVersion ==
  \A d \in Docs, k \in Cycles : task[d][k] = "DONE" => decided[d][k] = submitted[d][k]

\* SoD-1 / INV-4: no version carries an approval by its own author.
AuthorNeverApproves ==
  \A d \in Docs, v \in Versions : author[d][v] \notin approvers[d][v]

\* SoD-2: no version is released by its author, nor by its approver unless the
\* organisation allows approvers to release.
ReleaserIsIndependent ==
  \A d \in Docs, v \in Versions :
     /\ author[d][v] \notin releasers[d][v]
     /\ AllowApproverRelease \/ approvers[d][v] \cap releasers[d][v] = {}

\* A superseded version was replaced by a later version that was itself released.
SupersededByLater ==
  \A d \in Docs, v \in Versions :
     vstate[d][v] = "Superseded" =>
        /\ supersededBy[d][v] > v
        /\ vstate[d][supersededBy[d][v]] \in {"Effective", "Superseded", "Obsolete"}

\* A version that has governed never returns to the approval path, and a retired
\* one never leaves Obsolete.
NoResurrection ==
  [][\A d \in Docs, v \in Versions :
        /\ vstate[d][v] = "Effective" => vstate'[d][v] \in {"Effective", "Superseded", "Obsolete"}
        /\ vstate[d][v] = "Superseded" => vstate'[d][v] \in {"Superseded", "Obsolete"}
        /\ vstate[d][v] = "Obsolete" => vstate'[d][v] = "Obsolete"]_vars

(* Which version governs, and which documents are retired, as readers see it. *)
Register == INSTANCE GoverningRegister
  WITH governing <- eff, retired <- {d \in Docs : docState[d] = "Obsolete"}

\* The vault implements the register: a release moves a document to a later version
\* in one step, and only a retirement, which is final, leaves it ungoverned.
ImplementsRegister == Register!Spec

\* The lock release that follows an earlier check-in never frees the lock of the
\* user who has checked the document out since.
LateReleaseHarmless ==
  [][\A d \in Docs :
        /\ lock[d] = draftToken[d] /\ draftToken'[d] = draftToken[d]
        /\ unreleased'[d] # unreleased[d]
        => lock'[d] = lock[d]]_vars

\* The Beat schedule runs, and a sweep is not killed before every cutover forever.
SweepFairness ==
  /\ WF_vars(Tick)
  /\ WF_vars(SweepScan)
  /\ \A d \in Docs, v \in Versions : SF_vars(SweepCutover(d, v))

FairSpec == Spec /\ SweepFairness

\* A version approved with a go-live time does go live, however often a sweep is
\* killed half-way.
ScheduledReleaseHappens ==
  \A d \in Docs, v \in Versions :
     (docState[d] = "Approved" /\ vstate[d][v] = "Approved" /\ effFrom[d][v] # 0)
        ~> vstate[d][v] # "Approved"

\* The rows of a document tell one story through every legal sequence of requests: pointer,
\* states and succession agree, and no version that has governed comes back to be approved.
DocumentIsConsistent ==
  [](PointerMatchesState /\ StateMatchesLatest /\ SupersededByLater) /\ NoResurrection

\* Whatever is decided twice, late or after a resubmission, an approval cycle has one open
\* task, decides the version it was opened for, and neither approval nor release is the work
\* of somebody SoD-1 or SoD-2 excludes.
ApprovalsAreSound ==
  OnePendingTask /\ OneInstanceOneVersion /\ AuthorNeverApproves /\ ReleaserIsIndependent
=============================================================================
