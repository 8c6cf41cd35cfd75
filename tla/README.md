# EasySynQ: a TLA+ verification project

EasySynQ is a document-control and quality-management system: a FastAPI service over PostgreSQL, Redis
and an object store, Celery workers driven by a Beat schedule, and a web client. This directory models the
parts of the service that decide *what governs, what is kept, and what can be proved about both afterwards*:
documents and their approvals, change requests, corrective actions and audits, records and their destruction,
evidence packs, the audit chain, imports, and the background jobs. TLC checks the models on small instances;
TLAPS proves most of the safety properties for every instance. Paths below are relative to
`src/apps/api/src/easysynq_api/` unless they start with `docs/` or `migrations/`.

- [Inventory](#inventory) · [Modules](#modules) · [Runs](#runs) · [Fairness](#fairness) · [Findings](#findings) ·
  [Proofs](#proofs) · [Abstractions](#abstractions) · [Not modelled](#not-modelled) · [Plan](#plan)

To repeat a run: `tlc -config X.cfg M`; to repeat a proof: `tlapm MProofs.tla`.

## Inventory

### Components, their state and operations

| component | state it keeps | operations | status |
|---|---|---|---|
| vault: lifecycle and release (`services/vault/lifecycle.py`) | `documented_information.current_state`, the pointer to the governing version, `document_version`, signatures | submit, approve, request changes, release (by hand, scheduled), start revision, obsolete, archive | modelled |
| vault: drafts (`services/vault/service.py`, `locks.py`) | `working_draft`, Redis key `lock:doc:{id}` | create, check out, check in, break lock | partly |
| approval tasks, separation of duties | instance, task and outcome of a document; SoD reads the version | instantiate, decide; SoD-1, SoD-2 | partly |
| workflow engine (`services/workflow/engine.py`, `domain/workflow/`) | instances, tasks, outcomes, definitions | instantiate, route, materialise, decide, cancel | modelled |
| change requests (`services/dcr/`) | `dcr` row, signatures | raise, edit, assess, cancel, route, decide, implement, close | modelled |
| CAPA (`services/capa/`, `domain/capa/`) | `capa`, `capa_stage`, evidence links | raise to close, plan approval, verification, loop | partly |
| internal audits (`services/audits/`) | `audit`, `audit_finding` records | findings, corrections, advance, close | partly |
| records (`services/records/`) | `record`, `blob`, evidence links, destroy requests, purge markers, objects in the store | capture, render, hold, dispose, destroy by order, purge | partly |
| evidence packs (`services/packs/`) | `evidence_pack`, its items, record, ZIP, portfolio and share links | create, generate, build, reap, share, invalidate | modelled |
| audit trail (`services/audit/`) | `audit_event`, `audit_chain_cursor`, `audit_checkpoint` | insert, link, anchor, verify | partly |
| ingestion (`services/ingestion/`) | `import_run`, groups, proposals, decisions, commit ledger, source-root lock, staged bytes | scan to propose, review, commit, resume, reap, cancel | modelled |
| email outbox (`services/notifications/drain.py`) | `notification_email` | enqueue, drain, requeue | partly |
| timers (`timer.py`, `escalation.py`) | stamps of a task, in-app rows, calendar | five-minute sweep | partly |
| acknowledgements (`services/ack/`) | obligations as workflow instances, `acknowledgement` rows | sweep, acknowledge | modelled |
| mirror (`services/vault/mirror*.py`) | trees on disk, `current` link, `mirror_build` rows | scan, quarantine, rebuild, swap, stamp | modelled |
| periodic review (`services/vault/review.py`) | `review_period_months`, `next_review_due`, `last_reviewed_at`, PERIODIC_REVIEW instances | edit of the period, daily sweep, decision of the owner | modelled |
| leadership gate (`services/vault/leadership_authorization.py`) | organisation flag, LEADERSHIP_AUTHORIZATION instances, `verify` signatures | request, decide, gate at cutover and implement | modelled |
| backup, setup, management review, registers, search, reports, web client | see `PROJECT.json` | | [not modelled](#not-modelled) |

### How the parts interact, and what makes that hard

A request handler is one database transaction, mostly under a row lock taken with `FOR UPDATE`. The hard
behaviours are where that is not so:

- **Rows read without a lock and written later.** `start_revision_endpoint` and `obsolete_endpoint` load the
  document without a lock; a task decision locks the task and keeps the document it loaded before;
  `release_endpoint` checks duties in one session and the cutover runs in another; the acknowledgement sweep
  plans from three queries.
- **Two stores.** Lock in Redis and draft in PostgreSQL; blob rows in PostgreSQL and bytes in the object store;
  registry rows in PostgreSQL and trees on disk. A process can die between any two of their steps.
- **At-least-once tasks.** Celery acknowledges late (`tasks/app.py`), enqueueing after a commit is best effort,
  and every chain of tasks has a reaper for the ones that were lost.
- **Sweeps.** Beat starts periodic tasks that scan, then act row by row, may be killed in between and may
  overlap (the email drain takes no lock at all).
- **Engine and caller.** The engine advances an instance; the caller maps the outcome onto its own state
  machine in the same transaction, or rolls both back.
- **Commit order is not id order.** Audit rows get their id at insertion and become visible at commit.
- **The outside.** The mail server accepts a message and loses the answer; somebody edits the mirror's disk;
  administrators edit roles, calendars, templates and definitions under running sweeps.

### What makes each component correct

*Vault*: at most one version governs (INV-1); pointer, document state and newest version agree; what governs was
approved and released by people independent of its author; a scheduled release happens; a change request is
carried out by the one version it claimed, and closed after that version took effect; a document that is due
is reviewed. *Engine*: a stage ends
exactly when its quorum is decided. *Change requests, CAPA, audits*: nothing is approved, carried out, verified or
closed without the signatures, evidence and corrections of *this* round. *Records*: evidence a record still
needs is there, evidence that is destroyed goes, and nothing is destroyed without a lawful reason. *Packs*: an
erasure reaches every copy (it does not reach all of them, see Findings). *Audit chain*: an untampered trail verifies and every
row is chained (given what PostgreSQL does not promise: finding 2). *Imports*: what was
reviewed enters the vault, once. *Outbox, timers, acknowledgements, mirror*: what is owed happens once and happens
at last, whatever dies on the way.

`PROJECT.json` lists each hazard at its line with the properties that would catch it.

## Modules

| module | models | composes |
|---|---|---|
| `GoverningRegister` | abstract: what the vault promises a reader, one governing version replaced in one step by a later one | – |
| `DocumentLifecycle` | drafts and lock, versions, approval cycle, cutover, release sweep | implements `GoverningRegister` |
| `WorkflowQuorum` | `required_approvals` and `quorum_state` as pure operators | – |
| `WorkflowEngine` | instances and tasks over any stage graph | `WorkflowQuorum` |
| `ChangeRequest` | the change-request state machine | `WorkflowEngine` |
| `ChangeImplementation` | implement and close of a change request, the leadership gate | `DocumentLifecycle` |
| `PeriodicReview` | the review clock of a document and the daily sweep | `DocumentLifecycle` |
| `Capa` | the CAPA state machine with its approvals, stages and evidence | – |
| `InternalAudit` | one audit, its findings, the closing gate | – |
| `RecordDisposition` | capture, retention, holds, disposition, destruction by order, two-phase purge | – |
| `EvidencePacks` | pack builds, nested packs, share links, invalidation | – |
| `AuditChain` | writers, linker, watermark, checkpoint, verification | – |
| `ImportPipeline`, `ImportReview`, `ImportCommit` | the three phases of an import | joined by the run's status |
| `EmailOutbox` | email rows, overlapping drains, a clock | – |
| `Mirror` | the pass under `LOCK_MIRROR_SYNC` and the disk | – |
| `Acknowledgements` | the obligations of one document and the sweep | – |
| `TaskTimers` | reminders, overdue, escalations over a business calendar | – |
| `MC…` | TLC instances: graphs, policies, scopes, symmetry | the modules they name |
| `DocumentLifecycleProofs` | what holds of the vault whatever is overlapped | `DocumentLifecycle` |
| `VaultOrderProofs` | the vault when only decisions are overlapped; reviews and change requests on top of it | `DocumentLifecycle`, `GoverningRegister`, `PeriodicReview`, `ChangeImplementation` |
| `WorkflowProofs` | quorum, engine and change requests | `WorkflowQuorum`, `WorkflowEngine`, `ChangeRequest` |
| `QualityProofs` | corrective actions and audits | `Capa`, `InternalAudit` |
| `EvidenceProofs` | records and packs | `RecordDisposition`, `EvidencePacks` |
| `AuditChainProofs` | the chain, and the attested rows | `AuditChain` |
| `ImportProofs` | the source root, the commit ledger and the review | `ImportPipeline`, `ImportCommit`, `ImportReview` |
| `OperationsProofs` | the outbox, the mirror, the obligations and the timers | `EmailOutbox`, `Mirror`, `Acknowledgements`, `TaskTimers` |

Operators marked *Mutant* stand before the definition they replace and show that each property can be broken
by a plausible mistake in the code.

`MCQuality`, `MCGovernance`, `MCEvidence`, `MCImports` and `MCOperations` hold several components that share no state,
or share the vault. Each has one more variable (`area`, `focus`, `matter`, `stage`, `job`) that says which component is at work; the others keep their initial values.
A run thus explores the union of the components' state spaces, not their product, and a component's fairness
is asked for only while it is at work.

### DocumentLifecycle

One action is one committed transaction. Handlers that lock the document row first (`Checkout`, `Checkin`,
`BreakLock`, `SubmitReview`, `Cutover`) are atomic. A handler that reads without a lock is a *request*, a record
of what it read: `Serve` handles it at once, `Load` keeps it in `inflight`, `Commit` writes from the kept
values, `Abort` drops it. `Overlapping` says which operations may be split this way, so that a run says *which* race a
property does not survive. A decision re-reads the task under its lock, takes the newest version as it is
now, but finds that version in its session as it was when the request loaded it (`DecidedState`): SQLAlchemy does
not refresh a row already in the identity map. The partial unique index behind INV-1 is deliberately not in
the model: run and theorem show that the cutover keeps INV-1 by itself. The singleton index is
(`SingletonSlotFree`), as the code has nothing else.

### WorkflowEngine, WorkflowQuorum, ChangeRequest

A stage graph is a constant: a function from stage keys to records of mode, role, users named by the context,
conditional quorum, conditional route, success and reject edges. A conditional is a list of `key == value`
branches with a default; a key missing from the context makes it unresolvable (`NoResult`), never its default.
`Landing` walks routers; a walk that has not left them after as many hops as there are stages is a cycle and
ends in NEEDS_ATTENTION. Every handler locks the instance row first, so each is one step. `ContextLost` stands
for the corruption the `unresolvable_quorum` branch guards against. `ChangeRequest` conjoins engine operators with the `dcr`
row: `RouteDcr` is `Instantiate` refused when the entry stage cannot be staffed, `ApproveDcr` is `Decide` rolled
back when the next stage cannot, `RefuseDcr` forces the instance to its end after one refusal. `ApprovalGraphAssumption`
states what a change request relies on in the definition migration 0043 seeds: every tier leads to another one or
completes, and the first tier of a MAJOR change is not the last.

### ChangeImplementation and PeriodicReview

Both extend the vault and constrain its steps instead of repeating them. `ChangeImplementation` takes over where `ChangeRequest`
ends: `ScheduleChange` is `implement_dcr` for a revision or a new document (resolve the version, find it unclaimed, preflight
the leadership gate, set date and link in one commit), `ImplementRetire` conjoins the vault's `Obsolete`, `CloseChange` is the
close gate. `VaultStep` is the vault with `assert_release_authorized` in its cutover, and `SweepHeld` is the sweep
swallowing the gate's refusal. The flag, the members of Top Management and the authorization of a version change at any time.
Anybody may implement: the SoD-2 check of the endpoint is the release's. Managed subtypes, which the code refuses for
a new document, are not among the documents. `PeriodicReview` adds the three writers of `next_review_due` to
the vault. A sweep is split into its reads, its writes (invisible until the end) and its only commit; a worker may die
before the commit, and the task may be delivered again while it runs. Months are instants of the clock. `snap_to_working_day` gives up
after a fixed walk (`SnapDays`, two instants in the run); `CalendarAssumption` says that the calendar never rests for longer.

### Capa and InternalAudit

`trail` is the append-only list of `capa_stage` rows, each with its cycle, author, decision, owners and signers; the
gates of `domain/capa/` are operators over it. Role holders and the self-verify flag are read by the handlers at
the moment they run and are inputs of the actions. `advance_capa_to_root_cause` accepts the edge from Verify
as the code does, without starting a new cycle. `InternalAudit` keeps the findings as a sequence in which a
correction supersedes its predecessor; `CorrectRecord` is the generic correction of a record, which may
supersede a finding without going through the audit.

### RecordDisposition

Database transactions are atomic; every call to object storage is a step of its own (`CapturePromote`,
`CaptureExtend`, `RenderStore`, `PurgeErase`), and a crash may separate it from the commit that follows (`CaptureAbort`, `RenderCrash`,
`PurgeCrash`). `owns`, `blobRow`, `bytes`, `rowLock`, `objLock` and `markers` are the ownership rows, blob rows, objects, the retention the database
remembers, the retention the store enforces, and the `pending_blob_purge` rows. Row locks that a transaction holds over such a call
are guards of the others (`RowFree`, `BlobsFree`, `ObjectFree`). `MarkerAuthority` is the reaper's own check that
a marker's bypass of retention is backed by an executed order.

### EvidencePacks

A build holds the organisation's pack lock shared and its pack row from its first read to its commit, and a
destruction by legal order takes the pack lock exclusively; members may be destroyed on schedule meanwhile. A
build message may be lost, delivered again during the build or after it, and the worker may die at any step. `_fail`
runs in a session of its own and sets FAILED whatever the row says by then, also of a pack that another delivery has sealed;
its record and its ZIP stay (`FailedAfterSeal`). `Copies` is everything whose content is in the ZIP of a pack, at any depth of nesting.

### AuditChain

A hash is represented by what it is the hash of: `prev` of a row is the row it was chained to. `SnapshotXmax` and
`SnapshotXmin` are what PostgreSQL answers, an xmax one past the highest *completed* xid. The watermark's docstring argues from
more than that: whoever can still fill a gap has an xid below the recorded xmax (`WritersLieBelow`). The history
variable `covered` says whether that has held of every stall so far; no step looks at it. The linker is split at its commits.

### ImportPipeline, ImportReview, ImportCommit

*Pipeline*: runs of one source root, one Celery task per stage, a Redis lock with a TTL as token, a reaper. A stage ends in
two steps: `CheckOwnership` takes the run's row lock, reads the row and then the key (`OwnsStage`); `FinishStage` commits. In
between the row is locked (`Finishing`), so nobody else moves the run, but the key in Redis may lapse and go to
another run. A created run whose first task is lost is not in progress and is left to the operator, as in the code. *Review* starts from every
grouping the analysis can produce on a few files (`ComputedFamilies`, `ExactClusters`, `NearClusters`); decisions are
kept as their fold; merges, splits, bulk decisions, owner pins, the checklist and the start and resume of the
commit are actions. *Commit*: any number of workers walk the items; the ledger's conditional upserts
(`ClaimWins`, `FailureWins`) are the only thing between them.

### EmailOutbox, Mirror, Acknowledgements, TaskTimers

*Outbox*: a drain is what it is doing, its age (its clock is frozen when it starts), how many rows it may still
handle, the row at hand and how long the exchange with the mail server has lasted; `wait` is `next_attempt_at`
relative to the present, which keeps the state space finite. *Mirror*: a tree is the release it was built from
and what happened to its bytes; names are reused once neither disk, registry nor pass mentions them. A scan may raise before it
found anything, before it swept `.builds`, before the quarantine or while writing its index (`Reaches`); what it has
seen by then is `seen`, and only that is told by a report of its findings. *Acknowledgements*:
the sweep's queries are steps, its changes one transaction. *Timers*: time is counted in
parts of a day, the calendar's zone is ahead of UTC, and `ShiftBusinessDays` is the code's search for the nth
working day, checked against a count of working days.

## Runs

Eight runs pass, four find what [Findings](#findings) describes. A property that joins several parts names
them here.

| run | properties | what they say |
|---|---|---|
| `lifecycle_overlap` | `TypeOK`, `SingleEffective`, `GovernedWereSigned`, `LateReleaseHarmless` | survive any unlocked request being overtaken by any other |
| `lifecycle_orderly` | `ApprovalsAreSound` = `OnePendingTask`, `OneInstanceOneVersion`, `AuthorNeverApproves`, `ReleaserIsIndependent`; `DocumentIsConsistent` = `PointerMatchesState`, `StateMatchesLatest`, `SupersededByLater`, `NoResurrection`; `ImplementsRegister`; `ScheduledReleaseHappens` | hold when only task decisions are overtaken; the third is the refinement of `GoverningRegister`, the last is liveness |
| `workflow_engine` | `PendingOnlyInCurrentStage`, `StageEndsAreRight` = `EngineTypeOK`, `LiveStageHasWork`, `AdvancedHadQuorum`, `FailedWasHopeless`, `MarkerTellsEnding`; `NoSilentDowngrade`, `TerminalIsFinal` | the engine on a graph with every feature, roles changing under it |
| `quality` | `DcrIsSound` = type, `PendingOnlyInCurrentStage`, `ApprovalIsOpen`, `ApprovedWasSigned`; `CapaIsSound` = type, `PlanWasApproved`, `ApprovalBelongsToRootCause`, `ClosedWasVerified`; `ClosedAuditIsCorrected` | the quality processes rest on the signatures, evidence and corrections their gates ask for |
| `governance` | `ReviewsAreSound` = `DueDateIsRight`, `OneReviewPerCycle`, `ConfirmedGoverned`; `ChangesAreTraceable` = `LinksAreMutual`, `ClosedTookEffect`, `AuthorizedOnce`, `HeldUpOnlyByGate`; `ImplementedGoesLive`, `DueIsReviewed` | change requests, the leadership gate and the review clock on top of the vault; the last two are liveness of the two sweeps |
| `evidence` | `EvidenceIsAccountedFor` = type, `BlobRowHasBytes`, `PreservedKeepsEvidence`, `ErasureIsTracked`; `DisposalIsLawful` = `DestructionIsLawful`, `LockedLeavesByOrder`, `DisposedIsFinal`; `RecordErasureCompletes`; `PacksAreSound` = type, `OneRecordPerPack`, `ErasedIsNoMember`, `OnlyFailedPacksHideCopies`, `ServedPacksAreWhole`; `PackBuildsEnd`; `ChainIsSound` = type, `CheckpointStaysTrue`, `ChainedIsFinal`, and, while `covered`, `UntamperedChainVerifies` and `WatermarkIsDecided`; `ChainCatchesUp` | database and object store agree between any two steps, and the purge completes; redelivered builds, nested packs, erasure at any time: it overlooks no copy except inside a pack that failed after it sealed; under PostgreSQL's snapshots what is attested stays true, the chain verifies as long as the watermark's own precondition held, and no row is left behind unless it failed |
| `imports` | `ReviewIsHonoured` = type, `EveryFileRepresented`, `CommittedOwnerIsReviewed`, `NoChainIsDropped`, `KeptVersionIsSticky`, `ImportedIsFrozen`; `LedgerIsTrue` = type, `CommittedExactlyOnce`, `CompletedMeansAll`, `SuccessIsFinal`; `RootIsExclusive` = type, `LostRootNeverProposes`, `RootIsFreedByItsRun`; `EveryRunLeavesPipeline`, `CommitStageComesToRest` | the three phases of an import; a run that lost its root never regains it, and only a stage already past its last check still commits |
| `operations` | `SendersAreApart`; `OutboxIsSound` = type, `SendsAreBounded`, `OneAlarmPerFailure`, `SentIsFinal`; `EveryEmailSettles`; `MirrorIsTrusted` = type, `ServedTreeHasRow`, `InterruptedStampIsNoAlarm`, `NothingIsPrunedUntold`; `MirrorJobConverges`; `ObligationsAreSound` = type, `OneOpenObligation`, `EvidenceMatchesDuties`, `MetIsNeverCancelled`, `OwedSurvivesBrokenDefinition`; `ObligationsReconcile`; `NoticesAreSound` = type, `StampedWasTold`, `EscalationAuditedOnce`, `NobodyIsPingedEarly`; `OverdueIsNoticed` | the background jobs |
| `lifecycle_stale_duty`, `audit_chain_late_row`, `capa_stale_evidence`, `dcr_wedge` | one each | violated, see [Findings](#findings) |

**Bounds.** *Vault*: one document (documents share nothing but the singleton index), two users (author and
approver differ, and SoD-2 then leaves only the sweep to release), two lock tokens (one held, one whose release is
late), two or three versions and two cycles (a revision, a rejection with resubmission and a supersession all
happen), two instants, one overtaken request at a time. *Engine*: three users, a graph with all kinds of quorum, a
router that loops, a pool from the context and a malformed definition. *Quality*: two rounds of approval of one
change request over the graph migration 0043 seeds; a CAPA with nine stages, enough for the loop back and a second
verification; three findings, so that a correction can itself be corrected. *Governance*: two requests for one document of two
versions and two go-live dates without the gate, one request under it with one director; a review period of none, one or
two of three instants, one of them a rest day, two deliveries of the sweep, one decided review. *Records*: two records
that may share one content, one of them rendered, three policies, one capture that rolls back; a shared content with one disposed
and one live owner is the case all guards are about. *Packs*: a pack inside a pack, two workers, two
generate requests, one message waiting per pack. *Audit chain*: three transactions, three ids, batches of one row
and windows of two, so that observation and batching both split the ids; one death of the linker. *Imports*: two
runs and two workers, one repeated delivery, either of two workers on one run or of two runs on one worker (`DeliveriesAreFew`); three files, one code, two owners and two requests for the review (every pair of
operations from every grouping); two items, two workers and three commit tasks for the commit. *Operations*: two
drains that may last as long as two leases (`MaxRun` is not below `RetryBase`: nothing in the code bounds a drain), two attempts, one requeue; two faults, one change to the disk and one release for the mirror; three versions, two
users, two sweepers and three changes; a week of three days with two working days, reminders and escalations of one and a half and two
days, two edits. Deadlock is not checked: a run may use up its bounded versions, requests, messages or instants and stop;
that nothing stops short of them is what the liveness properties say.

## Fairness

Weak unless said otherwise; nothing is assumed of users, administrators, the mail server or whoever touches the disk.

| specification | assumption | why the code justifies it |
|---|---|---|
| `SweepFairness` | the clock; the scan; strong: a cutover that the sweep keeps reaching | Beat schedules the sweep (`tasks/app.py`); a sweep is not killed before the same cutover for ever |
| `ChangeFairness` | as `SweepFairness`, for a cutover the leadership gate lets through | Beat |
| `ReviewFairness` | a sweep starts and goes on; strong: one of them commits | Beat delivers it daily; not every delivery is killed |
| `DrainFairness` | the clock; each worker goes on; strong: a due row is claimed | Beat starts drains; sends end by the client's timeout; workers do not die for ever just before the same row |
| `RecFairSpec` | a capture ends; locks expire; a started purge ends; strong: the reaper gets at a marker the store would honour | transactions end; Beat runs the reaper again and again |
| `PackFairSpec` | a live build goes on or dies; strong: the reaper finds some stalled pack's row free | the reaper skips a locked row and comes back |
| `AuditFairSpec` | the linker goes on; transactions end | Beat; PostgreSQL ends a transaction with its connection |
| `PipelineFairSpec` | time passes; the reaper runs; strong: a stage reaches its last check, commits or raises | a stage has finitely many batches |
| `CommitFairSpec` | a live worker goes on | deaths are bounded by `MaxTasks`, each followed by its late-acknowledged redelivery |
| `MirrorFairSpec` | the hourly scan starts; a live pass goes on | Beat; *no* sync asked for by a release is promised |
| `AckFairSpec` | the daily sweep starts and goes on | Beat; no triggered sweep is promised |
| `TimersFairSpec` | time; sweeps start; strong: one of them is not skipped | `pg_try_advisory_xact_lock` skips only while another sweep works |

## Findings

Each of these is a run that TLC violates, against a sentence of the repository.

1. **The duty check and the cutover may see different versions** (`lifecycle_stale_duty`, `ReleaserIsIndependent`),
   against the comment at `api/documents.py` 2022–2024. Without a `version_id`, the endpoint resolves the latest
   Approved version for SoD-2 and the cutover resolves it again in its own session.
2. **A row that is still to come is given up, and may stay unchained** (`audit_chain_late_row`, `EveryRowIsChained`),
   against `services/audit/watermark.py` 17–18 and the argument at 23–26. `pg_snapshot_xmax` is one past the highest
   *completed* xid; an open transaction may have a later one and a lower row id. The watermark passes its row. The
   linker links only in a tick in which the watermark advances (`linker.py` 205–208), so the row waits, outside the
   chain, until another row arrives; it is then chained after higher ids, and `verify_chain` reports a break on an
   untampered trail. It takes two transactions of which the one that wrote first draws its audit id last, as a
   handler that writes its rows before its audit event does. `ChainIsSound` and `ChainCatchesUp` show that nothing
   else breaks the chain and nothing else is left behind.
3. **A CAPA closes on the evidence of an earlier pass** (`capa_stale_evidence`, `ClosedOnFreshEvidence`), against
   `domain/capa/closure.py` 18–19 and `domain/capa/fsm.py` 11: `advance_capa_to_root_cause` takes the edge from
   Verify without starting a new cycle.
4. **A change request wedges although its tiers are staffed** (`dcr_wedge`, `ApprovalCanBeDecided`), against
   `services/dcr/service.py` 643–649. The rollback there covers an empty pool; when the only candidate of the second tier
   signed the first, the guard at 552–558 refuses the only one who could decide. A CAPA approval wedges in the same way.

The following departures are reachable in the models, and the passing property that comes closest names them as its
exception; a property without the exception is violated by the specification as it stands.

- **An erasure misses a copy**, against `services/packs/repository.py` 577–578. `_fail` of one build sets a pack FAILED
  that another build has sealed (`services/packs/build.py` 222–243); its record and ZIP stay and are copied into other
  packs, but the erasure looks at SEALED packs only. It overlooks the failed pack, and every pack that copied it, before
  or after. `OnlyFailedPacksHideCopies` says that there is no other way.
- **Two runs publish a proposal of one source root**, against `docs/09-ingestion-engine.md` 160 and
  `docs/slice-history.md` 54. The terminal transaction reads the key in Redis and commits later
  (`services/ingestion/propose.py` 209, 224); the row lock it holds does not hold the key. `LostRootNeverProposes` excepts
  the stage that was past its last check.
- **Two drains send one email at once**, against `services/notifications/drain.py` 134–135. The lease runs from the
  start of the drain; a drain of many slow sends outlasts it. `SendersAreApart` is what the lease does give: senders
  that overlap started at least the base wait apart. It speaks of the time before a requeue, which sets
  `next_attempt_at` to NULL and so lifts the lease of a drain that still hangs on the row.
- **A planted tree is pruned untold**, against `services/vault/mirror_scan.py` 743–745 and 579–580. A scan that raises in
  `_known_digests` (751) salvages the findings of the served tree and never sweeps `.builds`; the sync then prunes what
  was planted there, without event and quarantine. `NothingIsPrunedUntold` excepts what a failed scan has not seen.
- **A retired document is revised**, against `docs/04-document-control-and-vault.md` 145: `start_revision`
  (`services/vault/lifecycle.py` 308) checks a row it loaded without a lock and writes `UnderRevision` over an `obsolete`
  that committed since. `DocumentIsConsistent` is therefore checked and proved with start-revision not overtaken.

Also observed while modelling:

- Two singletons may govern: the index (`db/models/documented_information.py` 62) follows the document's state, and a
  governing document under revision is not `Effective` (docs/04, R25).
- The failure of a late import stage fails a run already
  under review (`services/ingestion/service.py` 676–688, against the comment at 101–106).
- `capture_correction` (`services/records/service.py` 696–769) supersedes a finding without the audit's lock, so a
  nonconformity leaves the closing gate without a CAPA; `ClosedAuditIsCorrected` speaks of live findings only.
- The structured rendition of a record may be stored after its evidence was marked for purge
  (`services/records/render.py` 188): bytes no row and no marker knows. `ErasureIsTracked` speaks of captured evidence only.
- A first-ever mirror build whose swap fails leaves a row without a published tree, and the next scan reports a
  tampered mirror (`services/vault/mirror.py` 829–831); `InterruptedStampIsNoAlarm` excludes that fault.

## Proofs

| theorem | statement | invariant it rests on |
|---|---|---|
| `DocumentLifecycleProofs!TypeCorrect` | `Spec => []TypeOK` | `Types`: `TypeOK` with `DraftHasToken` |
| `…!EffectiveIsUnique`, `GovernanceIsSigned` | `[]SingleEffective`, `[]GovernedWereSigned` | `Governed` |
| `…!LateReleaseSparesHolder` | `Spec => LateReleaseHarmless` | `Types` |
| `VaultOrderProofs!DocumentsStayConsistent`, `ApprovalsStaySound` | `Spec => DocumentIsConsistent`, `ApprovalsAreSound` | `OrderInv`, given `OnlyDecisionsOverlap` |
| `…!VaultImplementsRegister` | `Spec => ImplementsRegister` | `OrderInv`, given `OnlyDecisionsOverlap` |
| `…!ReviewsStaySound` | `ReviewSpec => ReviewsAreSound` | `ReviewInv` over `OrderInv` |
| `…!ChangesStayTraceable` | `ChangeSpec => ChangesAreTraceable` | `ChangeInv` over `OrderInv` |
| `WorkflowProofs!ExhaustedStageIsDecided`, `MetMeansEnough`, `FailedMeansHopeless` | what `quorum_state` answers | none (arithmetic) |
| `…!EngineTypeCorrect`, `PendingIsCurrent`, `TerminalsAreFinal` | types, `[]PendingOnlyInCurrentStage`, `TerminalIsFinal` | `EngineInv` |
| `…!StagesEndRight`, `DowngradeIsNeverSilent` | `EngineSpec => StageEndsAreRight`, `NoSilentDowngrade` | `StageInv` |
| `…!DcrsStaySound` | `Spec => DcrIsSound` | `DcrInv` over `StageInv` |
| `QualityProofs!CapasAreSound`, `ClosedAuditStaysCorrected` | `CapaIsSound`, `ClosedAuditIsCorrected` | `CapaInv`; the closing gate's own |
| `EvidenceProofs!EvidenceStaysAccountedFor`, `DisposalStaysLawful` | `EvidenceIsAccountedFor`, `DisposalIsLawful` | `RecInv` |
| `…!PacksStaySound` | `PacksAreSound` | `PackInv` |
| `AuditChainProofs!ChainNeverBreaks` | `ChainIsSound` | `AuditInv` |
| `…!AttestedIsFinal` | attested rows never change, whatever the snapshot | `AttestInv` |
| `ImportProofs!RootStaysExclusive`, `LedgerStaysTrue` | `RootIsExclusive`, `LedgerIsTrue` | `RootInv`, `LedgerInv` |
| `…!ReviewStaysHonoured` | `ReviewSpec => ReviewIsHonoured` | `ReviewInv` of the import |
| `OperationsProofs!OutboxTypeCorrect`, `SentStaysSent` | `Spec => []TypeOK`, `SentIsFinal` | `Types` of the outbox |
| `…!SendersStayApart` | `Spec => []SendersAreApart` | `Leased` |
| `…!OutboxStaysSound` | `Spec => OutboxIsSound` | `CountInv` |
| `…!ObligationsStaySound` | `AckSpec => ObligationsAreSound` | `DutyInv` |
| `…!NoticesStaySound` | `TimersSpec => NoticesAreSound` | `NoticeInv` |
| `…!MirrorStaysTrusted` | `MirrorSpec => MirrorIsTrusted` | `MirrorInv` |

They hold for every value of the constants that satisfies the named assumptions: any number of documents,
users, versions and cycles, any stage graph of the assumed shape, any number of records, packs, workers, rows and
deliveries. TLC checked each inductive invariant on an instance before its proof was begun, and evaluates
every assumption in the runs. The invariants below are what has to be true *between* the steps for the properties
to survive them.

### The vault

*Single Effective version.* `SingleEffective` is nearly inductive: the cutover supersedes every Effective version
it finds, and no other action makes one, except an import, which needs that a document without state has no
version (`AbsentIsUntouched`, which also says that no request in flight reads such a document). Signed
governance needs that an Approved version carries a signature before it is released. Neither needs a
hypothesis about overlapping requests.

*Order.* Pointer, state, duties and succession do. `OrderInv` says of each document that its version rows are dense and only the
newest is on the approval path (`VersionsAgree`), that the document's state fits it (`NewestFits`), that what is
Approved was signed by somebody other than its author and what was released, by somebody independent or by the sweep
(`SignaturesFit`), and that the open task is that of the newest cycle (`CyclesFit`); and of a decision in flight that what it read is
still true or will be refused (`DecisionFits`). Every step is first shown to be one of ten moves of one document's
row (`Created`, `Submitted`, `CutOver`, …), and each move to keep each part. The hypothesis `OnlyDecisionsOverlap` cannot be dropped: with release overtaken,
the duties go wrong (run `lifecycle_stale_duty`); with start-revision overtaken, the state does ([Findings](#findings)).
The refinement of `GoverningRegister` follows step by step: a cutover or an import adopts, an obsolescence
retires, and everything else is a stutter.

*Reviews.* `ReviewInv` adds that the stored date is the right one while a document governs (`ClockRight`), and that only the last
review is open. The delicate part is `SweepFits`: what a sweep has read, and written but not committed, still fits the
rows when it commits, because only a sweep opens reviews and there is one at a time (`OneSweep`). `CalendarAssumption`
makes the walk to a working day arrive.

*Changes.* `ChangeInv` adds `ResultFits`: a version claimed by a request stays decided, signed and dated and is released
once it leaves Approved; `ClaimFits`, that the version points back; and `ReleasesFit`, without which `CREATE`
could be carried out by a version with a released predecessor. An open authorization is for a version Top Management has not
signed (`AuthorizationFits`), hence `AuthorizedOnce`. `HeldUpOnlyByGate` is an action property: every step but
the switch of the flag keeps `GateOpen` for what is scheduled.

### Engine and quality processes

*Stages.* Closing a stage retires its open tasks and only the entered stage gets new ones; that a terminal
state is final then follows, because only a pending task can be decided. `StageInv` further keeps, per instance
and stage, that a row's state, outcome and actor agree, that approvers differ, that an open stage still has work and a pending verdict, and
that how a stage was closed agrees with its rows for ever. That last part needs that a stage is never entered twice:
`GoesForward` with `StageGraphAssumption`. A conditional's first matching branch is found by a least-counterexample
argument (`WFMin`), since induction over the branches is out of reach.

*Change requests.* `DcrInv` says that a request is in approval exactly while its instance is open, that every tier
it has left was signed, and that no two requests share an instance. `ApprovalGraphAssumption` then gives a MAJOR change a second
tier; that its signer is another one is the refusal of a second signature by the same user. An approval can never fail a stage nobody
rejected, and a rejection never meets a quorum, so that instance and request cannot drift apart. What is proved is that there is a task
to decide; that somebody may decide it is not true (finding 4).

*CAPAs and audits.* `CapaInv` reads the trail backwards: the last block tells the state (`LastBlockTells`), the latest plan of the cycle is
later than its root cause and approved (`PlanInForce`), at most one approval of a plan is open (`OneApproval`). `VerifiersIndependent` looks at the whole trail. The audit's property is nearly inductive:
besides the types, each step that corrects, retypes or opens something has to be shown to add nothing that would have blocked the gate.

### Evidence

*Records.* `RecInv` ties five stores together. A destroyed record's tombstone matches its order (`TombstoneFits`), ownership implies row, bytes and
capture (`OwnershipFits`), a marker names what its record once kept and bypasses a lock only by an order (`MarkerFits`), a
purge, a rendering or a capture in flight excludes those that would undo it (`PurgeFits`, `RenderingFits`,
`CaptureFits`: the row locks of the code). `DisposalIsLawful` is an action property and follows from it. *Packs.* A worker that holds a pack's row is alone (`OneWorkerPerPack`) and finds it
BUILDING; what it has gathered is not erased before it seals. `AffectedIsClosed` shows that the packs an erasure hits are closed under
copying, so that no sealed pack keeps an erased member. Depth comes in with `FailedPacksHideCopies`: the copies that are not erased, or
that some failed pack explains, contain what the pack copied and are closed under the ZIPs among them, hence are all its copies.

*Audit chain.* `AuditInv` says that, while `covered` holds, every id up to the watermark belongs to an ended transaction, a stall's xmax
covers the writers of every id up to its ceiling (`StallIsCovered`), that the chained rows are a prefix of what is visible
(`ChainIsPrefix`), and that the hash carried from batch to batch is the head (`SeedIsHead`). The theorem assumes nothing of snapshots; `audit_chain_late_row` shows how the condition inside
it comes to fail. `AttestedIsFinal` has no such
condition: whatever the linker gives up, a checkpoint remains true.

### Background jobs

*Imports.* The root: a worker about to give the root back belongs to a run that has ended, and a worker past its last check is alone
with its run, whose status is still the one it checked (`RootInv`). The ledger: what
a committer has passed is settled (`WalkFits`), and every failure and every staging of an item is paid for by a delivery of its own (`ItemIsPaid`), which bounds both.
The review: version families share no file and hold no replaced duplicate, clusters keep their least file (`GroupsFit`), and
a pin is the owner chosen last (`PinsFit`). A merge or split of clusters never replaces a file that was not replaced before
(`SmallerGroupReplacesLess`), so families need not be looked at again. `EveryFileRepresented` then follows for every number
of files: a family's kept version is a node, a cluster's kept file comes before those it replaces, so the least file
without a chain to a node cannot exist. `Represented` is a recursive function, and that it exists is proved first (`GrowthExists`).

*The lease.* `SendersAreApart` is not inductive: nothing in it says when a leased row becomes due. `Leased` adds that
the lease of a row being sent runs out no earlier than the base wait after its sender started, so that whoever finds it due started
at least that much later. `BackoffAssumption` (doubling does not shorten the
wait) is evaluated by TLC and assumed by the proof, since exponentiation needs an induction. *Copies.* Without the lease,
drains may send twice, yet not without bound: `CountInv` counts every copy accepted *or in flight* against
the attempts of this and earlier rounds, and alarms against requeues.

*Obligations.* `DutyInv` says that a user's completed obligations and acknowledgement rows correspond one to one and at
most one is open, and of a sweep that has planned that it knows every pair that is *still* open: users may
acknowledge behind its back, but nobody else opens (`OpenKnown`, one sweep at a time under the advisory lock).

*Timers.* The invariant is short: a step of which somebody was told is stamped (`NoticeInv`), so no later sweep finds it
due. The arithmetic is the work: `NthAfter` and `NthBefore` show that the day `shift_business_days` finds has its full
number of working days behind (ahead of) the due date, by ranks in a finite set of days and the least element instead
of an induction over the count. `OffsetsAssumption` is what `timer.py` relies on: an offset splits into whole days and a
remainder below one day, and time never comes near year 9999, the answer of `shift_business_days` when it finds no day.

*Mirror.* `MirrorInv` has a part for each promise. A pass that rebuilds has nothing left in its scope that its scan has seen, because a
silent scan has an empty scope (`ScopeIsFound`), findings are told before the rebuild, and untold ones put it off (`ToldFirst`); what a failed scan
never saw stays in the scope, and may be pruned untold.
While a build is under way the pass knows which row to spare (`RowIsKept`), and pruning keeps it and the newest row
(`KeptRowsFit`, by the ranks used for the timers). And as long as only scans, writes and stamps fail, `current` leads to the newest row and the
disk holds nothing else but the tree being built (`NothingToFind`), so a scan takes a lost stamp for what it is (`QuietScan`).

**Only model-checked.** All liveness properties (`ScheduledReleaseHappens`, `ImplementedGoesLive`, `DueIsReviewed`,
`RecordErasureCompletes`, `PackBuildsEnd`, `ChainCatchesUp`, `EveryRunLeavesPipeline`, `CommitStageComesToRest`,
`EveryEmailSettles`, `MirrorJobConverges`, `ObligationsReconcile`, `OverdueIsNoticed`): they need ENABLED, which the installed
provers do not handle. Every safety and action property of a passing run has a theorem. The runs that expect a
violation have nothing to prove.

## Abstractions

- Refused requests (404, 409, 422) and idempotent replays change nothing and are no actions. Audit rows,
  notifications and response bodies are left out, except where a property speaks of them.
- Gates that only refuse a transition (clause mapping, retirement impact) are left out: every behaviour with them is
  one without them.
- Content is not modelled: a version is a number, evidence is its sha256, a tree is the release it was built from.
- Conditions of a stage graph are equalities. A stage that hands out tasks does not lead back to itself
  (`StageGraphAssumption`), as in all seeded definitions: the code counts task rows by stage key alone.
- A rendition is stored in a bucket of its own and prints its record's identifier: no evidence and no other record
  has the same object (`RenditionsAssumption`). Uploading a rendition back as evidence is left out.
- An email's recipient is reachable or not; SMTP configuration and the organisation's switch are one flag.
- A CAPA's approval instance is the seeded definition only (migration 0038), with its decisions folded into one record.
- ImportReview: identifiers that never collide are one value; blank identifiers and singleton types are left out.
  The commit worker loads the decisions once and walks with them; ImportReview takes the walk as one step and
  ImportCommit has no decisions, so a correction in the middle of a walk is in neither.
- The two queries the acknowledgement sweep makes for satisfied users and open tasks are separate steps, as they
  have separate snapshots.
- History variables (`submitted`, `decided`, `closed`, `delivered`, `alarms`, `kept`, `strays`, `seals`, `audits`, `covered`) stand for facts
  the code keeps in outcome rows, audit events or outside.

## Not modelled

- **Digest bundler and awareness fan-out**: two more claim-and-stamp sweeps. Hazards seen there: two digest sweeps bundling
  the same notifications (an advisory lock per user keeps them apart), and the fan-out's oldest 200 events starving
  later ones if they can never be processed.
- **Complaints, nonconformity registers**, the change request a CAPA may raise, the CAPA overdue sweep, audit programmes.
- **Management review, objectives, risk and other registers**: short, sequential
  state machines on top of the lifecycle.
- **Authorization algebra and the last-administrator guard**: set computations over grants; the guard serialises on
  an advisory lock.
- **Backup, restore, upgrade**: archive formats, encryption and processes outside the service.
- **Audit partitions, archive, external sink, history reconciliation**: byte protocols and canonical encodings.
- **Setup wizard, search, similarity, reports, visual diff, identity, HTTP layer, web client, migrations**: queries,
  rendering, one-time sequences, or no state of their own.

## Plan

1. Review and commit of an import composed, so that a correction in the middle of a walk is covered.
2. The digest bundler and the awareness fan-out, the last two claim-and-stamp sweeps.
3. The CAPA overdue sweep and the audit programme.
