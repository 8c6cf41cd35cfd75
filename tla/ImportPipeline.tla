--------------------------- MODULE ImportPipeline ---------------------------
(***************************************************************************)
(* The analysis half of an import (services/ingestion): a run walks        *)
(* scan -> extract -> classify -> dedup -> propose, one Celery task per    *)
(* stage, under a Redis lock on its source root that is held continuously  *)
(* and refreshed by every batch.  Tasks are delivered at least once, their *)
(* chaining is best effort, and a reaper fails the runs that lost their    *)
(* lock or stopped making progress.  Review and commit come after it and   *)
(* are seen here through the status alone (ImportReview, ImportCommit).    *)
(*                                                                         *)
(* All runs are of one source root; a run stands for its own lock token.   *)
(***************************************************************************)
EXTENDS Naturals, FiniteSets

CONSTANTS Runs, Workers, NoRun,
          MaxRedeliveries    \* bound: extra deliveries of stage tasks

ASSUME PipelineAssumption == NoRun \notin Runs /\ MaxRedeliveries \in Nat

VARIABLES status,      \* import_run.status, "absent" before the run is created
          sourceLock,  \* the run whose token is in the source-root key, or NoRun
          quiet,       \* runs without a heartbeat or batch for longer than the TTL
          jobs,        \* stage tasks in the broker
          worker,      \* what each worker process is doing
          redelivered  \* redeliveries so far

pipelineVars == <<status, sourceLock, quiet, jobs, worker, redelivered>>

Stages == {"scan", "extract", "classify", "dedup", "propose"}

InProgress == {"Scanning", "Scanned", "Extracting", "Classifying", "Classified", "Deduping",
               "Proposing"}
Terminal == {"Proposed", "Completed", "Failed", "Cancelled"}
AfterReview == {"Reviewing", "Committing", "PartiallyCommitted", "Completed"}
Statuses == {"absent", "Created"} \cup InProgress \cup Terminal \cup AfterReview

(* The statuses a stage starts from, the one it works in and the one it leaves. *)
StartsFrom == [scan |-> {"Created", "Scanning"}, extract |-> {"Scanned", "Extracting"},
               classify |-> {"Classifying"}, dedup |-> {"Classified", "Deduping"},
               propose |-> {"Proposing"}]
WorksIn == [scan |-> "Scanning", extract |-> "Extracting", classify |-> "Classifying",
            dedup |-> "Deduping", propose |-> "Proposing"]
LeavesAs == [scan |-> "Scanned", extract |-> "Classifying", classify |-> "Classified",
             dedup |-> "Proposing", propose |-> "Proposed"]
Follower == [scan |-> "extract", extract |-> "classify", classify |-> "dedup",
             dedup |-> "propose"]

Tasks == [stage : Stages, run : Runs]
NoWork == [stage |-> "none", run |-> NoRun, phase |-> "idle"]
Work == [stage : Stages, run : Runs, phase : {"work", "owned", "chain", "fail", "release"}]

\* Runs, broker and workers hold values of their types, and a run that was never created does
\* not hold the source root.
PipelineTypeOK ==
  /\ status \in [Runs -> Statuses]
  /\ sourceLock \in Runs \cup {NoRun}
  /\ quiet \in SUBSET Runs
  /\ jobs \in SUBSET Tasks
  /\ worker \in [Workers -> Work \cup {NoWork}]
  /\ redelivered \in 0..MaxRedeliveries
  /\ \A r \in Runs : status[r] = "absent" => sourceLock # r

PipelineInit ==
  /\ status = [r \in Runs |-> "absent"]
  /\ sourceLock = NoRun /\ quiet = {} /\ jobs = {}
  /\ worker = [w \in Workers |-> NoWork]
  /\ redelivered = 0

-----------------------------------------------------------------------------
(* The source-root lock (services/ingestion/locks.py).                       *)

Released(r) == IF sourceLock = r THEN NoRun ELSE sourceLock

\* Mutant: the final check of a stage does not read the lock.
OwnsStatusOnly(r, stage) == status[r] = WorksIn[stage]

\* The condition a stage re-reads under the run's row lock before it moves on.
OwnsStage(r, stage) == status[r] = WorksIn[stage] /\ sourceLock = r

\* A stage of the run has passed its last check and holds the row lock (FOR UPDATE) up to
\* its commit: whoever else needs the row waits, and the reaper passes it over.  The key in
\* Redis is under no such lock.
Finishing(r) == \E w \in Workers : worker[w].run = r /\ worker[w].phase = "owned"

Quieten(r) ==
  /\ r \notin quiet /\ status[r] \in InProgress \cup {"Created"}
  /\ quiet' = quiet \cup {r}
  /\ UNCHANGED <<status, sourceLock, jobs, worker, redelivered>>

\* The key's TTL runs out on a run nobody has refreshed.
LockLapses ==
  /\ sourceLock \in quiet
  /\ sourceLock' = NoRun
  /\ UNCHANGED <<status, quiet, jobs, worker, redelivered>>

-----------------------------------------------------------------------------
(* The API: create, cancel, the first review decision, commit.               *)

LockAfterFailedCreate(r) == NoRun

\* The lock is taken first; the insert either commits and the scan is enqueued,
\* best effort, or fails and gives the lock back.
CreateImportRun(r) ==
  /\ status[r] = "absent" /\ sourceLock = NoRun
  /\ \/ /\ sourceLock' = r
        /\ status' = [status EXCEPT ![r] = "Created"]
        /\ jobs' \in {jobs, jobs \cup {[stage |-> "scan", run |-> r]}}
     \/ /\ sourceLock' = LockAfterFailedCreate(r)
        /\ UNCHANGED <<status, jobs>>
  /\ UNCHANGED <<quiet, worker, redelivered>>

CancelBlocked == Terminal \cup {"absent", "Committing", "PartiallyCommitted"}

CancelImportRun(r) ==
  /\ status[r] \notin CancelBlocked /\ ~Finishing(r)
  /\ status' = [status EXCEPT ![r] = "Cancelled"]
  /\ sourceLock' = Released(r)
  /\ UNCHANGED <<quiet, jobs, worker, redelivered>>

EnterReviewing(r) ==
  /\ status[r] = "Proposed"
  /\ status' = [status EXCEPT ![r] = "Reviewing"]
  /\ UNCHANGED <<sourceLock, quiet, jobs, worker, redelivered>>

StartCommit(r) ==
  /\ status[r] \in {"Proposed", "Reviewing", "PartiallyCommitted"}
  /\ status' = [status EXCEPT ![r] = "Committing"]
  /\ UNCHANGED <<sourceLock, quiet, jobs, worker, redelivered>>

CommitFinalizes(r) ==
  /\ status[r] = "Committing"
  /\ \E end \in {"Completed", "PartiallyCommitted"} : status' = [status EXCEPT ![r] = end]
  /\ UNCHANGED <<sourceLock, quiet, jobs, worker, redelivered>>

-----------------------------------------------------------------------------
(* A stage task: run_scan, run_extract, run_classify, run_dedup, run_propose. *)

TakeTask(w) == \E t \in jobs :
  LET r == t.run IN
    /\ worker[w] = NoWork /\ ~Finishing(r)
    /\ jobs' = jobs \ {t}
    /\ IF status[r] \in StartsFrom[t.stage]
       THEN /\ status' = [status EXCEPT ![r] = WorksIn[t.stage]]
            /\ worker' = [worker EXCEPT ![w] = [stage |-> t.stage, run |-> r, phase |-> "work"]]
       ELSE UNCHANGED <<status, worker>>     \* re-delivery: no-op
    /\ UNCHANGED <<sourceLock, quiet, redelivered>>

\* A batch commits and heartbeats: the lock is refreshed while the run still
\* owns it; otherwise the stage stops without failing the run.
HeartbeatBatch(w) ==
  LET job == worker[w] IN
    /\ job.phase = "work" /\ ~Finishing(job.run)
    /\ IF OwnsStage(job.run, job.stage)
       THEN quiet' = quiet \ {job.run} /\ UNCHANGED worker
       ELSE worker' = [worker EXCEPT ![w] = NoWork] /\ UNCHANGED quiet
    /\ UNCHANGED <<status, sourceLock, jobs, redelivered>>

\* The last check of a stage, in its terminal transaction: the row is locked and read, then
\* the key.  Whoever has lost either discards what it has staged.
CheckOwnership(w) ==
  LET job == worker[w] IN
    /\ job.phase = "work" /\ ~Finishing(job.run)
    /\ worker' = [worker EXCEPT ![w] =
                    IF OwnsStage(job.run, job.stage) THEN [job EXCEPT !.phase = "owned"] ELSE NoWork]
    /\ UNCHANGED <<status, sourceLock, quiet, jobs, redelivered>>

\* The commit of the terminal transaction: results and transition together.  The key is
\* not looked at again.
FinishStage(w) ==
  LET job == worker[w] IN
    /\ job.phase = "owned"
    /\ status' = [status EXCEPT ![job.run] = LeavesAs[job.stage]]
    /\ worker' = [worker EXCEPT ![w].phase = IF job.stage = "propose" THEN "release" ELSE "chain"]
    /\ UNCHANGED <<sourceLock, quiet, jobs, redelivered>>

\* The next stage is enqueued after the commit; the broker may lose it.
ChainStage(w) ==
  LET job == worker[w] IN
    /\ job.phase = "chain"
    /\ jobs' \in {jobs, jobs \cup {[stage |-> Follower[job.stage], run |-> job.run]}}
    /\ worker' = [worker EXCEPT ![w] = NoWork]
    /\ UNCHANGED <<status, sourceLock, quiet, redelivered>>

\* Also in the terminal transaction, which is rolled back.
StageRaises(w) ==
  /\ worker[w].phase \in {"work", "owned"}
  /\ worker' = [worker EXCEPT ![w].phase = "fail"]
  /\ UNCHANGED <<status, sourceLock, quiet, jobs, redelivered>>

FailRun(w) ==
  LET r == worker[w].run IN
    /\ worker[w].phase = "fail" /\ ~Finishing(r)
    /\ status' = IF status[r] \in Terminal THEN status ELSE [status EXCEPT ![r] = "Failed"]
    /\ worker' = [worker EXCEPT ![w].phase = "release"]
    /\ UNCHANGED <<sourceLock, quiet, jobs, redelivered>>

ReleaseSourceLock(w) ==
  /\ worker[w].phase = "release"
  /\ sourceLock' = Released(worker[w].run)
  /\ worker' = [worker EXCEPT ![w] = NoWork]
  /\ UNCHANGED <<status, quiet, jobs, redelivered>>

\* A worker is killed.  Its task was not acknowledged (acks_late).
WorkerDies(w) ==
  LET job == worker[w] IN
    /\ job # NoWork /\ redelivered < MaxRedeliveries
    /\ worker' = [worker EXCEPT ![w] = NoWork]
    /\ jobs' = jobs \cup {[stage |-> job.stage, run |-> job.run]}
    /\ redelivered' = redelivered + 1
    /\ UNCHANGED <<status, sourceLock, quiet>>

\* The broker's visibility timeout delivers a task again while it still runs.
Redeliver(w) ==
  LET job == worker[w] IN
    /\ job # NoWork /\ redelivered < MaxRedeliveries
    /\ jobs' = jobs \cup {[stage |-> job.stage, run |-> job.run]}
    /\ redelivered' = redelivered + 1
    /\ UNCHANGED <<status, sourceLock, quiet, worker>>

\* Mutant: a run between two stages, or one that has only lost its lock, is passed over.
StalledOnly(r) == status[r] \in InProgress \ {"Scanned", "Classified"} /\ r \in quiet

Stalled(r) == status[r] \in InProgress /\ (sourceLock # r \/ r \in quiet)

ReapStalledRuns(r) ==
  /\ Stalled(r) /\ ~Finishing(r)
  /\ status' = [status EXCEPT ![r] = "Failed"]
  /\ sourceLock' = Released(r)
  /\ UNCHANGED <<quiet, jobs, worker, redelivered>>

WorkerStep(w) == \/ TakeTask(w) \/ HeartbeatBatch(w) \/ CheckOwnership(w) \/ FinishStage(w)
                 \/ ChainStage(w) \/ StageRaises(w) \/ FailRun(w) \/ ReleaseSourceLock(w)
RequestStep(r) == CreateImportRun(r) \/ CancelImportRun(r) \/ EnterReviewing(r)
                  \/ StartCommit(r) \/ CommitFinalizes(r)
PipelineNext ==
  \/ \E r \in Runs : RequestStep(r) \/ Quieten(r) \/ ReapStalledRuns(r)
  \/ \E w \in Workers : WorkerStep(w) \/ WorkerDies(w) \/ Redeliver(w)
  \/ LockLapses

PipelineSpec == PipelineInit /\ [][PipelineNext]_pipelineVars

(* What goes on by itself: time passes, Beat runs the reaper again and again, *)
(* and a stage has finitely many batches, so a worker that keeps going ends it. *)
TimePasses == \E r \in Runs : Quieten(r)
ReaperRuns == \E r \in Runs : ReapStalledRuns(r)
StageEnds == \E w \in Workers : CheckOwnership(w) \/ FinishStage(w) \/ StageRaises(w)
PipelineFairSpec ==
  PipelineSpec /\ WF_pipelineVars(TimePasses) /\ WF_pipelineVars(ReaperRuns)
               /\ SF_pipelineVars(StageEnds)

-----------------------------------------------------------------------------
(* What a stage commits at its end.                                          *)
StageResults == {LeavesAs[s] : s \in Stages}

\* A run that has lost the source root never gets it back, and no stage of it passes its
\* last check or commits, however many workers still run it and however late they are; only
\* a stage that was already past its last check when the root was lost commits: the lock on
\* the run's row, under which the key is read, does not hold the key.
LostRootNeverProposes ==
  [][\A r \in Runs : status[r] \in InProgress /\ sourceLock # r =>
        /\ sourceLock' # r
        /\ ~Finishing(r) => ~Finishing(r)'
        /\ ~Finishing(r) /\ status'[r] # status[r] => status'[r] \notin StageResults]_pipelineVars

\* The source root is freed only by its own run's end or by its TTL: a late
\* worker of an earlier run never takes it from the run that replaced it.
RootIsFreedByItsRun ==
  [][\A r \in Runs : sourceLock = r /\ sourceLock' # r =>
        r \in quiet \/ status'[r] \in Terminal \cup AfterReview]_pipelineVars

\* A run in the pipeline always comes out of it: it is proposed, fails or is
\* cancelled, though chained tasks get lost and workers die.
EveryRunLeavesPipeline == \A r \in Runs : status[r] \in InProgress ~> status[r] \notin InProgress

\* The source root has one owner at a time that matters: a run that has lost it starts no
\* further commit of a stage and cannot take it from the run that replaced it.
RootIsExclusive == []PipelineTypeOK /\ LostRootNeverProposes /\ RootIsFreedByItsRun
=============================================================================
