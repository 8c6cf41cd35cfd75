---------------------------- MODULE ImportProofs ----------------------------
(***************************************************************************)
(* Proofs about an import: the pipeline under the lock on its source root,  *)
(* the commit under the ledger, and the human review between them.  They    *)
(* hold for any number of runs, files, items, workers and deliveries.       *)
(***************************************************************************)
EXTENDS ImportPipeline, ImportCommit, ImportReview, TLAPS, FiniteSetTheorems,
        WellFoundedInduction

(***************************************************************************)
(* The pipeline.                                                           *)
(***************************************************************************)
Ended == Terminal \cup AfterReview

\* A worker that is about to give the root back belongs to a run that has ended, only a
\* stage that has a follower chains one, and while a worker holds the row of its run the run
\* stays at its stage.
WorkerIsJustified(w) ==
  /\ worker[w].phase = "release" => status[worker[w].run] \in Ended
  /\ worker[w].phase = "chain" => worker[w].stage # "propose"
  /\ worker[w].phase = "owned" => status[worker[w].run] = WorksIn[worker[w].stage]

\* The row of a run is held by one worker at a time.
RowsAreHeldAlone ==
  \A v, w \in Workers :
    worker[v].phase = "owned" /\ worker[w].phase = "owned" /\ worker[v].run = worker[w].run => v = w

RootInv ==
  /\ PipelineTypeOK /\ RowsAreHeldAlone
  /\ \A w \in Workers : WorkerIsJustified(w)

LEMMA StageTables ==
  ASSUME NEW s \in Stages
  PROVE  /\ StartsFrom[s] \subseteq Statuses \ (Ended \cup {"absent"})
         /\ WorksIn[s] \in InProgress
         /\ LeavesAs[s] \in InProgress \cup {"Proposed"}
         /\ (LeavesAs[s] = "Proposed") => (s = "propose")
         /\ (s = "propose") => (LeavesAs[s] = "Proposed")
         /\ s # "propose" => Follower[s] \in Stages
         /\ \A x \in StartsFrom[s] : x = WorksIn[s] \/ WorksIn[s] \notin StageResults
BY DEF Stages, StartsFrom, WorksIn, LeavesAs, Follower, Statuses, InProgress, Terminal,
       AfterReview, Ended, StageResults

LEMMA StatusSets ==
  /\ Ended \cap (InProgress \cup {"absent", "Created"}) = {}
  /\ Statuses = {"absent", "Created"} \cup InProgress \cup Ended
  /\ "Failed" \in Ended /\ "Cancelled" \in Ended /\ "Proposed" \in Ended
  /\ Terminal \subseteq Ended /\ AfterReview \subseteq Ended
  /\ "Proposed" \notin InProgress /\ "absent" \notin InProgress
  /\ {"Created", "Failed", "Cancelled"} \cap StageResults = {}
  /\ {"Proposed", "Reviewing", "Committing", "PartiallyCommitted"} \cap InProgress = {}
BY DEF Ended, InProgress, Terminal, AfterReview, Statuses, StageResults, Stages, LeavesAs

\* What a status may become in one step: the ended stay ended, the absent are created only by
\* a request that takes the free root, only a worker that holds the row of a run commits a
\* stage of it, and nobody else moves the run meanwhile.
StatusMoves ==
  /\ status' \in [Runs -> Statuses]
  /\ \A r \in Runs :
       /\ status[r] \in Ended => status'[r] \in Ended
       /\ status[r] # "absent" => status'[r] # "absent"
       /\ status[r] \in InProgress /\ status'[r] # status[r] /\ status'[r] \in StageResults =>
            Finishing(r)
  /\ \A w \in Workers :
       worker[w].phase = "owned" /\ worker'[w] = worker[w] =>
         status'[worker[w].run] = status[worker[w].run]

\* How the root may change hands in one step.
RootMoves ==
  /\ sourceLock' \in Runs \cup {NoRun}
  /\ \A r \in Runs :
       /\ sourceLock' = r /\ sourceLock # r => status[r] = "absent" /\ status'[r] = "Created"
       /\ sourceLock = r /\ sourceLock' # r => r \in quiet \/ status'[r] \in Ended

LEMMA OwnedMeansFinishing ==
  ASSUME NEW w \in Workers, worker[w].phase = "owned"
  PROVE  Finishing(worker[w].run)
BY DEF Finishing

LEMMA WorkerTypes ==
  ASSUME RootInv, NEW w \in Workers, worker[w] # NoWork
  PROVE  /\ worker[w] \in Work
         /\ worker[w].stage \in Stages /\ worker[w].run \in Runs
         /\ worker[w].phase \in {"work", "owned", "chain", "fail", "release"}
         /\ worker[w] = [stage |-> worker[w].stage, run |-> worker[w].run,
                         phase |-> worker[w].phase]
BY DEF RootInv, PipelineTypeOK, Work

\* Every step moves statuses and the root as described.
LEMMA PipelineMoves ==
  ASSUME RootInv, [PipelineNext]_pipelineVars
  PROVE  StatusMoves /\ RootMoves
<1> USE PipelineAssumption
<1>t. /\ status \in [Runs -> Statuses] /\ sourceLock \in Runs \cup {NoRun}
      /\ worker \in [Workers -> Work \cup {NoWork}] /\ jobs \in SUBSET Tasks
  BY DEF RootInv, PipelineTypeOK
<1>f. \A w \in Workers : worker[w].phase = "owned" => Finishing(worker[w].run)
  BY DEF Finishing
<1>0. CASE UNCHANGED <<status, sourceLock>>
  BY <1>0, <1>t, StatusSets DEF StatusMoves, RootMoves
<1>o. \A w \in Workers : worker[w].phase = "owned" =>
        status[worker[w].run] \in InProgress /\ worker[w].run \in Runs
  <2> SUFFICES ASSUME NEW w \in Workers, worker[w].phase = "owned"
               PROVE  status[worker[w].run] \in InProgress /\ worker[w].run \in Runs
    OBVIOUS
  <2>1. worker[w] # NoWork
    BY DEF NoWork
  <2>2. worker[w].stage \in Stages /\ worker[w].run \in Runs
    BY <2>1, WorkerTypes
  <2>3. status[worker[w].run] = WorksIn[worker[w].stage]
    BY DEF RootInv, WorkerIsJustified
  <2> QED
    BY <2>2, <2>3, StageTables
<1>1. ASSUME NEW r \in Runs, RequestStep(r) PROVE StatusMoves /\ RootMoves
  <2>1. CASE CreateImportRun(r)
    BY <2>1, <1>t, <1>o, StatusSets DEF CreateImportRun, LockAfterFailedCreate, StatusMoves, RootMoves
  <2>2. CASE CancelImportRun(r)
    BY <2>2, <1>t, <1>f, StatusSets DEF CancelImportRun, Released, CancelBlocked, StatusMoves, RootMoves
  <2>3. CASE EnterReviewing(r)
    BY <2>3, <1>t, <1>o, StatusSets DEF EnterReviewing, StatusMoves, RootMoves, AfterReview
  <2>4. CASE StartCommit(r)
    BY <2>4, <1>t, <1>o, StatusSets DEF StartCommit, StatusMoves, RootMoves, AfterReview
  <2>5. CASE CommitFinalizes(r)
    BY <2>5, <1>t, <1>o, StatusSets DEF CommitFinalizes, StatusMoves, RootMoves, AfterReview
  <2> QED
    BY <1>1, <2>1, <2>2, <2>3, <2>4, <2>5 DEF RequestStep
<1>2. ASSUME NEW r \in Runs, ReapStalledRuns(r) PROVE StatusMoves /\ RootMoves
  BY <1>2, <1>t, <1>f, StatusSets DEF ReapStalledRuns, Stalled, Released, StatusMoves, RootMoves
<1>3. CASE LockLapses
  BY <1>3, <1>t, StatusSets DEF LockLapses, StatusMoves, RootMoves
<1>4. ASSUME NEW w \in Workers, TakeTask(w) PROVE StatusMoves /\ RootMoves
  <2>1. PICK t \in jobs :
          /\ \/ /\ status[t.run] \in StartsFrom[t.stage] /\ ~Finishing(t.run)
                /\ status' = [status EXCEPT ![t.run] = WorksIn[t.stage]]
             \/ status' = status
          /\ sourceLock' = sourceLock
    BY <1>4 DEF TakeTask
  <2>2. t.stage \in Stages /\ t.run \in Runs
    BY <1>t DEF Tasks
  <2>3. CASE status' = status
    BY <2>1, <2>3, <1>0
  <2>4. CASE status' # status
    <3>1. PICK r \in Runs, x \in Stages : r = t.run /\ x = t.stage
      BY <2>2
    <3>2. /\ status[r] \in StartsFrom[x] /\ ~Finishing(r) /\ sourceLock' = sourceLock
          /\ status' = [status EXCEPT ![r] = WorksIn[x]]
      BY <2>1, <2>4, <3>1
    <3>3. /\ WorksIn[x] \in InProgress /\ status[r] \notin Ended /\ status[r] # "absent"
          /\ WorksIn[x] = status[r] \/ WorksIn[x] \notin StageResults
      BY <3>2, StageTables
    <3>4. /\ status' \in [Runs -> Statuses] /\ status'[r] = WorksIn[x]
          /\ \A q \in Runs : q # r => status'[q] = status[q]
      BY <3>2, <3>3, <1>t, StatusSets
    <3>5. \A v \in Workers : worker[v].phase = "owned" => worker[v].run \in Runs /\ worker[v].run # r
      BY <3>2, <1>f, <1>o
    <3> QED
      BY <3>2, <3>3, <3>4, <3>5, <1>t, StatusSets DEF StatusMoves, RootMoves
  <2> QED
    BY <2>3, <2>4
<1>5. ASSUME NEW w \in Workers, FinishStage(w) PROVE StatusMoves /\ RootMoves
  <2>1. worker[w] # NoWork
    BY <1>5 DEF FinishStage, NoWork
  <2>2. PICK r \in Runs, x \in Stages : r = worker[w].run /\ x = worker[w].stage
    BY <2>1, WorkerTypes
  <2>3. /\ status' = [status EXCEPT ![r] = LeavesAs[x]] /\ sourceLock' = sourceLock
        /\ worker[w].phase = "owned"
    BY <1>5, <2>2 DEF FinishStage
  <2>4. status[r] = WorksIn[x] /\ Finishing(r)
    BY <2>2, <2>3, <1>f DEF RootInv, WorkerIsJustified
  <2>5. worker'[w] # worker[w]
    BY <1>5, <1>t, <2>1, WorkerTypes DEF FinishStage
  <2>6. ASSUME NEW v \in Workers, worker[v].phase = "owned", worker'[v] = worker[v]
        PROVE  worker[v].run # r
    BY <2>2, <2>3, <2>5, <2>6 DEF RootInv, RowsAreHeldAlone
  <2>7. WorksIn[x] \in InProgress /\ LeavesAs[x] \in InProgress \cup {"Proposed"}
    BY StageTables
  <2>8. /\ status' \in [Runs -> Statuses] /\ status'[r] = LeavesAs[x]
        /\ \A q \in Runs : q # r => status'[q] = status[q]
    BY <2>3, <2>7, <1>t, StatusSets
  <2>9. \A v \in Workers : worker[v].phase = "owned" => worker[v].run \in Runs
    BY <1>o
  <2> QED
    BY <2>3, <2>4, <2>6, <2>7, <2>8, <2>9, <1>t, StatusSets DEF StatusMoves, RootMoves
<1>6. ASSUME NEW w \in Workers, FailRun(w) PROVE StatusMoves /\ RootMoves
  <2>1. worker[w] # NoWork
    BY <1>6 DEF FailRun, NoWork
  <2>2. worker[w].run \in Runs
    BY <2>1, WorkerTypes
  <2> QED
    BY <1>6, <2>2, <1>t, <1>f, StatusSets DEF FailRun, StatusMoves, RootMoves
<1>7. ASSUME NEW w \in Workers, ReleaseSourceLock(w) PROVE StatusMoves /\ RootMoves
  <2>1. worker[w] # NoWork
    BY <1>7 DEF ReleaseSourceLock, NoWork
  <2>2. worker[w].run \in Runs /\ status[worker[w].run] \in Ended
    BY <1>7, <2>1, WorkerTypes DEF ReleaseSourceLock, RootInv, WorkerIsJustified
  <2> QED
    BY <1>7, <2>2, <1>t, StatusSets DEF ReleaseSourceLock, Released, StatusMoves, RootMoves
<1>8. ASSUME NEW w \in Workers,
             \/ HeartbeatBatch(w) \/ CheckOwnership(w) \/ ChainStage(w) \/ StageRaises(w)
             \/ WorkerDies(w) \/ Redeliver(w)
      PROVE  UNCHANGED <<status, sourceLock>>
  BY <1>8 DEF HeartbeatBatch, CheckOwnership, ChainStage, StageRaises, WorkerDies, Redeliver
<1>9. ASSUME NEW r \in Runs, Quieten(r) PROVE UNCHANGED <<status, sourceLock>>
  BY <1>9 DEF Quieten
<1>10. CASE UNCHANGED pipelineVars
  BY <1>10, <1>0 DEF pipelineVars
<1> QED
  BY <1>0, <1>1, <1>2, <1>3, <1>4, <1>5, <1>6, <1>7, <1>8, <1>9, <1>10
  DEF PipelineNext, WorkerStep

\* A worker takes the row of its run only while the run holds the root.
PassesItsCheck(job) ==
  /\ sourceLock = job.run /\ ~Finishing(job.run)
  /\ status'[job.run] = WorksIn[job.stage]

\* What a step may make of the workers, the broker and the counters.
WorkMoves ==
  /\ quiet' \in SUBSET Runs
  /\ jobs' \in SUBSET Tasks
  /\ redelivered' \in 0..MaxRedeliveries
  /\ worker' \in [Workers -> Work \cup {NoWork}]
  /\ \A w \in Workers :
       worker'[w] = worker[w] \/
         /\ worker'[w].phase = "release" => status'[worker'[w].run] \in Ended
         /\ worker'[w].phase = "chain" => worker'[w].stage # "propose"
         /\ worker'[w].phase = "owned" => PassesItsCheck(worker'[w])
  /\ \A v, w \in Workers : worker'[v] # worker[v] /\ worker'[w] # worker[w] => v = w

LEMMA WorkAlone ==
  ASSUME RootInv, UNCHANGED worker, quiet' \in SUBSET Runs, jobs' \in SUBSET Tasks,
         redelivered' \in 0..MaxRedeliveries
  PROVE  WorkMoves
BY DEF WorkMoves, RootInv, PipelineTypeOK

LEMMA WorkOne ==
  ASSUME RootInv, NEW w \in Workers, NEW x \in Work \cup {NoWork},
         worker' = [worker EXCEPT ![w] = x],
         x.phase = "release" => status'[x.run] \in Ended,
         x.phase = "chain" => x.stage # "propose",
         x.phase = "owned" => PassesItsCheck(x),
         quiet' \in SUBSET Runs, jobs' \in SUBSET Tasks, redelivered' \in 0..MaxRedeliveries
  PROVE  WorkMoves
BY DEF WorkMoves, RootInv, PipelineTypeOK

LEMMA PhaseMove ==
  ASSUME RootInv, NEW w \in Workers, worker[w] # NoWork, NEW p,
         worker' = [worker EXCEPT ![w].phase = p]
  PROVE  worker' = [worker EXCEPT ![w] =
                      [stage |-> worker[w].stage, run |-> worker[w].run, phase |-> p]]
<1>1. worker[w] = [stage |-> worker[w].stage, run |-> worker[w].run, phase |-> worker[w].phase]
  BY WorkerTypes
<1>2. [worker[w] EXCEPT !.phase = p] =
        [stage |-> worker[w].stage, run |-> worker[w].run, phase |-> p]
  BY <1>1
<1>3. worker' = [worker EXCEPT ![w] = [worker[w] EXCEPT !.phase = p]]
  OBVIOUS
<1> QED
  BY <1>2, <1>3

LEMMA PipelineWork ==
  ASSUME RootInv, [PipelineNext]_pipelineVars
  PROVE  WorkMoves
<1> USE PipelineAssumption
<1>t. /\ status \in [Runs -> Statuses] /\ sourceLock \in Runs \cup {NoRun}
      /\ worker \in [Workers -> Work \cup {NoWork}] /\ jobs \in SUBSET Tasks
      /\ quiet \in SUBSET Runs /\ redelivered \in 0..MaxRedeliveries
  BY DEF RootInv, PipelineTypeOK
<1>n. NoWork.phase = "idle" /\ NoWork \in Work \cup {NoWork}
  BY DEF NoWork
<1>1. ASSUME NEW r \in Runs, RequestStep(r) PROVE WorkMoves
  <2>1. [stage |-> "scan", run |-> r] \in Tasks
    BY DEF Tasks, Stages
  <2>2. jobs' \in SUBSET Tasks /\ UNCHANGED <<worker, quiet, redelivered>>
    BY <1>1, <1>t, <2>1 DEF RequestStep, CreateImportRun, CancelImportRun, EnterReviewing,
                            StartCommit, CommitFinalizes
  <2> QED
    BY <2>2, <1>t, WorkAlone
<1>2. ASSUME NEW r \in Runs, ReapStalledRuns(r) \/ Quieten(r) PROVE WorkMoves
  <2>1. quiet' \in SUBSET Runs /\ UNCHANGED <<worker, jobs, redelivered>>
    BY <1>2, <1>t DEF ReapStalledRuns, Quieten
  <2> QED
    BY <2>1, <1>t, WorkAlone
<1>3. CASE LockLapses
  BY <1>3, <1>t, WorkAlone DEF LockLapses
<1>4. ASSUME NEW w \in Workers, TakeTask(w) PROVE WorkMoves
  <2>1. PICK t \in jobs :
          /\ jobs' = jobs \ {t} /\ UNCHANGED <<quiet, redelivered>>
          /\ \/ worker' = [worker EXCEPT ![w] =
                             [stage |-> t.stage, run |-> t.run, phase |-> "work"]]
             \/ worker' = worker
    BY <1>4 DEF TakeTask
  <2>2. [stage |-> t.stage, run |-> t.run, phase |-> "work"] \in Work
    BY <1>t DEF Tasks, Work
  <2>3. CASE worker' = worker
    BY <2>1, <2>3, <1>t, WorkAlone
  <2>4. CASE worker' = [worker EXCEPT ![w] = [stage |-> t.stage, run |-> t.run, phase |-> "work"]]
    BY <2>1, <2>2, <2>4, <1>t, WorkOne
  <2> QED
    BY <2>1, <2>3, <2>4
<1>5. ASSUME NEW w \in Workers, worker' = [worker EXCEPT ![w] = NoWork],
             quiet' \in SUBSET Runs, jobs' \in SUBSET Tasks, redelivered' \in 0..MaxRedeliveries
      PROVE  WorkMoves
  BY <1>5, <1>n, WorkOne
<1>6. ASSUME NEW w \in Workers, HeartbeatBatch(w) PROVE WorkMoves
  <2>1. CASE OwnsStage(worker[w].run, worker[w].stage)
    BY <1>6, <2>1, <1>t, WorkAlone DEF HeartbeatBatch
  <2>2. CASE ~OwnsStage(worker[w].run, worker[w].stage)
    BY <1>6, <2>2, <1>t, <1>5 DEF HeartbeatBatch
  <2> QED
    BY <2>1, <2>2
<1>7. ASSUME NEW w \in Workers, FinishStage(w) PROVE WorkMoves
  <2>1. worker[w] # NoWork
    BY <1>7 DEF FinishStage, NoWork
  <2>2. PICK r \in Runs, s \in Stages : r = worker[w].run /\ s = worker[w].stage
    BY <2>1, WorkerTypes
  <2>3. PICK p \in {"release", "chain"} : p = IF s = "propose" THEN "release" ELSE "chain"
    OBVIOUS
  <2>4. PICK x : x = [stage |-> s, run |-> r, phase |-> p]
    OBVIOUS
  <2>5. worker' = [worker EXCEPT ![w].phase = p] /\ UNCHANGED <<quiet, jobs, redelivered>>
    BY <1>7, <2>2, <2>3 DEF FinishStage
  <2>6. worker' = [worker EXCEPT ![w] = x]
    BY <2>1, <2>2, <2>4, <2>5, PhaseMove
  <2>7. x \in Work /\ x.stage = s /\ x.run = r /\ x.phase = p
    BY <2>4 DEF Work
  <2>8. status' = [status EXCEPT ![r] = LeavesAs[s]]
    BY <1>7, <2>2 DEF FinishStage
  <2>9. status'[r] = LeavesAs[s]
    BY <2>8, <1>t
  <2>10. p = "release" => status'[r] \in Ended
    BY <2>3, <2>9, StageTables, StatusSets
  <2>11. (p = "chain" => s # "propose") /\ p # "owned"
    BY <2>3
  <2> QED
    BY <2>5, <2>6, <2>7, <2>10, <2>11, <1>t, WorkOne
<1>c. ASSUME NEW w \in Workers, CheckOwnership(w) PROVE WorkMoves
  <2>1. worker[w] # NoWork
    BY <1>c DEF CheckOwnership, NoWork
  <2>2. CASE OwnsStage(worker[w].run, worker[w].stage)
    <3>1. PICK x : x = [worker[w] EXCEPT !.phase = "owned"]
      OBVIOUS
    <3>2. x \in Work /\ x.phase = "owned" /\ x.run = worker[w].run /\ x.stage = worker[w].stage
      BY <2>1, <3>1, WorkerTypes DEF Work
    <3>3. /\ worker' = [worker EXCEPT ![w] = x]
          /\ UNCHANGED <<status, quiet, jobs, redelivered>> /\ ~Finishing(worker[w].run)
      BY <1>c, <2>2, <3>1 DEF CheckOwnership
    <3>4. PassesItsCheck(x)
      BY <2>2, <3>2, <3>3 DEF PassesItsCheck, OwnsStage
    <3> QED
      BY <3>2, <3>3, <3>4, <1>t, WorkOne
  <2>3. CASE ~OwnsStage(worker[w].run, worker[w].stage)
    BY <1>c, <2>3, <1>t, <1>5 DEF CheckOwnership
  <2> QED
    BY <2>2, <2>3
<1>8. ASSUME NEW w \in Workers, ChainStage(w) PROVE WorkMoves
  <2>1. worker[w] # NoWork
    BY <1>8 DEF ChainStage, NoWork
  <2>2. worker[w].run \in Runs /\ worker[w].stage \in Stages /\ worker[w].stage # "propose"
    BY <1>8, <2>1, WorkerTypes DEF ChainStage, RootInv, WorkerIsJustified
  <2>3. [stage |-> Follower[worker[w].stage], run |-> worker[w].run] \in Tasks
    BY <2>2, StageTables DEF Tasks
  <2>4. jobs' \in SUBSET Tasks
    BY <1>8, <2>3, <1>t DEF ChainStage
  <2> QED
    BY <1>8, <2>4, <1>t, <1>5 DEF ChainStage
<1>9. ASSUME NEW w \in Workers, StageRaises(w) PROVE WorkMoves
  <2>1. worker[w] # NoWork
    BY <1>9 DEF StageRaises, NoWork
  <2>2. PICK x : x = [stage |-> worker[w].stage, run |-> worker[w].run, phase |-> "fail"]
    OBVIOUS
  <2>3. worker' = [worker EXCEPT ![w] = x]
    BY <1>9, <2>1, <2>2, PhaseMove DEF StageRaises
  <2>4. x \in Work /\ x.phase = "fail"
    BY <2>1, <2>2, WorkerTypes DEF Work
  <2> QED
    BY <1>9, <2>3, <2>4, <1>t, WorkOne DEF StageRaises
<1>10. ASSUME NEW w \in Workers, FailRun(w) PROVE WorkMoves
  <2>1. worker[w] # NoWork
    BY <1>10 DEF FailRun, NoWork
  <2>2. PICK x : x = [stage |-> worker[w].stage, run |-> worker[w].run, phase |-> "release"]
    OBVIOUS
  <2>3. worker' = [worker EXCEPT ![w] = x]
    BY <1>10, <2>1, <2>2, PhaseMove DEF FailRun
  <2>4. x \in Work /\ x.phase = "release" /\ x.run = worker[w].run /\ x.run \in Runs
    BY <2>1, <2>2, WorkerTypes DEF Work
  <2>5. status'[worker[w].run] \in Ended
    BY <1>10, <2>4, <1>t, StatusSets DEF FailRun
  <2> QED
    BY <1>10, <2>3, <2>4, <2>5, <1>t, WorkOne DEF FailRun
<1>11. ASSUME NEW w \in Workers, ReleaseSourceLock(w) PROVE WorkMoves
  BY <1>11, <1>t, <1>5 DEF ReleaseSourceLock
<1>12. ASSUME NEW w \in Workers, worker[w] # NoWork, redelivered < MaxRedeliveries,
              redelivered' = redelivered + 1,
              jobs' = jobs \cup {[stage |-> worker[w].stage, run |-> worker[w].run]}
       PROVE  redelivered' \in 0..MaxRedeliveries /\ jobs' \in SUBSET Tasks
  <2>1. [stage |-> worker[w].stage, run |-> worker[w].run] \in Tasks
    BY <1>12, WorkerTypes DEF Tasks
  <2> QED
    BY <1>12, <2>1, <1>t
<1>13. ASSUME NEW w \in Workers, WorkerDies(w) PROVE WorkMoves
  <2>1. redelivered' \in 0..MaxRedeliveries /\ jobs' \in SUBSET Tasks
    BY <1>12, <1>13 DEF WorkerDies
  <2> QED
    BY <1>13, <2>1, <1>t, <1>5 DEF WorkerDies
<1>14. ASSUME NEW w \in Workers, Redeliver(w) PROVE WorkMoves
  <2>1. redelivered' \in 0..MaxRedeliveries /\ jobs' \in SUBSET Tasks
    BY <1>12, <1>14 DEF Redeliver
  <2> QED
    BY <1>14, <2>1, <1>t, WorkAlone DEF Redeliver
<1>15. CASE UNCHANGED pipelineVars
  BY <1>15, <1>t, WorkAlone DEF pipelineVars
<1> QED
  BY <1>1, <1>2, <1>3, <1>4, <1>6, <1>7, <1>c, <1>8, <1>9, <1>10, <1>11, <1>13, <1>14, <1>15
  DEF PipelineNext, WorkerStep

LEMMA RootInvInit ==
  ASSUME PipelineInit
  PROVE  RootInv
BY PipelineAssumption DEF PipelineInit, RootInv, PipelineTypeOK, RowsAreHeldAlone, WorkerIsJustified, NoWork, Statuses

LEMMA RootInvStep ==
  ASSUME RootInv, [PipelineNext]_pipelineVars
  PROVE  RootInv'
<1>1. StatusMoves /\ RootMoves /\ WorkMoves
  BY PipelineMoves, PipelineWork
<1>3. status' \in [Runs -> Statuses]
  BY <1>1 DEF StatusMoves
<1>4. \A r \in Runs : status'[r] = "absent" => sourceLock' # r
  BY <1>1 DEF StatusMoves, RootMoves, RootInv, PipelineTypeOK
<1>5. PipelineTypeOK'
  BY <1>1, <1>3, <1>4 DEF PipelineTypeOK, RootMoves, WorkMoves
<1>6. ASSUME NEW w \in Workers PROVE WorkerIsJustified(w)'
  <2>1. CASE worker'[w] = worker[w]
    <3>1. CASE worker[w] = NoWork
      BY <2>1, <3>1 DEF WorkerIsJustified, NoWork
    <3>2. CASE worker[w] # NoWork
      <4>1. worker[w].run \in Runs
        BY <3>2, WorkerTypes
      <4> QED
        BY <1>1, <2>1, <4>1 DEF WorkerIsJustified, StatusMoves, RootInv
    <3> QED
      BY <3>1, <3>2
  <2>2. CASE worker'[w] # worker[w]
    BY <1>1, <2>2 DEF WorkMoves, WorkerIsJustified, PassesItsCheck
  <2> QED
    BY <2>1, <2>2
<1>7. RowsAreHeldAlone'
  <2>1. ASSUME NEW v \in Workers, NEW w \in Workers, worker'[v].phase = "owned",
               worker'[w].phase = "owned", worker'[v].run = worker'[w].run, worker'[v] # worker[v]
        PROVE  v = w
    <3>1. ~Finishing(worker'[v].run)
      BY <1>1, <2>1 DEF WorkMoves, PassesItsCheck
    <3>2. worker'[w] # worker[w]
      BY <2>1, <3>1 DEF Finishing
    <3> QED
      BY <1>1, <2>1, <3>2 DEF WorkMoves
  <2> QED
    BY <2>1 DEF RowsAreHeldAlone, RootInv
<1> QED
  BY <1>5, <1>6, <1>7 DEF RootInv

\* A run that lost the source root never takes it back, and no stage of it passes its last
\* check or commits unless it had passed it before, for any number of runs and workers,
\* however late stages, failures, releases and redeliveries arrive
\* (services/ingestion/service.py, locks.py).
THEOREM RootStaysExclusive == PipelineSpec => RootIsExclusive
<1>1. RootInv /\ [PipelineNext]_pipelineVars =>
        [\A r \in Runs : status[r] \in InProgress /\ sourceLock # r =>
           /\ sourceLock' # r
           /\ ~Finishing(r) => ~Finishing(r)'
           /\ ~Finishing(r) /\ status'[r] # status[r] => status'[r] \notin StageResults]_pipelineVars
  <2> SUFFICES ASSUME RootInv, PipelineNext, NEW r \in Runs,
                      status[r] \in InProgress, sourceLock # r
               PROVE  /\ sourceLock' # r
                      /\ ~Finishing(r) => ~Finishing(r)'
                      /\ ~Finishing(r) /\ status'[r] # status[r] => status'[r] \notin StageResults
    BY DEF pipelineVars
  <2>1. StatusMoves /\ RootMoves /\ WorkMoves
    BY PipelineMoves, PipelineWork
  <2>2. ASSUME NEW w \in Workers, worker'[w].run = r, worker'[w].phase = "owned", ~Finishing(r)
        PROVE  FALSE
    <3>1. worker'[w] # worker[w]
      BY <2>2 DEF Finishing
    <3> QED
      BY <2>1, <2>2, <3>1 DEF WorkMoves, PassesItsCheck
  <2>3. ~Finishing(r) => ~Finishing(r)'
    BY <2>2 DEF Finishing
  <2> QED
    BY <2>1, <2>3, StatusSets DEF StatusMoves, RootMoves
<1>2. RootInv /\ [PipelineNext]_pipelineVars =>
        [\A r \in Runs : sourceLock = r /\ sourceLock' # r =>
           r \in quiet \/ status'[r] \in Terminal \cup AfterReview]_pipelineVars
  <2> SUFFICES ASSUME RootInv, PipelineNext, NEW r \in Runs, sourceLock = r, sourceLock' # r
               PROVE  r \in quiet \/ status'[r] \in Terminal \cup AfterReview
    BY DEF pipelineVars
  <2> QED
    BY PipelineMoves DEF RootMoves, Ended
<1>3. RootInv => PipelineTypeOK
  BY DEF RootInv
<1> QED
  BY <1>1, <1>2, <1>3, RootInvInit, RootInvStep, PTL
  DEF PipelineSpec, RootIsExclusive, LostRootNeverProposes, RootIsFreedByItsRun

(***************************************************************************)
(* The commit.                                                             *)
(***************************************************************************)
WalkerRecords == [pc : {"idle", "load", "build", "fail", "cleanup", "tally", "flip"},
                  item : 0..Items, seen : 0..MaxTasks, restage : BOOLEAN,
                  version : StagedVersions, error : Reasons \cup {"-"}, failed : 0..Items]

Walking == {"load", "build", "fail", "cleanup"}

\* The items a worker has left behind: it saw each one fail, be committed or be committed
\* already.
Passed(x, i) ==
  \/ x.pc \in Walking /\ i < x.item
  \/ x.pc = "cleanup" /\ i = x.item
  \/ x.pc \in {"tally", "flip"}

\* What a worker knows of the ledger stays true while others write it.
WalkFits(x) ==
  /\ x \in WalkerRecords
  /\ x.pc \in Walking => x.item \in ItemSet
  /\ x.pc = "fail" => x.error \in Reasons
  /\ x.pc \in {"build", "fail"} => x.seen <= ledger[x.item].gen
  /\ \A i \in ItemSet : Passed(x, i) => ledger[i].result # "none"
  /\ x.pc = "flip" /\ x.failed = 0 => \A i \in ItemSet : ledger[i].result = "success"

\* The workers that may still record a failure of an item, or stage it again.
MayFail(x, i) ==
  /\ x.pc \in Walking
  /\ x.item < i \/ (x.item = i /\ x.pc # "cleanup")
MayRestage(x, i) ==
  /\ x.pc \in Walking
  /\ x.item < i \/ (x.item = i /\ (x.pc = "load" \/ (x.pc = "build" /\ x.restage)))
Failers(i) == {w \in Committers : MayFail(committer[w], i)}
Restagers(i) == {w \in Committers : MayRestage(committer[w], i)}

\* Every failure and every staging of an item is paid for by a delivery of its own.
Delivered == enqueued - queued
ItemIsPaid(i) ==
  /\ IsFiniteSet(Failers(i)) /\ ledger[i].gen + Cardinality(Failers(i)) <= Delivered
  /\ IsFiniteSet(Restagers(i)) /\ newest[i] + Cardinality(Restagers(i)) <= Delivered + 1

LedgerInv ==
  /\ CommitTypeOK /\ CommittedExactlyOnce /\ CompletedMeansAll
  /\ \A w \in Committers : WalkFits(committer[w])
  /\ \A i \in ItemSet : ItemIsPaid(i)

\* How a step may change the ledger.
LedgerMoves ==
  /\ ledger' \in [ItemSet -> LedgerRows]
  /\ \A i \in ItemSet :
       /\ ledger[i].result # "none" => ledger'[i].result # "none"
       /\ ledger[i].result = "success" => ledger'[i] = ledger[i]
       /\ ledger[i].gen <= ledger'[i].gen

\* How worker w, going on as x, pays for what it did to item i.
FailuresCharged(w, x, i) ==
  \/ /\ MayFail(x, i) => MayFail(committer[w], i)
     /\ ledger'[i].gen = ledger[i].gen /\ Delivered' >= Delivered
  \/ /\ MayFail(committer[w], i) /\ ~MayFail(x, i)
     /\ ledger'[i].gen = ledger[i].gen + 1 /\ Delivered' >= Delivered
  \/ ledger'[i].gen = ledger[i].gen /\ Delivered' = Delivered + 1

StagingsCharged(w, x, i) ==
  \/ /\ MayRestage(x, i) => MayRestage(committer[w], i)
     /\ newest'[i] = newest[i] /\ Delivered' >= Delivered
  \/ /\ MayRestage(committer[w], i) /\ ~MayRestage(x, i)
     /\ newest'[i] = newest[i] + 1 /\ Delivered' >= Delivered
  \/ newest'[i] = newest[i] /\ Delivered' = Delivered + 1

LEMMA RowTypes ==
  ASSUME NEW row \in LedgerRows
  PROVE  /\ row.result \in {"none", "success", "failed"}
         /\ row.gen \in 0..MaxTasks /\ row.gen \in Nat
         /\ row.result = "none" => row.gen = 0
BY CommitAssumption DEF LedgerRows

LEMMA CommitTypes ==
  ASSUME LedgerInv
  PROVE  /\ ledger \in [ItemSet -> LedgerRows] /\ vaulted \in [ItemSet -> 0..1]
         /\ locator \in [ItemSet -> StagedVersions] /\ newest \in [ItemSet -> StagedVersions]
         /\ stored \in [ItemSet -> SUBSET StagedVersions]
         /\ queued \in Nat /\ enqueued \in Nat /\ enqueued <= MaxTasks /\ queued <= MaxTasks
         /\ Delivered \in Int
         /\ committer \in [Committers -> WalkerRecords]
         /\ \A w \in Committers : WalkFits(committer[w])
         /\ Items \in Nat \ {0} /\ MaxTasks \in Nat \ {0}
BY CommitAssumption DEF LedgerInv, CommitTypeOK, WalkerRecords, Delivered

\* A delivery pays for one failure, and a set of workers is charged one member at a time.
LEMMA Charge ==
  ASSUME NEW S, IsFiniteSet(S), NEW w, NEW T, T \subseteq S \cup {w},
         NEW g \in Nat, NEW h \in Nat, NEW b \in Int, NEW c \in Int,
         g + Cardinality(S) <= b,
         \/ T \subseteq S /\ h = g /\ c >= b
         \/ w \in S /\ w \notin T /\ h = g + 1 /\ c >= b
         \/ h = g /\ c = b + 1
  PROVE  IsFiniteSet(T) /\ h + Cardinality(T) <= c
<1>1. /\ IsFiniteSet(S \cup {w}) /\ Cardinality(S) \in Nat
      /\ Cardinality(S \cup {w}) <= Cardinality(S) + 1
      /\ Cardinality(S \cup {w}) \in Nat
  BY FS_AddElement, FS_CardinalityType
<1>2. IsFiniteSet(T) /\ Cardinality(T) \in Nat /\ Cardinality(T) <= Cardinality(S \cup {w})
  BY <1>1, FS_Subset, FS_CardinalityType
<1>3. CASE T \subseteq S /\ h = g /\ c >= b
  <2>1. Cardinality(T) <= Cardinality(S)
    BY <1>3, FS_Subset
  <2> QED
    BY <1>1, <1>2, <1>3, <2>1
<1>4. CASE w \in S /\ w \notin T /\ h = g + 1 /\ c >= b
  <2>1. T \subseteq S \ {w} /\ IsFiniteSet(S \ {w})
    BY <1>4, FS_Subset, FS_RemoveElement
  <2>2. Cardinality(S \ {w}) = Cardinality(S) - 1
    BY <1>4, FS_RemoveElement
  <2>3. Cardinality(T) <= Cardinality(S \ {w})
    BY <2>1, FS_Subset
  <2> QED
    BY <1>1, <1>2, <1>4, <2>2, <2>3
<1>5. CASE h = g /\ c = b + 1
  BY <1>1, <1>2, <1>5
<1> QED
  BY <1>3, <1>4, <1>5

\* What a worker knows stays true whatever the others write.
LEMMA WalkKept ==
  ASSUME LedgerInv, LedgerMoves, NEW x, WalkFits(x)
  PROVE  WalkFits(x)'
<1>1. \A i \in ItemSet : ledger[i].gen \in Nat /\ ledger'[i].gen \in Nat
  BY CommitTypes, RowTypes DEF LedgerMoves
<1>2. x.pc \in {"build", "fail"} => x.item \in ItemSet /\ x.seen \in Nat
  BY CommitAssumption DEF WalkFits, WalkerRecords, Walking
<1>3. x.pc \in {"build", "fail"} => x.seen <= ledger'[x.item].gen
  BY <1>1, <1>2 DEF WalkFits, LedgerMoves
<1>4. \A i \in ItemSet : Passed(x, i) => ledger'[i].result # "none"
  BY DEF WalkFits, LedgerMoves
<1>5. x.pc = "flip" /\ x.failed = 0 => \A i \in ItemSet : ledger'[i].result = "success"
  BY DEF WalkFits, LedgerMoves
<1> QED
  BY <1>3, <1>4, <1>5 DEF WalkFits, WalkerRecords, StagedVersions, Reasons, Restageable, ItemSet,
                          Walking, Passed

\* One worker goes on.
LEMMA OneWalks ==
  ASSUME LedgerInv, LedgerMoves, NEW w \in Committers, NEW x,
         committer' = [committer EXCEPT ![w] = x], WalkFits(x)',
         \A i \in ItemSet : FailuresCharged(w, x, i) /\ StagingsCharged(w, x, i),
         newest' \in [ItemSet -> Nat], Delivered' \in Int
  PROVE  /\ committer' \in [Committers -> WalkerRecords]
         /\ \A v \in Committers : WalkFits(committer[v])'
         /\ \A i \in ItemSet : ItemIsPaid(i)'
<1>1. x \in WalkerRecords
  BY DEF WalkFits, WalkerRecords, StagedVersions, Reasons, Restageable
<1>2. \A v \in Committers : committer'[v] = IF v = w THEN x ELSE committer[v]
  BY CommitTypes
<1>3. ASSUME NEW v \in Committers PROVE WalkFits(committer[v])'
  <2>1. CASE v = w
    <3>1. committer'[v] = x
      BY <1>2, <2>1
    <3> QED
      BY <3>1 DEF WalkFits, Passed
  <2>2. CASE v # w
    <3>1. PICK y : y = committer[v]
      OBVIOUS
    <3>2. WalkFits(y)'
      BY <3>1, WalkKept, CommitTypes
    <3>3. committer'[v] = y
      BY <1>2, <2>2, <3>1
    <3> QED
      BY <3>2, <3>3 DEF WalkFits, Passed
  <2> QED
    BY <2>1, <2>2
<1>4. ASSUME NEW i \in ItemSet PROVE ItemIsPaid(i)'
  <2>1. PICK S : S = Failers(i)
    OBVIOUS
  <2>2. PICK T : T = Failers(i)'
    OBVIOUS
  <2>3. \A v \in Committers : v # w => (v \in T <=> v \in S)
    BY <1>2, <2>1, <2>2 DEF Failers, MayFail
  <2>4. (w \in T <=> MayFail(x, i)) /\ (w \in S <=> MayFail(committer[w], i))
    <3>1. committer'[w] = x
      BY <1>2
    <3> QED
      BY <3>1, <2>1, <2>2 DEF Failers, MayFail
  <2>5. S \subseteq Committers /\ T \subseteq Committers
    BY <2>1, <2>2 DEF Failers
  <2>6. T \subseteq S \cup {w} /\ ((w \in T => w \in S) => T \subseteq S)
    BY <2>3, <2>5
  <2>7. IsFiniteSet(S) /\ ledger[i].gen + Cardinality(S) <= Delivered
    BY <2>1 DEF LedgerInv, ItemIsPaid
  <2>8. ledger[i].gen \in Nat /\ ledger'[i].gen \in Nat /\ Delivered \in Int
    BY CommitTypes, RowTypes DEF LedgerMoves
  <2>9. \/ T \subseteq S /\ ledger'[i].gen = ledger[i].gen /\ Delivered' >= Delivered
        \/ w \in S /\ w \notin T /\ ledger'[i].gen = ledger[i].gen + 1 /\ Delivered' >= Delivered
        \/ ledger'[i].gen = ledger[i].gen /\ Delivered' = Delivered + 1
    BY <2>4, <2>6 DEF FailuresCharged
  <2>10. IsFiniteSet(T) /\ ledger'[i].gen + Cardinality(T) <= Delivered'
    <3>1. PICK g \in Nat, h \in Nat, b \in Int, c \in Int :
            g = ledger[i].gen /\ h = ledger'[i].gen /\ b = Delivered /\ c = Delivered'
      BY <2>8
    <3>2. IsFiniteSet(S) /\ T \subseteq S \cup {w} /\ g + Cardinality(S) <= b
      BY <2>6, <2>7, <3>1
    <3>3. \/ T \subseteq S /\ h = g /\ c >= b
          \/ w \in S /\ w \notin T /\ h = g + 1 /\ c >= b
          \/ h = g /\ c = b + 1
      BY <2>9, <3>1
    <3>4. IsFiniteSet(T) /\ h + Cardinality(T) <= c
      BY <3>2, <3>3, Charge
    <3> QED
      BY <3>1, <3>4
  <2>11. PICK P : P = Restagers(i)
    OBVIOUS
  <2>12. PICK Q : Q = Restagers(i)'
    OBVIOUS
  <2>13. \A v \in Committers : v # w => (v \in Q <=> v \in P)
    BY <1>2, <2>11, <2>12 DEF Restagers, MayRestage
  <2>14. (w \in Q <=> MayRestage(x, i)) /\ (w \in P <=> MayRestage(committer[w], i))
    <3>1. committer'[w] = x
      BY <1>2
    <3> QED
      BY <3>1, <2>11, <2>12 DEF Restagers, MayRestage
  <2>15. P \subseteq Committers /\ Q \subseteq Committers
    BY <2>11, <2>12 DEF Restagers
  <2>16. Q \subseteq P \cup {w} /\ ((w \in Q => w \in P) => Q \subseteq P)
    BY <2>13, <2>15
  <2>17. IsFiniteSet(P) /\ newest[i] + Cardinality(P) <= Delivered + 1
    BY <2>11 DEF LedgerInv, ItemIsPaid
  <2>18. newest[i] \in Nat /\ newest'[i] \in Nat /\ Delivered + 1 \in Int /\ Delivered' + 1 \in Int
    BY CommitTypes DEF StagedVersions
  <2>19. \/ Q \subseteq P /\ newest'[i] = newest[i] /\ Delivered' + 1 >= Delivered + 1
         \/ w \in P /\ w \notin Q /\ newest'[i] = newest[i] + 1 /\ Delivered' + 1 >= Delivered + 1
         \/ newest'[i] = newest[i] /\ Delivered' + 1 = (Delivered + 1) + 1
    <3>1. \/ Q \subseteq P /\ newest'[i] = newest[i] /\ Delivered' >= Delivered
          \/ w \in P /\ w \notin Q /\ newest'[i] = newest[i] + 1 /\ Delivered' >= Delivered
          \/ newest'[i] = newest[i] /\ Delivered' = Delivered + 1
      BY <2>14, <2>16 DEF StagingsCharged
    <3>2. (Delivered' >= Delivered => Delivered' + 1 >= Delivered + 1)
          /\ (Delivered' = Delivered + 1 => Delivered' + 1 = (Delivered + 1) + 1)
      <4>1. PICK a \in Int : a = Delivered
        BY <2>8
      <4>2. PICK b \in Int : b = Delivered'
        OBVIOUS
      <4>3. (b >= a => b + 1 >= a + 1) /\ (b = a + 1 => b + 1 = (a + 1) + 1)
        OBVIOUS
      <4> QED
        BY <4>1, <4>2, <4>3
    <3> QED
      BY <3>1, <3>2
  <2>20. IsFiniteSet(Q) /\ newest'[i] + Cardinality(Q) <= Delivered' + 1
    BY <2>16, <2>17, <2>18, <2>19, Charge
  <2> QED
    BY <2>2, <2>10, <2>12, <2>20 DEF ItemIsPaid
<1> QED
  BY <1>1, <1>3, <1>4, CommitTypes

\* No worker moves and the ledger stays; deliveries may grow.
LEMMA NobodyWalks ==
  ASSUME LedgerInv, UNCHANGED <<committer, ledger, newest>>, Delivered' \in Int,
         Delivered' >= Delivered
  PROVE  /\ committer' \in [Committers -> WalkerRecords]
         /\ \A w \in Committers : WalkFits(committer[w])'
         /\ \A i \in ItemSet : ItemIsPaid(i)'
<1>1. LedgerMoves
  <2>1. \A i \in ItemSet : ledger[i].gen \in Nat
    BY CommitTypes, RowTypes
  <2> QED
    BY <2>1, CommitTypes DEF LedgerMoves
<1>2. ASSUME NEW w \in Committers PROVE WalkFits(committer[w])'
  <2>1. PICK y : y = committer[w]
    OBVIOUS
  <2>2. WalkFits(y)'
    BY <1>1, <2>1, WalkKept, CommitTypes
  <2>3. committer'[w] = y
    BY <2>1
  <2> QED
    BY <2>2, <2>3 DEF WalkFits, Passed
<1>3. ASSUME NEW i \in ItemSet PROVE ItemIsPaid(i)'
  <2>1. Failers(i)' = Failers(i) /\ Restagers(i)' = Restagers(i)
    BY DEF Failers, Restagers, MayFail, MayRestage
  <2>2. ItemIsPaid(i)
    BY DEF LedgerInv
  <2>3. PICK f \in Nat : f = Cardinality(Failers(i))
    BY <2>2, FS_CardinalityType DEF ItemIsPaid
  <2>4. PICK r \in Nat : r = Cardinality(Restagers(i))
    BY <2>2, FS_CardinalityType DEF ItemIsPaid
  <2>5. PICK a \in Int : a = Delivered
    BY CommitTypes
  <2>6. PICK b \in Int : b = Delivered'
    OBVIOUS
  <2>7. PICK g \in Nat : g = ledger[i].gen
    BY CommitTypes, RowTypes
  <2>8. PICK n \in Nat : n = newest[i]
    BY CommitTypes DEF StagedVersions
  <2>9. g + f <= a /\ n + r <= a + 1 /\ a <= b
    BY <2>2, <2>3, <2>4, <2>5, <2>6, <2>7, <2>8 DEF ItemIsPaid
  <2>10. g + f <= b /\ n + r <= b + 1
    BY <2>9
  <2>11. ledger'[i].gen = g /\ newest'[i] = n
    BY <2>7, <2>8
  <2> QED
    BY <2>1, <2>2, <2>3, <2>4, <2>6, <2>10, <2>11 DEF ItemIsPaid
<1> QED
  BY <1>2, <1>3, CommitTypes

Following(k) ==
  [IdleCommitter EXCEPT !.pc = IF k = Items THEN "tally" ELSE "load",
                        !.item = IF k = Items THEN 0 ELSE k + 1]

\* A worker goes on to the next item, or to the end of the walk.
LEMMA NextWalks ==
  ASSUME LedgerInv, LedgerMoves, NEW w \in Committers, committer[w].pc \in Walking,
         ledger'[committer[w].item].result # "none",
         NEW x, x = Following(committer[w].item)
  PROVE  /\ NextItem(w) = [committer EXCEPT ![w] = x]
         /\ WalkFits(x)'
         /\ \A i \in ItemSet : /\ MayFail(x, i) => MayFail(committer[w], i) /\ i # committer[w].item
                               /\ MayRestage(x, i) => MayRestage(committer[w], i)
<1>1. PICK k \in ItemSet : k = committer[w].item
  BY CommitTypes DEF WalkFits
<1>2. Items \in Nat \ {0} /\ k \in Nat /\ 1 <= k /\ k <= Items
  BY CommitTypes DEF ItemSet
<1>3. NextItem(w) = [committer EXCEPT ![w] = x]
  BY DEF NextItem, Following
<1>4. /\ x.pc = IF k = Items THEN "tally" ELSE "load"
      /\ x.item = IF k = Items THEN 0 ELSE k + 1
      /\ x.failed = 0
  BY <1>1 DEF Following, IdleCommitter
<1>5. x \in WalkerRecords
  <2>1. IdleCommitter \in WalkerRecords
    BY CommitAssumption DEF IdleCommitter, WalkerRecords, StagedVersions
  <2>2. PICK p \in {"tally", "load"} : p = IF k = Items THEN "tally" ELSE "load"
    OBVIOUS
  <2>3. PICK n \in 0..Items : n = IF k = Items THEN 0 ELSE k + 1
    BY <1>2
  <2>4. [IdleCommitter EXCEPT !.pc = p, !.item = n] \in WalkerRecords
    BY <2>1 DEF WalkerRecords
  <2> QED
    BY <1>1, <2>2, <2>3, <2>4 DEF Following
<1>6. x.pc \in Walking => x.item \in ItemSet
  BY <1>2, <1>4 DEF Walking, ItemSet
<1>7. ASSUME NEW i \in ItemSet, Passed(x, i) PROVE ledger'[i].result # "none"
  <2>1. i \in Nat /\ i <= Items
    BY <1>2 DEF ItemSet
  <2>2. i <= k
    BY <1>2, <1>4, <1>7, <2>1 DEF Passed, Walking
  <2>3. CASE i = k
    BY <1>1, <2>3
  <2>4. CASE i < k
    <3>1. Passed(committer[w], i)
      BY <1>1, <2>4 DEF Passed
    <3> QED
      BY <3>1, CommitTypes DEF WalkFits, LedgerMoves
  <2> QED
    BY <1>2, <2>1, <2>2, <2>3, <2>4
<1>8. WalkFits(x)'
  BY <1>4, <1>5, <1>6, <1>7
  DEF WalkFits, WalkerRecords, StagedVersions, Reasons, Restageable, ItemSet, Walking, Passed
<1>9. ASSUME NEW i \in ItemSet
      PROVE  /\ MayFail(x, i) => MayFail(committer[w], i) /\ i # committer[w].item
             /\ MayRestage(x, i) => MayRestage(committer[w], i)
  <2>1. i \in Nat
    BY <1>2 DEF ItemSet
  <2>2. (MayFail(x, i) \/ MayRestage(x, i)) => k < i
    BY <1>2, <1>4, <2>1 DEF MayFail, MayRestage, Walking
  <2> QED
    BY <1>1, <1>2, <2>1, <2>2 DEF MayFail, MayRestage
<1> QED
  BY <1>3, <1>8, <1>9

\* What a step may make of run, vault, staged versions and tasks.
RestMoves ==
  /\ runStatus' \in {"Committing", "PartiallyCommitted", "Completed"}
  /\ runStatus' = "Completed" =>
       runStatus = "Completed" \/ \A i \in ItemSet : ledger[i].result = "success"
  /\ vaulted' \in [ItemSet -> 0..1]
  /\ \A i \in ItemSet : vaulted'[i] = IF ledger'[i].result = "success" THEN 1 ELSE 0
  /\ locator' \in [ItemSet -> StagedVersions] /\ newest' \in [ItemSet -> StagedVersions]
  /\ stored' \in [ItemSet -> SUBSET StagedVersions]
  /\ queued' \in 0..MaxTasks /\ enqueued' \in 0..MaxTasks

LEMMA Assembled ==
  ASSUME LedgerInv, LedgerMoves, RestMoves,
         committer' \in [Committers -> WalkerRecords],
         \A w \in Committers : WalkFits(committer[w])',
         \A i \in ItemSet : ItemIsPaid(i)'
  PROVE  LedgerInv'
<1>1. CommitTypeOK'
  BY DEF CommitTypeOK, LedgerMoves, RestMoves, WalkerRecords
<1>2. CommittedExactlyOnce'
  BY DEF CommittedExactlyOnce, RestMoves
<1>3. CompletedMeansAll'
  BY DEF CompletedMeansAll, RestMoves, LedgerMoves, LedgerInv
<1> QED
  BY <1>1, <1>2, <1>3 DEF LedgerInv

LEMMA LedgerStays ==
  ASSUME LedgerInv, UNCHANGED ledger
  PROVE  LedgerMoves
<1>1. \A i \in ItemSet : ledger[i].gen \in Nat
  BY CommitTypes, RowTypes
<1> QED
  BY <1>1, CommitTypes DEF LedgerMoves

\* Everything but the worker stays.
LEMMA RestStays ==
  ASSUME LedgerInv, UNCHANGED <<runStatus, ledger, vaulted, locator, stored, newest>>,
         queued' \in 0..MaxTasks, enqueued' \in 0..MaxTasks
  PROVE  RestMoves
BY DEF RestMoves, LedgerInv, CommitTypeOK, CommittedExactlyOnce

\* The tasks alone move.
LEMMA TasksMove ==
  ASSUME LedgerInv, UNCHANGED <<ledger, vaulted, locator, stored, newest, committer>>,
         runStatus' \in {runStatus, "Committing", "PartiallyCommitted"},
         queued' \in 0..MaxTasks, enqueued' \in 0..MaxTasks, Delivered' >= Delivered
  PROVE  LedgerInv'
<1>1. Delivered' \in Int
  BY CommitAssumption DEF Delivered
<1>2. RestMoves
  BY DEF RestMoves, LedgerInv, CommitTypeOK, CommittedExactlyOnce
<1> QED
  BY <1>1, <1>2, LedgerStays, NobodyWalks, Assembled

\* One worker goes on as x.
LEMMA WorkerMoves ==
  ASSUME LedgerInv, LedgerMoves, RestMoves, NEW w \in Committers, NEW x,
         committer' = [committer EXCEPT ![w] = x], WalkFits(x)',
         \A i \in ItemSet : FailuresCharged(w, x, i) /\ StagingsCharged(w, x, i)
  PROVE  LedgerInv'
<1>1. Delivered' \in Int /\ newest' \in [ItemSet -> Nat]
  BY CommitAssumption DEF Delivered, RestMoves, StagedVersions
<1> QED
  BY <1>1, OneWalks, Assembled

\* A worker that gains no right to fail or stage an item is charged nothing.
LEMMA NothingCharged ==
  ASSUME LedgerInv, NEW w \in Committers, NEW x, NEW i \in ItemSet,
         MayFail(x, i) => MayFail(committer[w], i),
         MayRestage(x, i) => MayRestage(committer[w], i),
         ledger'[i].gen = ledger[i].gen, newest'[i] = newest[i], Delivered' = Delivered
  PROVE  FailuresCharged(w, x, i) /\ StagingsCharged(w, x, i)
<1>1. Delivered' >= Delivered
  <2>1. PICK a \in Int : a = Delivered
    BY CommitTypes
  <2> QED
    BY <2>1
<1> QED
  BY <1>1 DEF FailuresCharged, StagingsCharged

LEMMA EnqueueKeeps ==
  ASSUME LedgerInv, Enqueue
  PROVE  /\ queued' \in 0..MaxTasks /\ enqueued' \in 0..MaxTasks
         /\ Delivered' = Delivered /\ Delivered' >= Delivered
BY CommitTypes DEF Enqueue, Delivered

LEMMA TasksStay ==
  ASSUME LedgerInv, UNCHANGED <<queued, enqueued>>
  PROVE  /\ queued' \in 0..MaxTasks /\ enqueued' \in 0..MaxTasks
         /\ Delivered' = Delivered
BY DEF LedgerInv, CommitTypeOK, Delivered

LEMMA IdleWalker ==
  /\ IdleCommitter \in WalkerRecords /\ IdleCommitter.pc = "idle"
  /\ \A i \in ItemSet : ~MayFail(IdleCommitter, i) /\ ~MayRestage(IdleCommitter, i)
  /\ WalkFits(IdleCommitter)'
<1>1. IdleCommitter \in WalkerRecords /\ IdleCommitter.pc = "idle"
  BY CommitAssumption DEF IdleCommitter, WalkerRecords, StagedVersions
<1>2. \A i \in ItemSet : ~MayFail(IdleCommitter, i) /\ ~MayRestage(IdleCommitter, i)
  BY <1>1 DEF MayFail, MayRestage, Walking
<1>3. PICK y : y = IdleCommitter
  OBVIOUS
<1>4. y \in WalkerRecords /\ y.pc = "idle"
  BY <1>1, <1>3
<1>5. WalkFits(y)'
  BY <1>4
  DEF WalkFits, WalkerRecords, StagedVersions, Reasons, Restageable, ItemSet, Walking, Passed
<1>6. WalkFits(IdleCommitter)'
  BY <1>3, <1>5 DEF WalkFits, Passed, IdleCommitter
<1> QED
  BY <1>1, <1>2, <1>6

LEMMA RunCommitStep ==
  ASSUME LedgerInv, NEW w \in Committers, RunCommit(w) \/ CommitPreconditionsFail(w)
  PROVE  LedgerInv'
<1>1. /\ queued' \in 0..MaxTasks /\ enqueued' \in 0..MaxTasks
      /\ Delivered' = Delivered + 1 /\ Delivered' >= Delivered
  BY CommitTypes DEF RunCommit, CommitPreconditionsFail, Delivered
<1>2. CASE CommitPreconditionsFail(w) \/ runStatus # "Committing"
  <2>1. /\ UNCHANGED <<ledger, vaulted, locator, stored, newest, committer>>
        /\ runStatus' \in {runStatus, "Committing", "PartiallyCommitted"}
    BY <1>2 DEF RunCommit, CommitPreconditionsFail
  <2> QED
    BY <1>1, <2>1, TasksMove
<1>3. CASE RunCommit(w) /\ runStatus = "Committing"
  <2>1. PICK x : x = [IdleCommitter EXCEPT !.pc = "load", !.item = 1]
    OBVIOUS
  <2>2. committer' = [committer EXCEPT ![w] = x]
    BY <1>3, <2>1 DEF RunCommit
  <2>3. x \in WalkerRecords /\ x.pc = "load" /\ x.item = 1
    <3>1. 1 \in 0..Items
      BY CommitTypes
    <3> QED
      BY <2>1, <3>1, IdleWalker DEF WalkerRecords
  <2>4. 1 \in ItemSet /\ \A i \in ItemSet : ~Passed(x, i)
    BY <2>3, CommitTypes DEF ItemSet, Passed, Walking
  <2>5. WalkFits(x)'
    BY <2>3, <2>4
    DEF WalkFits, WalkerRecords, StagedVersions, Reasons, Restageable, ItemSet, Walking, Passed
  <2>6. UNCHANGED <<runStatus, ledger, vaulted, locator, stored, newest>>
    BY <1>3 DEF RunCommit
  <2>7. \A i \in ItemSet : FailuresCharged(w, x, i) /\ StagingsCharged(w, x, i)
    BY <1>1, <2>6 DEF FailuresCharged, StagingsCharged
  <2> QED
    BY <1>1, <2>2, <2>5, <2>6, <2>7, LedgerStays, RestStays, WorkerMoves
<1> QED
  BY <1>2, <1>3

LEMMA DeathStep ==
  ASSUME LedgerInv, NEW w \in Committers, CommitterDies(w)
  PROVE  LedgerInv'
<1>1. PICK x : x = IdleCommitter
  OBVIOUS
<1>2. committer' = [committer EXCEPT ![w] = x]
  BY <1>1 DEF CommitterDies
<1>3. UNCHANGED <<runStatus, ledger, vaulted, locator, stored, newest>> /\ Enqueue
  BY DEF CommitterDies
<1>4. WalkFits(x)'
  BY <1>1, IdleWalker DEF WalkFits, Passed, IdleCommitter
<1>5. \A i \in ItemSet : FailuresCharged(w, x, i) /\ StagingsCharged(w, x, i)
  BY <1>1, <1>3, IdleWalker, EnqueueKeeps, NothingCharged
<1> QED
  BY <1>2, <1>3, <1>4, <1>5, EnqueueKeeps, LedgerStays, RestStays, WorkerMoves

\* A worker leaves its item behind and nothing is charged for it.
LEMMA NextStep ==
  ASSUME LedgerInv, LedgerMoves, RestMoves, NEW w \in Committers, committer[w].pc \in Walking,
         ledger'[committer[w].item].result # "none", committer' = NextItem(w),
         \A i \in ItemSet : ledger'[i].gen = ledger[i].gen /\ newest'[i] = newest[i],
         Delivered' = Delivered
  PROVE  LedgerInv'
<1>1. PICK x : x = Following(committer[w].item)
  OBVIOUS
<1>2. /\ committer' = [committer EXCEPT ![w] = x] /\ WalkFits(x)'
      /\ \A i \in ItemSet : /\ MayFail(x, i) => MayFail(committer[w], i)
                            /\ MayRestage(x, i) => MayRestage(committer[w], i)
  BY <1>1, NextWalks
<1>3. \A i \in ItemSet : FailuresCharged(w, x, i) /\ StagingsCharged(w, x, i)
  BY <1>2, NothingCharged
<1> QED
  BY <1>2, <1>3, WorkerMoves

LEMMA LoadStep ==
  ASSUME LedgerInv, NEW w \in Committers, LoadItem(w)
  PROVE  LedgerInv'
<1>1. /\ UNCHANGED <<runStatus, ledger, vaulted, locator, stored, newest, queued, enqueued>>
      /\ committer[w].pc = "load"
  BY DEF LoadItem
<1>2. LedgerMoves /\ RestMoves /\ Delivered' = Delivered
  BY <1>1, LedgerStays, RestStays, TasksStay
<1>3. PICK i \in ItemSet : i = committer[w].item
  BY <1>1, CommitTypes DEF WalkFits, Walking
<1>4. CASE ledger[i].result = "success"
  <2>1. committer' = NextItem(w)
    BY <1>3, <1>4 DEF LoadItem
  <2> QED
    BY <1>1, <1>2, <1>3, <1>4, <2>1, NextStep DEF Walking
<1>5. CASE ledger[i].result # "success"
  <2>1. PICK b \in BOOLEAN : b = (ledger[i].error \in Restageable)
    <3>1. CASE ledger[i].error \in Restageable
      <4>1. (ledger[i].error \in Restageable) = TRUE
        BY <3>1
      <4> QED
        BY <4>1
    <3>2. CASE ledger[i].error \notin Restageable
      <4>1. (ledger[i].error \in Restageable) = FALSE
        BY <3>2
      <4> QED
        BY <4>1
    <3> QED
      BY <3>1, <3>2
  <2>2. PICK g : g = ledger[i].gen
    OBVIOUS
  <2>3. g \in 0..MaxTasks /\ g \in Nat
    BY <2>2, CommitTypes, RowTypes
  <2>4. PICK v \in StagedVersions : v = locator[i]
    BY CommitTypes
  <2>5. PICK old \in WalkerRecords : old = committer[w]
    BY CommitTypes
  <2>6. PICK x : x = [old EXCEPT !.pc = "build", !.seen = g, !.restage = b, !.version = v]
    OBVIOUS
  <2>7. committer' = [committer EXCEPT ![w] = x]
    <3>1. committer' = [committer EXCEPT ![w].pc = "build", ![w].seen = g, ![w].restage = b,
                                         ![w].version = v]
      BY <1>3, <1>5, <2>1, <2>2, <2>4 DEF LoadItem
    <3> QED
      BY <3>1, <2>5, <2>6, CommitTypes
  <2>8. x \in WalkerRecords /\ x.pc = "build" /\ x.seen = g /\ x.item = i
    BY <2>3, <2>5, <2>6, <1>3 DEF WalkerRecords
  <2>9. ASSUME NEW j \in ItemSet, Passed(x, j) PROVE ledger'[j].result # "none"
    <3>1. Passed(committer[w], j)
      BY <1>1, <1>3, <2>8, <2>9 DEF Passed, Walking
    <3> QED
      BY <1>1, <3>1, CommitTypes DEF WalkFits
  <2>10. x.seen <= ledger'[x.item].gen
    BY <1>1, <2>2, <2>3, <2>8
  <2>11. WalkFits(x)'
    BY <2>8, <2>9, <2>10
    DEF WalkFits, WalkerRecords, StagedVersions, Reasons, Restageable, ItemSet, Walking, Passed
  <2>12. ASSUME NEW j \in ItemSet
         PROVE  /\ MayFail(x, j) => MayFail(committer[w], j)
                /\ MayRestage(x, j) => MayRestage(committer[w], j)
    BY <1>1, <1>3, <2>8 DEF MayFail, MayRestage, Walking
  <2>13. \A j \in ItemSet : FailuresCharged(w, x, j) /\ StagingsCharged(w, x, j)
    BY <1>1, <1>2, <2>12, NothingCharged
  <2> QED
    BY <1>2, <2>7, <2>11, <2>13, WorkerMoves
<1> QED
  BY <1>4, <1>5

LEMMA RestageStep ==
  ASSUME LedgerInv, NEW w \in Committers, RestageSource(w)
  PROVE  LedgerInv'
<1>1. /\ UNCHANGED <<runStatus, ledger, vaulted, locator, queued, enqueued>>
      /\ committer[w].pc = "build" /\ committer[w].restage
  BY DEF RestageSource
<1>2. LedgerMoves /\ Delivered' = Delivered /\ queued' \in 0..MaxTasks /\ enqueued' \in 0..MaxTasks
  BY <1>1, LedgerStays, TasksStay
<1>3. PICK i \in ItemSet : i = committer[w].item
  BY <1>1, CommitTypes DEF WalkFits, Walking
<1>4. PICK n \in Nat : n = newest[i]
  BY CommitTypes DEF StagedVersions
<1>5. n + 1 \in StagedVersions /\ n + 1 \in Nat
  <2>1. w \in Restagers(i)
    BY <1>1, <1>3 DEF Restagers, MayRestage, Walking
  <2>2. IsFiniteSet(Restagers(i)) /\ n + Cardinality(Restagers(i)) <= Delivered + 1
    BY <1>4 DEF LedgerInv, ItemIsPaid
  <2>3. PICK k \in Nat : k = Cardinality(Restagers(i))
    BY <2>2, FS_CardinalityType
  <2>4. k # 0
    BY <2>1, <2>2, <2>3, FS_EmptySet
  <2>5. PICK d \in Int : d = Delivered /\ d <= MaxTasks
    BY CommitTypes DEF Delivered
  <2>6. n + k <= d + 1
    BY <2>2, <2>3, <2>5
  <2> QED
    BY <2>4, <2>5, <2>6, CommitTypes DEF StagedVersions
<1>6. /\ newest' = [newest EXCEPT ![i] = n + 1]
      /\ stored' = [stored EXCEPT ![i] = @ \cup {n + 1}]
      /\ committer' = [committer EXCEPT ![w].restage = FALSE, ![w].version = n + 1]
  BY <1>3, <1>4 DEF RestageSource
<1>7. newest' \in [ItemSet -> StagedVersions] /\ stored' \in [ItemSet -> SUBSET StagedVersions]
  BY <1>5, <1>6, CommitTypes
<1>8. RestMoves
  BY <1>1, <1>2, <1>7 DEF RestMoves, LedgerInv, CommitTypeOK, CommittedExactlyOnce
<1>9. PICK old \in WalkerRecords : old = committer[w]
  BY CommitTypes
<1>10. PICK x : x = [old EXCEPT !.restage = FALSE, !.version = n + 1]
  OBVIOUS
<1>11. committer' = [committer EXCEPT ![w] = x]
  BY <1>6, <1>9, <1>10, CommitTypes
<1>12. x \in WalkerRecords /\ x.pc = "build" /\ x.item = i /\ x.restage = FALSE /\ x.seen = old.seen
  BY <1>1, <1>3, <1>5, <1>9, <1>10 DEF WalkerRecords
<1>13. WalkFits(x)'
  <2>1. ASSUME NEW j \in ItemSet, Passed(x, j) PROVE ledger'[j].result # "none"
    <3>1. Passed(committer[w], j)
      BY <1>1, <1>3, <1>12, <2>1 DEF Passed, Walking
    <3> QED
      BY <1>1, <3>1, CommitTypes DEF WalkFits
  <2>2. x.seen <= ledger'[x.item].gen
    BY <1>1, <1>3, <1>9, <1>12, CommitTypes DEF WalkFits
  <2> QED
    BY <1>12, <2>1, <2>2
    DEF WalkFits, WalkerRecords, StagedVersions, Reasons, Restageable, ItemSet, Walking, Passed
<1>14. ASSUME NEW j \in ItemSet PROVE FailuresCharged(w, x, j) /\ StagingsCharged(w, x, j)
  <2>1. MayFail(x, j) => MayFail(committer[w], j)
    BY <1>1, <1>3, <1>12 DEF MayFail, Walking
  <2>2. CASE j = i
    <3>1. MayRestage(committer[w], j) /\ ~MayRestage(x, j)
      <4>1. ~(i < i)
        BY CommitTypes DEF ItemSet
      <4> QED
        BY <1>1, <1>3, <1>12, <2>2, <4>1 DEF MayRestage, Walking
    <3>2. newest'[j] = newest[j] + 1 /\ ledger'[j].gen = ledger[j].gen
      BY <1>1, <1>4, <1>6, <2>2, CommitTypes
    <3>3. Delivered' >= Delivered
      <4>1. PICK a \in Int : a = Delivered
        BY CommitTypes
      <4> QED
        BY <1>2, <4>1
    <3> QED
      BY <2>1, <3>1, <3>2, <3>3 DEF FailuresCharged, StagingsCharged
  <2>3. CASE j # i
    <3>1. MayRestage(x, j) => MayRestage(committer[w], j)
      BY <1>1, <1>3, <1>12, <2>3 DEF MayRestage, Walking
    <3>2. newest'[j] = newest[j] /\ ledger'[j].gen = ledger[j].gen
      BY <1>1, <1>6, <2>3, CommitTypes
    <3> QED
      BY <1>2, <2>1, <3>1, <3>2, NothingCharged
  <2> QED
    BY <2>2, <2>3
<1> QED
  BY <1>2, <1>8, <1>11, <1>13, <1>14, WorkerMoves

LEMMA CommitItemStep ==
  ASSUME LedgerInv, NEW w \in Committers, CommitItem(w)
  PROVE  LedgerInv'
<1>1. /\ UNCHANGED <<runStatus, stored, newest, queued, enqueued>>
      /\ committer[w].pc = "build" /\ committer' = NextItem(w)
  BY DEF CommitItem
<1>2. Delivered' = Delivered /\ queued' \in 0..MaxTasks /\ enqueued' \in 0..MaxTasks
  BY <1>1, TasksStay
<1>3. PICK i \in ItemSet : i = committer[w].item
  BY <1>1, CommitTypes DEF WalkFits, Walking
<1>4. CASE ledger[i].result = "success"
  <2>1. UNCHANGED <<ledger, vaulted, locator>>
    BY <1>3, <1>4 DEF CommitItem, ClaimWins
  <2> QED
    BY <1>1, <1>2, <1>3, <1>4, <2>1, LedgerStays, RestStays, NextStep DEF Walking
<1>5. CASE ledger[i].result # "success"
  <2>1. PICK g \in 0..MaxTasks : g = ledger[i].gen
    BY CommitTypes, RowTypes
  <2>2. PICK row : row = [result |-> "success", gen |-> g, error |-> "-"]
    OBVIOUS
  <2>3. PICK v \in StagedVersions : v = committer[w].version
    BY CommitTypes DEF WalkerRecords
  <2>4. /\ ledger' = [ledger EXCEPT ![i] = row]
        /\ vaulted' = [vaulted EXCEPT ![i] = vaulted[i] + 1]
        /\ locator' = [locator EXCEPT ![i] = v]
    BY <1>3, <1>5, <2>1, <2>2, <2>3 DEF CommitItem, ClaimWins
  <2>5. row \in LedgerRows /\ row.result = "success" /\ row.gen = g
    BY <2>2 DEF LedgerRows
  <2>6. \A j \in ItemSet : ledger'[j] = IF j = i THEN row ELSE ledger[j]
    BY <2>4, CommitTypes
  <2>7. \A j \in ItemSet : ledger'[j].gen = ledger[j].gen /\ ledger[j].gen \in Nat
    BY <2>1, <2>5, <2>6, CommitTypes, RowTypes
  <2>8. LedgerMoves
    <3>1. ledger' \in [ItemSet -> LedgerRows]
      BY <2>4, <2>5, CommitTypes
    <3>2. \A j \in ItemSet : ledger[j].gen <= ledger'[j].gen
      <4> SUFFICES ASSUME NEW j \in ItemSet PROVE ledger[j].gen <= ledger'[j].gen
        OBVIOUS
      <4>1. PICK a \in Nat : a = ledger[j].gen /\ ledger'[j].gen = a
        BY <2>7
      <4> QED
        BY <4>1
    <3> QED
      BY <1>5, <2>5, <2>6, <3>1, <3>2 DEF LedgerMoves
  <2>9. vaulted[i] = 0 /\ vaulted' = [vaulted EXCEPT ![i] = 1]
    <3>1. vaulted[i] = 0
      BY <1>5 DEF LedgerInv, CommittedExactlyOnce
    <3>2. vaulted[i] + 1 = 1
      BY <3>1
    <3> QED
      BY <2>4, <3>1, <3>2
  <2>10. vaulted' \in [ItemSet -> 0..1]
         /\ \A j \in ItemSet : vaulted'[j] = IF ledger'[j].result = "success" THEN 1 ELSE 0
    <3>1. vaulted' \in [ItemSet -> 0..1]
      BY <2>9, CommitTypes
    <3>2. ASSUME NEW j \in ItemSet
          PROVE  vaulted'[j] = IF ledger'[j].result = "success" THEN 1 ELSE 0
      <4>1. CASE j = i
        BY <2>5, <2>6, <2>9, <4>1, CommitTypes
      <4>2. CASE j # i
        <5>1. vaulted'[j] = vaulted[j] /\ ledger'[j] = ledger[j]
          BY <2>6, <2>9, <4>2, CommitTypes
        <5> QED
          BY <5>1 DEF LedgerInv, CommittedExactlyOnce
      <4> QED
        BY <4>1, <4>2
    <3> QED
      BY <3>1, <3>2
  <2>11. RestMoves
    BY <1>1, <1>2, <2>4, <2>10 DEF RestMoves, LedgerInv, CommitTypeOK
  <2>12. ledger'[committer[w].item].result # "none"
    BY <1>3, <2>5, <2>6
  <2>13. \A j \in ItemSet : newest'[j] = newest[j]
    BY <1>1
  <2> QED
    BY <1>1, <1>2, <2>7, <2>8, <2>11, <2>12, <2>13, NextStep DEF Walking
<1> QED
  BY <1>4, <1>5

LEMMA RaiseStep ==
  ASSUME LedgerInv, NEW w \in Committers, ItemRaises(w)
  PROVE  LedgerInv'
<1>1. /\ UNCHANGED <<runStatus, ledger, vaulted, locator, stored, newest, queued, enqueued>>
      /\ committer[w].pc = "build"
  BY DEF ItemRaises
<1>2. LedgerMoves /\ RestMoves /\ Delivered' = Delivered
  BY <1>1, LedgerStays, RestStays, TasksStay
<1>3. PICK i \in ItemSet : i = committer[w].item
  BY <1>1, CommitTypes DEF WalkFits, Walking
<1>4. PICK error \in Reasons :
        committer' = [committer EXCEPT ![w].pc = "fail", ![w].error = error]
  BY DEF ItemRaises
<1>5. PICK old \in WalkerRecords : old = committer[w]
  BY CommitTypes
<1>6. PICK x : x = [old EXCEPT !.pc = "fail", !.error = error]
  OBVIOUS
<1>7. committer' = [committer EXCEPT ![w] = x]
  BY <1>4, <1>5, <1>6, CommitTypes
<1>8. x \in WalkerRecords /\ x.pc = "fail" /\ x.item = i /\ x.error = error /\ x.seen = old.seen
  BY <1>3, <1>5, <1>6 DEF WalkerRecords
<1>9. WalkFits(x)'
  <2>1. ASSUME NEW j \in ItemSet, Passed(x, j) PROVE ledger'[j].result # "none"
    <3>1. Passed(committer[w], j)
      BY <1>1, <1>3, <1>8, <2>1 DEF Passed, Walking
    <3> QED
      BY <1>1, <3>1, CommitTypes DEF WalkFits
  <2>2. x.seen <= ledger'[x.item].gen
    BY <1>1, <1>3, <1>5, <1>8, CommitTypes DEF WalkFits
  <2> QED
    BY <1>8, <2>1, <2>2
    DEF WalkFits, WalkerRecords, StagedVersions, Reasons, Restageable, ItemSet, Walking, Passed
<1>10. ASSUME NEW j \in ItemSet
       PROVE  /\ MayFail(x, j) => MayFail(committer[w], j)
              /\ MayRestage(x, j) => MayRestage(committer[w], j)
  BY <1>1, <1>3, <1>8 DEF MayFail, MayRestage, Walking
<1>11. \A j \in ItemSet : FailuresCharged(w, x, j) /\ StagingsCharged(w, x, j)
  BY <1>1, <1>2, <1>10, NothingCharged
<1> QED
  BY <1>2, <1>7, <1>9, <1>11, WorkerMoves

LEMMA CleanupStep ==
  ASSUME LedgerInv, NEW w \in Committers, CleanupRejectedSource(w)
  PROVE  LedgerInv'
<1>1. /\ UNCHANGED <<runStatus, ledger, vaulted, locator, newest, queued, enqueued>>
      /\ committer[w].pc = "cleanup" /\ committer' = NextItem(w)
  BY DEF CleanupRejectedSource
<1>2. PICK i \in ItemSet : i = committer[w].item
  BY <1>1, CommitTypes DEF WalkFits, Walking
<1>3. ledger'[i].result # "none"
  BY <1>1, <1>2, CommitTypes DEF WalkFits, Passed
<1>4. stored' \in [ItemSet -> SUBSET StagedVersions]
  BY <1>2, CommitTypes DEF CleanupRejectedSource
<1>5. LedgerMoves /\ Delivered' = Delivered /\ queued' \in 0..MaxTasks /\ enqueued' \in 0..MaxTasks
  BY <1>1, LedgerStays, TasksStay
<1>6. RestMoves
  BY <1>1, <1>4, <1>5 DEF RestMoves, LedgerInv, CommitTypeOK, CommittedExactlyOnce
<1> QED
  BY <1>1, <1>2, <1>3, <1>5, <1>6, NextStep DEF Walking

LEMMA TallyStep ==
  ASSUME LedgerInv, NEW w \in Committers, TallyResults(w)
  PROVE  LedgerInv'
<1>1. /\ UNCHANGED <<runStatus, ledger, vaulted, locator, stored, newest, queued, enqueued>>
      /\ committer[w].pc = "tally"
  BY DEF TallyResults
<1>2. LedgerMoves /\ RestMoves /\ Delivered' = Delivered
  BY <1>1, LedgerStays, RestStays, TasksStay
<1>3. PICK F : F = {i \in ItemSet : ledger[i].result = "failed"}
  OBVIOUS
<1>4. IsFiniteSet(F) /\ Cardinality(F) \in 0..Items
  <2>1. IsFiniteSet(ItemSet) /\ Cardinality(ItemSet) = Items
    BY CommitTypes, FS_Interval DEF ItemSet
  <2>2. F \subseteq ItemSet
    BY <1>3
  <2>3. IsFiniteSet(F) /\ Cardinality(F) <= Items
    BY <2>1, <2>2, FS_Subset
  <2> QED
    BY <2>3, CommitTypes, FS_CardinalityType
<1>5. PICK n \in 0..Items : n = Cardinality(F)
  BY <1>4
<1>6. \A i \in ItemSet : ledger[i].result # "none"
  BY <1>1, CommitTypes DEF WalkFits, Passed
<1>7. n = 0 => \A i \in ItemSet : ledger[i].result = "success"
  <2>1. n = 0 => F = {}
    BY <1>4, <1>5, FS_EmptySet
  <2> QED
    BY <1>3, <1>6, <2>1, CommitTypes, RowTypes
<1>8. PICK old \in WalkerRecords : old = committer[w]
  BY CommitTypes
<1>9. PICK x : x = [old EXCEPT !.pc = "flip", !.failed = n]
  OBVIOUS
<1>10. committer' = [committer EXCEPT ![w] = x]
  <2>1. committer' = [committer EXCEPT ![w].pc = "flip", ![w].failed = n]
    BY <1>3, <1>5 DEF TallyResults
  <2> QED
    BY <2>1, <1>8, <1>9, CommitTypes
<1>11. x \in WalkerRecords /\ x.pc = "flip" /\ x.failed = n
  BY <1>8, <1>9 DEF WalkerRecords
<1>12. WalkFits(x)'
  <2>1. \A j \in ItemSet : ledger'[j].result # "none"
    BY <1>1, <1>6
  <2>2. x.failed = 0 => \A j \in ItemSet : ledger'[j].result = "success"
    BY <1>1, <1>7, <1>11
  <2> QED
    BY <1>11, <2>1, <2>2
    DEF WalkFits, WalkerRecords, StagedVersions, Reasons, Restageable, ItemSet, Walking, Passed
<1>13. ASSUME NEW j \in ItemSet PROVE ~MayFail(x, j) /\ ~MayRestage(x, j)
  BY <1>11 DEF MayFail, MayRestage, Walking
<1>14. \A j \in ItemSet : FailuresCharged(w, x, j) /\ StagingsCharged(w, x, j)
  BY <1>1, <1>2, <1>13, NothingCharged
<1> QED
  BY <1>2, <1>10, <1>12, <1>14, WorkerMoves

LEMMA FinalizeStep ==
  ASSUME LedgerInv, NEW w \in Committers, FinalizeRun(w)
  PROVE  LedgerInv'
<1>1. UNCHANGED <<ledger, vaulted, locator, stored, newest, queued, enqueued>>
      /\ committer[w].pc = "flip"
  BY DEF FinalizeRun
<1>2. LedgerMoves /\ Delivered' = Delivered /\ queued' \in 0..MaxTasks /\ enqueued' \in 0..MaxTasks
  BY <1>1, LedgerStays, TasksStay
<1>3. /\ runStatus' \in {"Committing", "PartiallyCommitted", "Completed"}
      /\ runStatus' = "Completed" =>
           runStatus = "Completed" \/ \A i \in ItemSet : ledger[i].result = "success"
  <2>1. committer[w].failed = 0 => \A i \in ItemSet : ledger[i].result = "success"
    BY <1>1, CommitTypes DEF WalkFits
  <2> QED
    BY <2>1 DEF FinalizeRun, FinalStatus, LedgerInv, CommitTypeOK
<1>4. RestMoves
  BY <1>1, <1>2, <1>3 DEF RestMoves, LedgerInv, CommitTypeOK, CommittedExactlyOnce
<1>5. PICK x : x = IdleCommitter
  OBVIOUS
<1>6. committer' = [committer EXCEPT ![w] = x]
  BY <1>5 DEF FinalizeRun
<1>7. WalkFits(x)'
  BY <1>5, IdleWalker DEF WalkFits, Passed, IdleCommitter
<1>8. \A i \in ItemSet : FailuresCharged(w, x, i) /\ StagingsCharged(w, x, i)
  BY <1>1, <1>2, <1>5, IdleWalker, NothingCharged
<1> QED
  BY <1>2, <1>4, <1>6, <1>7, <1>8, WorkerMoves

LEMMA RecordFailedStep ==
  ASSUME LedgerInv, NEW w \in Committers, RecordFailed(w)
  PROVE  LedgerInv'
<1>1. /\ UNCHANGED <<runStatus, vaulted, stored, newest, queued, enqueued>>
      /\ committer[w].pc = "fail"
  BY DEF RecordFailed
<1>2. Delivered' = Delivered /\ queued' \in 0..MaxTasks /\ enqueued' \in 0..MaxTasks
  BY <1>1, TasksStay
<1>3. PICK i \in ItemSet : i = committer[w].item
  BY <1>1, CommitTypes DEF WalkFits, Walking
<1>4. PICK old \in WalkerRecords : old = committer[w]
  BY CommitTypes
<1>5. old.error \in Reasons /\ old.seen <= ledger[i].gen /\ old.seen \in 0..MaxTasks /\ old.item = i
  BY <1>1, <1>3, <1>4, CommitTypes DEF WalkFits, WalkerRecords
<1>6. PICK g \in 0..MaxTasks : g = ledger[i].gen
  BY CommitTypes, RowTypes
<1>7. CASE ~FailureWins(ledger[i], old.seen)
  <2>1. UNCHANGED <<ledger, locator>> /\ committer' = NextItem(w)
    BY <1>3, <1>4, <1>7 DEF RecordFailed, CleansUp
  <2>2. LedgerMoves /\ RestMoves
    BY <1>1, <1>2, <2>1, LedgerStays, RestStays
  <2>3. ledger[i].result # "none"
    <3>1. CASE ledger[i].result = "success"
      BY <3>1
    <3>2. CASE g # old.seen
      <4>1. g # 0
        BY <1>5, <1>6, <3>2, CommitTypes
      <4> QED
        BY <1>6, <4>1, CommitTypes, RowTypes
    <3> QED
      BY <1>6, <1>7, <3>1, <3>2 DEF FailureWins
  <2> QED
    BY <1>1, <1>2, <1>3, <2>1, <2>2, <2>3, NextStep DEF Walking
<1>8. CASE FailureWins(ledger[i], old.seen)
  <2>1. g + 1 \in 1..MaxTasks
    <3>1. w \in Failers(i)
      BY <1>1, <1>3 DEF Failers, MayFail, Walking
    <3>2. IsFiniteSet(Failers(i)) /\ g + Cardinality(Failers(i)) <= Delivered
      BY <1>6 DEF LedgerInv, ItemIsPaid
    <3>3. PICK k \in Nat : k = Cardinality(Failers(i))
      BY <3>2, FS_CardinalityType
    <3>4. k # 0
      BY <3>1, <3>2, <3>3, FS_EmptySet
    <3>5. PICK d \in Int : d = Delivered /\ d <= MaxTasks
      BY CommitTypes DEF Delivered
    <3>6. g + k <= d
      BY <3>2, <3>3, <3>5
    <3> QED
      BY <3>4, <3>5, <3>6, CommitTypes
  <2>2. PICK row : row = [result |-> "failed", gen |-> g + 1, error |-> old.error]
    OBVIOUS
  <2>3. row \in LedgerRows /\ row.result = "failed" /\ row.gen = g + 1
    BY <1>5, <2>1, <2>2 DEF LedgerRows
  <2>4. ledger' = [ledger EXCEPT ![i] = row]
    BY <1>3, <1>4, <1>6, <1>8, <2>2 DEF RecordFailed
  <2>5. \A j \in ItemSet : ledger'[j] = IF j = i THEN row ELSE ledger[j]
    BY <2>4, CommitTypes
  <2>6. ledger[i].result # "success"
    BY <1>8 DEF FailureWins
  <2>7. LedgerMoves
    <3>1. ledger' \in [ItemSet -> LedgerRows]
      BY <2>3, <2>4, CommitTypes
    <3>2. ASSUME NEW j \in ItemSet PROVE ledger[j].gen <= ledger'[j].gen
      <4>1. PICK a \in Nat : a = ledger[j].gen
        BY CommitTypes, RowTypes
      <4>2. ledger'[j].gen = IF j = i THEN g + 1 ELSE a
        BY <2>3, <2>5, <4>1
      <4>3. j = i => a = g
        BY <1>6, <4>1
      <4> QED
        BY <4>1, <4>2, <4>3
    <3> QED
      BY <2>3, <2>5, <2>6, <3>1, <3>2 DEF LedgerMoves
  <2>8. locator' \in [ItemSet -> StagedVersions]
    <3>1. PICK v \in StagedVersions : v = committer[w].version
      BY CommitTypes DEF WalkerRecords
    <3>2. locator' = locator \/ locator' = [locator EXCEPT ![i] = v]
      BY <1>3, <3>1 DEF RecordFailed
    <3> QED
      BY <3>1, <3>2, CommitTypes
  <2>9. ASSUME NEW j \in ItemSet
        PROVE  vaulted'[j] = IF ledger'[j].result = "success" THEN 1 ELSE 0
    BY <1>1, <2>3, <2>5, <2>6 DEF LedgerInv, CommittedExactlyOnce
  <2>10. RestMoves
    BY <1>1, <1>2, <2>8, <2>9 DEF RestMoves, LedgerInv, CommitTypeOK
  <2>11. ASSUME NEW x, ~MayFail(x, i), committer' = [committer EXCEPT ![w] = x], WalkFits(x)',
                \A j \in ItemSet : /\ MayFail(x, j) => MayFail(committer[w], j)
                                   /\ MayRestage(x, j) => MayRestage(committer[w], j)
         PROVE  LedgerInv'
    <3>1. ASSUME NEW j \in ItemSet PROVE FailuresCharged(w, x, j) /\ StagingsCharged(w, x, j)
      <4>1. CASE j = i
        <5>1. MayFail(committer[w], j)
          BY <1>1, <1>3, <4>1 DEF MayFail, Walking
        <5>2. ledger'[j].gen = ledger[j].gen + 1 /\ newest'[j] = newest[j]
          BY <1>1, <1>6, <2>3, <2>5, <4>1
        <5>3. Delivered' >= Delivered
          <6>1. PICK a \in Int : a = Delivered
            BY CommitTypes
          <6> QED
            BY <1>2, <6>1
        <5> QED
          BY <2>11, <4>1, <5>1, <5>2, <5>3 DEF FailuresCharged, StagingsCharged
      <4>2. CASE j # i
        BY <1>1, <1>2, <2>5, <2>11, <4>2, NothingCharged
      <4> QED
        BY <4>1, <4>2
    <3> QED
      BY <2>7, <2>10, <2>11, <3>1, WorkerMoves
  <2>12. CASE old.error # "mismatch"
    <3>1. committer' = NextItem(w)
      BY <1>3, <1>4, <2>12 DEF RecordFailed, CleansUp
    <3>2. PICK x : x = Following(committer[w].item)
      OBVIOUS
    <3>3. ledger'[committer[w].item].result # "none"
      BY <1>3, <2>3, <2>5
    <3>4. /\ committer' = [committer EXCEPT ![w] = x] /\ WalkFits(x)'
          /\ \A j \in ItemSet : /\ MayFail(x, j) => MayFail(committer[w], j) /\ j # i
                                /\ MayRestage(x, j) => MayRestage(committer[w], j)
      BY <1>1, <1>3, <2>7, <3>1, <3>2, <3>3, NextWalks DEF Walking
    <3> QED
      BY <2>11, <3>4
  <2>13. CASE old.error = "mismatch"
    <3>1. PICK x : x = [old EXCEPT !.pc = "cleanup"]
      OBVIOUS
    <3>2. committer' = [committer EXCEPT ![w] = x]
      <4>1. committer' = [committer EXCEPT ![w].pc = "cleanup"]
        BY <1>3, <1>4, <1>8, <2>13 DEF RecordFailed, CleansUp
      <4> QED
        BY <1>4, <3>1, <4>1, CommitTypes
    <3>3. x \in WalkerRecords /\ x.pc = "cleanup" /\ x.item = i
      BY <1>4, <1>5, <3>1 DEF WalkerRecords
    <3>4. ASSUME NEW j \in ItemSet, Passed(x, j) PROVE ledger'[j].result # "none"
      <4>1. CASE j = i
        BY <2>3, <2>5, <4>1
      <4>2. CASE j # i
        <5>1. Passed(committer[w], j)
          BY <1>1, <1>3, <3>3, <3>4, <4>2 DEF Passed, Walking
        <5> QED
          BY <2>7, <5>1, CommitTypes DEF WalkFits, LedgerMoves
      <4> QED
        BY <4>1, <4>2
    <3>5. WalkFits(x)'
      BY <3>3, <3>4
      DEF WalkFits, WalkerRecords, StagedVersions, Reasons, Restageable, ItemSet, Walking, Passed
    <3>6. ~MayFail(x, i)
      <4>1. ~(i < i)
        BY CommitTypes DEF ItemSet
      <4> QED
        BY <3>3, <4>1 DEF MayFail
    <3>7. ASSUME NEW j \in ItemSet
          PROVE  /\ MayFail(x, j) => MayFail(committer[w], j)
                 /\ MayRestage(x, j) => MayRestage(committer[w], j)
      BY <1>1, <1>3, <3>3 DEF MayFail, MayRestage, Walking
    <3> QED
      BY <2>11, <3>2, <3>5, <3>6, <3>7
  <2> QED
    BY <2>12, <2>13
<1> QED
  BY <1>7, <1>8

LEMMA LedgerInvInit ==
  ASSUME CommitInit
  PROVE  LedgerInv
<1>1. Items \in Nat \ {0} /\ MaxTasks \in Nat \ {0}
  BY CommitAssumption
<1>2. NoLedgerRow \in LedgerRows /\ NoLedgerRow.result = "none" /\ NoLedgerRow.gen = 0
  BY DEF NoLedgerRow, LedgerRows
<1>3. 1 \in StagedVersions /\ {1} \in SUBSET StagedVersions
  BY <1>1 DEF StagedVersions
<1>4. IdleCommitter \in WalkerRecords /\ IdleCommitter.pc = "idle"
  BY IdleWalker
<1>5. CommitTypeOK
  BY <1>1, <1>2, <1>3, <1>4 DEF CommitInit, CommitTypeOK, WalkerRecords
<1>6. CommittedExactlyOnce /\ CompletedMeansAll
  BY <1>2 DEF CommitInit, CommittedExactlyOnce, CompletedMeansAll
<1>7. ASSUME NEW w \in Committers PROVE WalkFits(committer[w])
  <2>1. committer[w] \in WalkerRecords /\ committer[w].pc = "idle"
    BY <1>4 DEF CommitInit
  <2> QED
    BY <2>1 DEF WalkFits, Walking, Passed
<1>8. ASSUME NEW i \in ItemSet PROVE ItemIsPaid(i)
  <2>1. Failers(i) = {} /\ Restagers(i) = {}
    BY <1>4 DEF CommitInit, Failers, Restagers, MayFail, MayRestage, Walking
  <2>2. IsFiniteSet({}) /\ Cardinality({}) = 0
    BY FS_EmptySet
  <2>3. ledger[i].gen = 0 /\ newest[i] = 1 /\ Delivered = 0
    BY <1>2 DEF CommitInit, Delivered
  <2> QED
    BY <2>1, <2>2, <2>3 DEF ItemIsPaid
<1> QED
  BY <1>5, <1>6, <1>7, <1>8 DEF LedgerInv

LEMMA LedgerInvStep ==
  ASSUME LedgerInv, [CommitNext]_commitVars
  PROVE  LedgerInv'
<1>1. CASE ResumeCommit \/ ReapStalledCommits
  <2>1. /\ UNCHANGED <<ledger, vaulted, locator, stored, newest, committer>> /\ Enqueue
        /\ runStatus' \in {runStatus, "Committing", "PartiallyCommitted"}
    BY <1>1 DEF ResumeCommit, ReapStalledCommits
  <2> QED
    BY <2>1, EnqueueKeeps, TasksMove
<1>2. CASE UNCHANGED commitVars
  <2>1. UNCHANGED <<runStatus, ledger, vaulted, locator, stored, newest, queued, enqueued, committer>>
    BY <1>2 DEF commitVars
  <2>2. Delivered' >= Delivered
    <3>1. PICK a \in Int : a = Delivered
      BY CommitTypes
    <3> QED
      BY <2>1, <3>1, TasksStay
  <2> QED
    BY <2>1, <2>2, TasksStay, TasksMove
<1> QED
  BY <1>1, <1>2, RunCommitStep, DeathStep, LoadStep, RestageStep, CommitItemStep, RaiseStep,
     RecordFailedStep, CleanupStep, TallyStep, FinalizeStep
  DEF CommitNext, CommitterStep

\* A step never takes back a success.
LEMMA SuccessKept ==
  ASSUME LedgerInv, CommitNext, NEW i \in ItemSet, ledger[i].result = "success"
  PROVE  ledger'[i] = ledger[i]
<1>1. CASE UNCHANGED ledger
  BY <1>1
<1>2. ASSUME NEW w \in Committers, CommitItem(w) PROVE ledger'[i] = ledger[i]
  BY <1>2, CommitTypes DEF CommitItem, ClaimWins
<1>3. ASSUME NEW w \in Committers, RecordFailed(w) PROVE ledger'[i] = ledger[i]
  BY <1>3, CommitTypes DEF RecordFailed, FailureWins
<1> QED
  BY <1>1, <1>2, <1>3
  DEF CommitNext, CommitterStep, ResumeCommit, ReapStalledCommits, RunCommit,
      CommitPreconditionsFail, LoadItem, RestageSource, ItemRaises, CleanupRejectedSource,
      TallyResults, FinalizeRun, CommitterDies

\* The ledger is the truth about the vault for any number of items, workers and deliveries:
\* an item is committed exactly once, Completed means all of them, no late failure takes a
\* success back, and neither failures nor stagings of an item outnumber the deliveries
\* (services/ingestion/commit.py).
THEOREM LedgerStaysTrue == CommitSpec => LedgerIsTrue
<1>1. LedgerInv => CommitTypeOK /\ CommittedExactlyOnce /\ CompletedMeansAll
  BY DEF LedgerInv
<1>2. LedgerInv /\ [CommitNext]_commitVars =>
        [\A i \in ItemSet : ledger[i].result = "success" => ledger'[i] = ledger[i]]_commitVars
  BY SuccessKept
<1> QED
  BY <1>1, <1>2, LedgerInvInit, LedgerInvStep, PTL DEF CommitSpec, LedgerIsTrue, SuccessIsFinal

(***************************************************************************)
(* The review: the groups of duplicates and versions, and the decisions.    *)
(***************************************************************************)
\* Every non-empty set of natural numbers has a least element.
LEMMA LeastNatural ==
  ASSUME NEW T, T \subseteq Nat, T # {}
  PROVE  \E x \in T : \A y \in T : x <= y
<1>1. PICK x \in T : \A y \in T : ~ (<<y, x>> \in OpToRel(<, Nat))
  BY WFMin, NatLessThanWellFounded, Zenon
<1>2. SUFFICES ASSUME NEW y \in T, y < x PROVE FALSE
  BY <1>2
<1>3. <<y, x>> \in Nat \X Nat
  OBVIOUS
<1>4. <<y, x>> \in OpToRel(<, Nat)
  BY <1>2, <1>3, Zenon DEF OpToRel
<1> QED
  BY <1>1, <1>4

\* The canonical pick of a group is its least file.
LEMMA CanonicalPick ==
  ASSUME NEW S, S \subseteq Files, S # {}
  PROVE  Min(S) \in S /\ \A y \in S : Min(S) <= y
<1>1. S \subseteq Nat
  BY ReviewAssumption DEF Files
<1>2. \E x \in S : \A y \in S : x <= y
  BY <1>1, LeastNatural
<1> QED
  BY <1>2, Zenon DEF Min

LEMMA TwoIsSome ==
  ASSUME NEW S, Cardinality(S) >= 2
  PROVE  S # {}
BY FS_EmptySet

\* A cluster that loses members replaces no file it did not replace before.
LEMMA SmallerGroupReplacesLess ==
  ASSUME NEW c, c \subseteq Files, NEW d, d \subseteq c, d # {}
  PROVE  d \ {Min(d)} \subseteq c \ {Min(c)}
<1>1. Min(d) \in d /\ \A y \in d : Min(d) <= y
  BY CanonicalPick
<1>2. Min(c) \in c /\ \A y \in c : Min(c) <= y
  BY CanonicalPick
<1>3. \A x \in c : x \in Nat
  BY ReviewAssumption DEF Files
<1>4. ASSUME NEW x \in d, x = Min(c) PROVE x = Min(d)
  BY <1>1, <1>2, <1>3, <1>4
<1> QED
  BY <1>4

\* Files with the same key form a class: two classes are equal or share no file.
LEMMA ClassesAreDisjoint ==
  ASSUME NEW S, NEW key
  PROVE  /\ \A c \in Classes(S, key) : c \subseteq S /\ c # {}
         /\ \A c, d \in Classes(S, key) : c \cap d # {} => c = d
<1>1. \A c \in Classes(S, key) : c # {}
  BY TwoIsSome DEF Classes
<1>2. \A c \in Classes(S, key) : \E f \in S : c = {g \in S : key[g] = key[f]}
  BY Zenon DEF Classes
<1>3. ASSUME NEW c \in Classes(S, key), NEW d \in Classes(S, key), NEW x \in c \cap d
      PROVE  c = d
  <2>1. PICK f \in S : c = {g \in S : key[g] = key[f]}
    BY <1>2
  <2>2. PICK e \in S : d = {g \in S : key[g] = key[e]}
    BY <1>2
  <2>3. key[x] = key[f] /\ key[x] = key[e]
    BY <1>3, <2>1, <2>2
  <2> QED
    BY <2>1, <2>2, <2>3
<1> QED
  BY <1>1, <1>2, <1>3

(* Groups are never empty; duplicates keep their first file, version families *)
(* share no file, and no duplicate that is replaced is a version.             *)
ClustersFit(cs) ==
  \A g \in cs : g.members # {} /\ g.members \subseteq Files /\ g.keep = Min(g.members)
FamiliesFit(cs, fs) ==
  /\ \A g \in fs : g.members \subseteq Files \ Replaced(cs) /\ g.keep \in g.members
  /\ \A g, h \in fs : g.members \cap h.members # {} => g = h
GroupsFit ==
  /\ ClustersFit(clusters) /\ FamiliesFit(clusters, families)
  /\ nodes = RebuildProposals(clusters, families)

\* Before a commit nothing is pinned or imported, and a pin is the owner chosen last.
PinsFit ==
  /\ review \in Reviewable => \A f \in Files : pinned[f] = 0 /\ imported[f] = 0
  /\ \A f \in Files : pinned[f] # 0 => pinned[f] = fold[f].owner

ReviewInv == ReviewTypeOK /\ GroupsFit /\ PinsFit /\ CommittedOwnerIsReviewed /\ NoChainIsDropped

LEMMA GroupFields ==
  ASSUME NEW c
  PROVE  Group(c).members = c /\ Group(c).keep = Min(c)
BY DEF Group

LEMMA GroupOfFilesFits ==
  ASSUME NEW cs, \A g \in cs : \E c : c # {} /\ c \subseteq Files /\ g = Group(c)
  PROVE  ClustersFit(cs)
BY GroupFields DEF ClustersFit

LEMMA ClustersHaveTypes ==
  ASSUME NEW cs, ClustersFit(cs)
  PROVE  \A g \in cs : g.members \subseteq Files /\ g.keep \in g.members
BY CanonicalPick DEF ClustersFit

\* Fewer replaced duplicates leave the version families as they fit.
LEMMA FamiliesFitFewerDuplicates ==
  ASSUME NEW cs, NEW ds, NEW fs, FamiliesFit(cs, fs), Replaced(ds) \subseteq Replaced(cs)
  PROVE  FamiliesFit(ds, fs)
BY Zenon DEF FamiliesFit

LEMMA ReviewInitInv == ReviewInit => ReviewInv
<1> SUFFICES ASSUME ReviewInit PROVE ReviewInv
  OBVIOUS
<1>1. PICK sha \in Partitions, near \in Partitions, sameName \in BOOLEAN :
        /\ clusters = ExactClusters(sha) \cup NearClusters(sha, near)
        /\ families = ComputedFamilies(clusters, docCode, sameName)
  BY Zenon DEF ReviewInit
<1>2. ClustersFit(clusters)
  <2>1. \A g \in ExactClusters(sha) : \E c : c # {} /\ c \subseteq Files /\ g = Group(c)
    BY ClassesAreDisjoint, Zenon DEF ExactClusters
  <2>2. ASSUME NEW g \in NearClusters(sha, near)
        PROVE  \E c : c # {} /\ c \subseteq Files /\ g = Group(c)
    <3>1. PICK c \in Classes(Files \ Replaced(ExactClusters(sha)), near) : g = Group(c)
      BY Zenon DEF NearClusters
    <3>2. c # {} /\ c \subseteq Files \ Replaced(ExactClusters(sha))
      BY <3>1, ClassesAreDisjoint
    <3> QED
      BY <3>1, <3>2
  <2> QED
    BY <1>1, <2>1, <2>2, GroupOfFilesFits
<1>3. FamiliesFit(clusters, families) /\ \A g \in families : ~g.chain
  <2> DEFINE T == {f \in Files \ Replaced(clusters) : docCode[f] # 0 \/ sameName}
  <2>1. \A g \in families : \E c \in Classes(T, docCode) :
           g = [members |-> c, keep |-> Min(c), chain |-> FALSE]
    BY <1>1, Zenon DEF ComputedFamilies
  <2>2. T \subseteq Files \ Replaced(clusters)
    OBVIOUS
  <2> HIDE DEF T
  <2>3. \A c \in Classes(T, docCode) : c \subseteq T /\ c # {}
    BY ClassesAreDisjoint
  <2>4. \A c, d \in Classes(T, docCode) : c \cap d # {} => c = d
    BY ClassesAreDisjoint
  <2>5. ASSUME NEW g \in families
        PROVE  /\ g.members \subseteq Files \ Replaced(clusters) /\ g.keep \in g.members
               /\ ~g.chain
    <3>1. PICK c \in Classes(T, docCode) :
             g = [members |-> c, keep |-> Min(c), chain |-> FALSE]
      BY <2>1
    <3>2. c \subseteq Files /\ c # {} /\ c \subseteq Files \ Replaced(clusters)
      BY <2>2, <2>3
    <3>3. Min(c) \in c
      BY <3>2, CanonicalPick
    <3> QED
      BY <3>1, <3>2, <3>3
  <2>6. ASSUME NEW g \in families, NEW h \in families, g.members \cap h.members # {}
        PROVE  g = h
    <3>1. PICK c \in Classes(T, docCode) :
             g = [members |-> c, keep |-> Min(c), chain |-> FALSE]
      BY <2>1
    <3>2. PICK d \in Classes(T, docCode) :
             h = [members |-> d, keep |-> Min(d), chain |-> FALSE]
      BY <2>1
    <3>3. c = d
      BY <2>4, <2>6, <3>1, <3>2
    <3> QED
      BY <3>1, <3>2, <3>3
  <2> QED
    BY <2>5, <2>6 DEF FamiliesFit
<1>4. GroupsFit
  BY <1>2, <1>3 DEF GroupsFit, ReviewInit
<1>5. ReviewTypeOK
  <2>1. \A g \in clusters : g.members \subseteq Files /\ g.keep \in g.members
    BY <1>2, ClustersHaveTypes
  <2>2. \A g \in families : g.members \subseteq Files /\ g.keep \in g.members
    BY <1>3 DEF FamiliesFit
  <2>3. nodes \subseteq Files
    BY DEF ReviewInit, RebuildProposals
  <2>4. requests \in 0..MaxRequests
    BY ReviewAssumption DEF ReviewInit
  <2> QED
    BY <2>1, <2>2, <2>3, <2>4 DEF ReviewTypeOK, ReviewInit, Undecided, Reviewable
<1>6. PinsFit /\ CommittedOwnerIsReviewed
  BY DEF ReviewInit, PinsFit, CommittedOwnerIsReviewed
<1>7. NoChainIsDropped
  BY <1>3 DEF NoChainIsDropped
<1> QED
  BY <1>4, <1>5, <1>6, <1>7 DEF ReviewInv

\* Groups may be replaced by groups that fit, while the run is under review.
LEMMA RegroupKeepsInv ==
  ASSUME ReviewInv, review \in Reviewable, NEW cs, NEW fs, Regroup(cs, fs),
         ClustersFit(cs), FamiliesFit(cs, fs)
  PROVE  ReviewInv'
<1>1. /\ clusters' = cs /\ families' = fs /\ nodes' = RebuildProposals(cs, fs)
      /\ docCode' = docCode /\ fold' = fold /\ active' = active
      /\ pinned' = pinned /\ imported' = imported
  BY DEF Regroup
<1>2. review' \in Reviewable
  BY DEF Regroup, EnterReview, Reviewable
<1>3. requests' \in 0..MaxRequests
  BY ReviewAssumption DEF Regroup, Request, ReviewInv, ReviewTypeOK
<1>4. GroupsFit'
  BY <1>1 DEF GroupsFit
<1>5. ReviewTypeOK'
  <2>1. \A g \in cs : g.members \subseteq Files /\ g.keep \in g.members
    BY ClustersHaveTypes
  <2>2. \A g \in fs : g.members \subseteq Files /\ g.keep \in g.members
    BY DEF FamiliesFit
  <2>3. nodes' \subseteq Files
    BY <1>1 DEF RebuildProposals
  <2> QED
    BY <1>1, <1>2, <1>3, <2>1, <2>2, <2>3 DEF ReviewInv, ReviewTypeOK
<1>6. PinsFit' /\ CommittedOwnerIsReviewed'
  BY <1>1 DEF ReviewInv, PinsFit, CommittedOwnerIsReviewed
<1>7. NoChainIsDropped'
  BY <1>2 DEF NoChainIsDropped, Reviewable
<1> QED
  BY <1>4, <1>5, <1>6, <1>7 DEF ReviewInv

\* The clusters a merge leaves fit, replace nothing new, and share no file with the family.
LEMMA MergedFilesLeaveClusters ==
  ASSUME ClustersFit(clusters), NEW members
  PROVE  /\ ClustersFit(ClustersWithout(members))
         /\ Replaced(ClustersWithout(members)) \subseteq Replaced(clusters)
         /\ members \cap Replaced(ClustersWithout(members)) = {}
<1> DEFINE cs == ClustersWithout(members)
<1>1. ASSUME NEW g \in cs
      PROVE  \/ g \in clusters /\ g.members \cap members = {}
             \/ \E d \in clusters : /\ d.members \ members # {}
                                    /\ g = Group(d.members \ members)
  <2>1. CASE g \in {c \in clusters : c.members \cap members = {}}
    BY <2>1
  <2>2. CASE g \in {Group(c.members \ members) : c \in {d \in clusters :
                      d.members \cap members # {} /\ Cardinality(d.members \ members) >= 2}}
    <3>1. PICK d \in clusters : /\ Cardinality(d.members \ members) >= 2
                                /\ g = Group(d.members \ members)
      BY <2>2
    <3> QED
      BY <3>1, TwoIsSome
  <2> QED
    BY <2>1, <2>2, Zenon DEF ClustersWithout
<1> HIDE DEF cs
<1>2. ASSUME NEW g \in cs
      PROVE  /\ g.members # {} /\ g.members \subseteq Files /\ g.keep = Min(g.members)
             /\ g.members \cap members = {}
             /\ \E d \in clusters : g.members \ {g.keep} \subseteq d.members \ {d.keep}
  <2>1. CASE g \in clusters /\ g.members \cap members = {}
    BY <2>1 DEF ClustersFit
  <2>2. ASSUME NEW d \in clusters, d.members \ members # {}, g = Group(d.members \ members)
        PROVE  /\ g.members # {} /\ g.members \subseteq Files /\ g.keep = Min(g.members)
               /\ g.members \cap members = {}
               /\ g.members \ {g.keep} \subseteq d.members \ {d.keep}
    <3>1. g.members = d.members \ members /\ g.keep = Min(d.members \ members)
      BY <2>2, GroupFields
    <3>2. d.members \subseteq Files /\ d.keep = Min(d.members)
      BY DEF ClustersFit
    <3>3. d.members \ members \subseteq d.members
      OBVIOUS
    <3>4. (d.members \ members) \ {Min(d.members \ members)}
            \subseteq d.members \ {Min(d.members)}
      BY <2>2, <3>2, <3>3, SmallerGroupReplacesLess
    <3> QED
      BY <2>2, <3>1, <3>2, <3>4
  <2> QED
    BY <1>1, <2>1, <2>2
<1>3. ClustersFit(cs)
  BY <1>2 DEF ClustersFit
<1>4. Replaced(cs) \subseteq Replaced(clusters)
  BY <1>2 DEF Replaced
<1>5. members \cap Replaced(cs) = {}
  BY <1>2 DEF Replaced
<1> QED
  BY <1>3, <1>4, <1>5 DEF cs

LEMMA MergeKeepsInv ==
  ASSUME ReviewInv, NEW S \in SUBSET Files, NEW effective \in Files \cup {0},
         NEW chain \in {{}, {TRUE}, {FALSE}}, MergeFiles(S, effective, chain)
  PROVE  ReviewInv'
<1> DEFINE touched == {g \in families : g.members \cap S # {}}
           members == S \cup UNION {g.members : g \in touched}
           keep == IF effective = 0 THEN Min(members) ELSE effective
           flag == IF chain = {} THEN \E g \in touched : g.chain ELSE TRUE \in chain
           new == [members |-> members, keep |-> keep, chain |-> flag]
           cs == ClustersWithout(members)
           fs == (families \ touched) \cup {new}
<1>1. /\ review \in Reviewable /\ Cardinality(S) >= 2 /\ effective \in members \cup {0}
      /\ Regroup(cs, fs)
  BY Zenon DEF MergeFiles
<1>2. ClustersFit(clusters) /\ FamiliesFit(clusters, families)
  BY DEF ReviewInv, GroupsFit
<1>3. S # {}
  BY <1>1, TwoIsSome
<1>4. members \subseteq Files /\ members # {}
  BY <1>2, <1>3 DEF FamiliesFit
<1>5. keep \in members
  <2> HIDE DEF members
  <2> QED
    BY <1>1, <1>4, CanonicalPick
<1>6. /\ ClustersFit(cs) /\ Replaced(cs) \subseteq Replaced(clusters)
      /\ members \cap Replaced(cs) = {}
  <2> HIDE DEF members
  <2> QED
    BY <1>2, MergedFilesLeaveClusters
<1>7. FamiliesFit(cs, families)
  BY <1>2, <1>6, FamiliesFitFewerDuplicates
<1>8. \A g \in families \ touched : g.members \cap members = {}
  <2>1. ASSUME NEW g \in families \ touched, NEW x \in g.members \cap members PROVE FALSE
    <3>1. x \notin S
      BY <2>1
    <3>2. PICK h \in touched : x \in h.members
      BY <2>1, <3>1
    <3>3. g \in families /\ h \in families /\ g.members \cap h.members # {}
      BY <2>1, <3>2
    <3>4. g = h
      BY <1>2, <3>3 DEF FamiliesFit
    <3> QED
      BY <2>1, <3>2, <3>4
  <2> QED
    BY <2>1
<1>9. new.members = members /\ new.keep = keep
  OBVIOUS
<1>10. FamiliesFit(cs, fs)
  <2> HIDE DEF members, keep, flag, new, touched, cs
  <2>1. \A g \in fs : g \in families \ touched \/ g = new
    OBVIOUS
  <2>2. \A g \in fs : g.members \subseteq Files \ Replaced(cs) /\ g.keep \in g.members
    BY <1>4, <1>5, <1>6, <1>7, <1>9, <2>1 DEF FamiliesFit
  <2>3. ASSUME NEW g \in fs, NEW h \in fs, g.members \cap h.members # {} PROVE g = h
    <3>1. CASE g = new
      BY <1>8, <1>9, <2>1, <2>3, <3>1
    <3>2. CASE h = new
      BY <1>8, <1>9, <2>1, <2>3, <3>2
    <3>3. CASE g \in families /\ h \in families
      BY <1>7, <2>3, <3>3 DEF FamiliesFit
    <3> QED
      BY <2>1, <3>1, <3>2, <3>3
  <2> QED
    BY <2>2, <2>3, Zenon DEF FamiliesFit
<1> HIDE DEF cs, fs
<1> QED
  BY <1>1, <1>6, <1>10, RegroupKeepsInv

LEMMA SplitClusterKeepsInv ==
  ASSUME ReviewInv, NEW c \in clusters, NEW separate \in SUBSET c.members,
         SplitDupeCluster(c, separate)
  PROVE  ReviewInv'
<1> DEFINE rest == c.members \ separate
           more == IF Cardinality(rest) < 2 THEN {} ELSE {Group(rest)}
           cs == (clusters \ {c}) \cup more
<1>1. review \in Reviewable /\ Regroup(cs, families)
  BY Zenon DEF SplitDupeCluster
<1>2. ClustersFit(clusters) /\ FamiliesFit(clusters, families)
  BY DEF ReviewInv, GroupsFit
<1>3. c.members \subseteq Files /\ c.keep = Min(c.members) /\ c.members # {}
  BY <1>2 DEF ClustersFit
<1>4. ASSUME NEW g \in more
      PROVE  /\ g.members # {} /\ g.members \subseteq Files /\ g.keep = Min(g.members)
             /\ g.members \ {g.keep} \subseteq c.members \ {c.keep}
  <2> HIDE DEF rest
  <2>1. g = Group(rest) /\ ~(Cardinality(rest) < 2)
    OBVIOUS
  <2>2. rest # {}
    <3>1. rest = {} => Cardinality(rest) = 0
      BY FS_EmptySet
    <3> QED
      BY <2>1, <3>1
  <2>3. rest \subseteq c.members
    BY DEF rest
  <2>4. rest \ {Min(rest)} \subseteq c.members \ {Min(c.members)}
    BY <1>3, <2>2, <2>3, SmallerGroupReplacesLess
  <2>5. g.members = rest /\ g.keep = Min(rest)
    BY <2>1, GroupFields
  <2> QED
    BY <1>3, <2>2, <2>3, <2>4, <2>5
<1> HIDE DEF more
<1>5. ClustersFit(cs)
  BY <1>2, <1>4 DEF ClustersFit
<1>6. Replaced(cs) \subseteq Replaced(clusters)
  BY <1>4 DEF Replaced
<1>7. FamiliesFit(cs, families)
  BY <1>2, <1>6, FamiliesFitFewerDuplicates
<1> HIDE DEF cs
<1> QED
  BY <1>1, <1>5, <1>7, RegroupKeepsInv

LEMMA SplitFamilyKeepsInv ==
  ASSUME ReviewInv, NEW g \in families, NEW separate \in SUBSET g.members,
         SplitVersionFamily(g, separate)
  PROVE  ReviewInv'
<1> DEFINE rest == g.members \ separate
           new == [members |-> rest, keep |-> KeptVersion(g, rest), chain |-> g.chain]
           more == IF Cardinality(rest) < 2 THEN {} ELSE {new}
           fs == (families \ {g}) \cup more
<1>1. review \in Reviewable /\ Regroup(clusters, fs)
  BY Zenon DEF SplitVersionFamily
<1>2. ClustersFit(clusters) /\ FamiliesFit(clusters, families)
  BY DEF ReviewInv, GroupsFit
<1>3. g.members \subseteq Files \ Replaced(clusters)
  BY <1>2 DEF FamiliesFit
<1>4. ASSUME NEW h \in more
      PROVE  /\ h.members \subseteq g.members
             /\ h.members \subseteq Files \ Replaced(clusters) /\ h.keep \in h.members
  <2>1. rest \subseteq g.members
    OBVIOUS
  <2> HIDE DEF rest
  <2>2. h = new /\ ~(Cardinality(rest) < 2)
    OBVIOUS
  <2>3. rest # {}
    <3>1. rest = {} => Cardinality(rest) = 0
      BY FS_EmptySet
    <3> QED
      BY <2>2, <3>1
  <2>4. KeptVersion(g, rest) \in rest
    BY <1>3, <2>1, <2>3, CanonicalPick DEF KeptVersion
  <2>5. h.members = rest /\ h.keep = KeptVersion(g, rest)
    BY <2>2
  <2> QED
    BY <1>3, <2>1, <2>4, <2>5
<1>5. \A h, k \in more : h = k
  OBVIOUS
<1> HIDE DEF more
<1>6. FamiliesFit(clusters, fs)
  <2>1. \A h \in fs : h.members \subseteq Files \ Replaced(clusters) /\ h.keep \in h.members
    BY <1>2, <1>4 DEF FamiliesFit
  <2>2. ASSUME NEW h \in fs, NEW k \in fs, h.members \cap k.members # {} PROVE h = k
    <3>1. CASE h \in more /\ k \in more
      BY <1>5, <3>1
    <3>2. CASE h \in families \ {g} /\ k \in more
      <4>1. h.members \cap g.members # {}
        BY <1>4, <2>2, <3>2
      <4> QED
        BY <1>2, <3>2, <4>1 DEF FamiliesFit
    <3>3. CASE h \in more /\ k \in families \ {g}
      <4>1. k.members \cap g.members # {}
        BY <1>4, <2>2, <3>3
      <4> QED
        BY <1>2, <3>3, <4>1 DEF FamiliesFit
    <3>4. CASE h \in families /\ k \in families
      BY <1>2, <2>2, <3>4 DEF FamiliesFit
    <3> QED
      BY <3>1, <3>2, <3>3, <3>4
  <2> QED
    BY <2>1, <2>2, Zenon DEF FamiliesFit
<1> HIDE DEF fs
<1> QED
  BY <1>1, <1>2, <1>6, RegroupKeepsInv

Payload == [kind : BOOLEAN, code : Codes \cup {0}, owner : Owners \cup {0}]
Decision == [disposition : {"undecided", "included", "excluded", "deferred"},
             kind : BOOLEAN, code : Codes \cup {0}, owner : Owners \cup {0}]

LEMMA ActionsOfReview == DOMAIN Dispositions = {"accept", "correct", "exclude", "defer"}
BY DEF Dispositions

LEMMA PayloadTypes ==
  ASSUME NEW action \in DOMAIN Dispositions, NEW p \in Payloads(action)
  PROVE  p.kind \in BOOLEAN /\ p.code \in Codes \cup {0} /\ p.owner \in Owners \cup {0}
<1> DEFINE blank == [kind |-> FALSE, code |-> 0, owner |-> 0]
           some == [kind : BOOLEAN, code : {0}, owner : Owners \cup {0}]
                   \cup [kind : {FALSE}, code : Codes, owner : {0}]
<1>1. Payloads(action) \subseteq some \cup {blank}
  BY ActionsOfReview DEF Payloads
<1>2. blank.kind \in BOOLEAN /\ blank.code \in Codes \cup {0} /\ blank.owner \in Owners \cup {0}
  OBVIOUS
<1>3. \A q \in some :
         q.kind \in BOOLEAN /\ q.code \in Codes \cup {0} /\ q.owner \in Owners \cup {0}
  OBVIOUS
<1> HIDE DEF some, blank
<1> QED
  BY <1>1, <1>2, <1>3

LEMMA FoldedTypes ==
  ASSUME NEW state \in Decision,
         NEW action \in DOMAIN Dispositions, NEW p \in Payloads(action)
  PROVE  /\ Folded(state, action, p) \in Decision
         /\ Folded(state, action, p).owner = IF p.owner # 0 THEN p.owner ELSE state.owner
<1>1. Dispositions[action] \in {"undecided", "included", "excluded", "deferred"}
  BY ActionsOfReview DEF Dispositions
<1>2. p.kind \in BOOLEAN /\ p.code \in Codes \cup {0} /\ p.owner \in Owners \cup {0}
  BY PayloadTypes
<1>3. /\ state.kind \in BOOLEAN /\ state.code \in Codes \cup {0}
      /\ state.owner \in Owners \cup {0}
  BY DEF Decision
<1>4. (state.kind \/ p.kind) \in BOOLEAN
  OBVIOUS
<1>5. PICK k \in BOOLEAN : k = (state.kind \/ p.kind)
  BY <1>4
<1>6. Folded(state, action, p) =
        [disposition |-> Dispositions[action], kind |-> k,
         code |-> IF p.code # 0 THEN p.code ELSE state.code,
         owner |-> IF p.owner # 0 THEN p.owner ELSE state.owner]
  BY <1>5, Zenon DEF Folded
<1> QED
  BY <1>1, <1>2, <1>3, <1>6 DEF Decision

LEMMA RequestType ==
  ASSUME ReviewTypeOK, Request
  PROVE  requests' \in 0..MaxRequests
BY ReviewAssumption DEF Request, ReviewTypeOK

LEMMA ReviewSteps ==
  ASSUME ReviewTypeOK, EnterReview
  PROVE  /\ review' \in Reviewable \cup {"Committing", "PartiallyCommitted", "Completed"}
         /\ review' \in Reviewable <=> review \in Reviewable
         /\ review \notin Reviewable => review' = review
BY DEF ReviewTypeOK, EnterReview, Reviewable

LEMMA DecisionKeepsInv ==
  ASSUME ReviewInv, NEW f \in Files, NEW action \in DOMAIN Dispositions,
         NEW p \in Payloads(action), RecordFileDecision(f, action, p)
  PROVE  ReviewInv'
<1>1. ReviewTypeOK /\ fold \in [Files -> Decision]
  BY DEF ReviewInv, ReviewTypeOK, Decision
<1>2. /\ DecisionWritable(f, action) /\ Request /\ EnterReview
      /\ fold' = [fold EXCEPT ![f] = Folded(fold[f], action, p)]
      /\ pinned' = PinAfterCorrection(f, p)
      /\ UNCHANGED <<docCode, clusters, families, nodes, active, imported>>
  BY DEF RecordFileDecision
<1>3. p.owner \in Owners \cup {0}
  BY PayloadTypes
<1>4. /\ Folded(fold[f], action, p) \in Decision
      /\ Folded(fold[f], action, p).owner = IF p.owner # 0 THEN p.owner ELSE fold[f].owner
  BY <1>1, FoldedTypes
<1>5. /\ fold' \in [Files -> Decision]
      /\ \A g \in Files : g # f => fold'[g] = fold[g]
      /\ fold'[f].owner = IF p.owner # 0 THEN p.owner ELSE fold[f].owner
  BY <1>1, <1>2, <1>4
<1>6. /\ pinned' \in [Files -> Owners \cup {0}]
      /\ \A g \in Files : pinned'[g] \in {pinned[g], 0}
      /\ review = "PartiallyCommitted" /\ p.owner # 0 => pinned'[f] = 0
  BY <1>1, <1>2 DEF PinAfterCorrection, ReviewTypeOK
<1>7. ReviewTypeOK'
  <2>1. requests' \in 0..MaxRequests
    BY <1>1, <1>2, RequestType
  <2>2. review' \in Reviewable \cup {"Committing", "PartiallyCommitted", "Completed"}
    BY <1>1, <1>2, ReviewSteps
  <2> QED
    BY <1>1, <1>2, <1>5, <1>6, <2>1, <2>2 DEF ReviewTypeOK, Decision
<1>8. review \in Reviewable \/ (review = "PartiallyCommitted" /\ imported[f] = 0)
  BY <1>2 DEF DecisionWritable
<1>9. PinsFit'
  BY <1>1, <1>2, <1>5, <1>6, <1>8, ReviewSteps DEF ReviewInv, PinsFit
<1>10. CommittedOwnerIsReviewed'
  BY <1>2, <1>5, <1>8 DEF ReviewInv, PinsFit, CommittedOwnerIsReviewed
<1>11. GroupsFit'
  BY <1>2 DEF ReviewInv, GroupsFit
<1>12. NoChainIsDropped'
  BY <1>1, <1>2, ReviewSteps DEF ReviewInv, NoChainIsDropped, Reviewable
<1> QED
  BY <1>7, <1>9, <1>10, <1>11, <1>12 DEF ReviewInv

LEMMA BulkKeepsInv ==
  ASSUME ReviewInv, NEW S \in SUBSET Files, NEW selector \in BOOLEAN,
         NEW action \in DOMAIN Dispositions, NEW p \in Payloads(action),
         RecordBulkDecisions(S, selector, action, p)
  PROVE  ReviewInv'
<1>1. ReviewTypeOK /\ fold \in [Files -> Decision]
  BY DEF ReviewInv, ReviewTypeOK, Decision
<1>2. PICK targets :
        /\ review \in Reviewable /\ Request /\ EnterReview
        /\ fold' = [f \in Files |-> IF f \in targets THEN Folded(fold[f], action, p) ELSE fold[f]]
        /\ UNCHANGED <<docCode, clusters, families, nodes, active, pinned, imported>>
  BY Zenon DEF RecordBulkDecisions
<1>3. \A f \in Files : Folded(fold[f], action, p) \in Decision
  BY <1>1, FoldedTypes
<1>4. fold' \in [Files -> Decision]
  BY <1>1, <1>2, <1>3
<1>5. review' \in Reviewable
  BY <1>1, <1>2, ReviewSteps
<1>6. ReviewTypeOK'
  BY <1>1, <1>2, <1>4, <1>5, RequestType DEF ReviewTypeOK, Decision
<1>7. PinsFit' /\ CommittedOwnerIsReviewed'
  BY <1>2 DEF ReviewInv, PinsFit, CommittedOwnerIsReviewed
<1>8. GroupsFit'
  BY <1>2 DEF ReviewInv, GroupsFit
<1>9. NoChainIsDropped'
  BY <1>5 DEF NoChainIsDropped, Reviewable
<1> QED
  BY <1>6, <1>7, <1>8, <1>9 DEF ReviewInv

\* A pin is taken from the owner chosen last, and never replaced.
LEMMA PinsAreTaken ==
  ASSUME ReviewInv, PrepareCommitInputs
  PROVE  /\ pinned' \in [Files -> Owners \cup {0}]
         /\ \A f \in Files : pinned'[f] # 0 => pinned'[f] = fold[f].owner
<1>1. \A f \in Files : fold[f].owner \in Owners \cup {0} /\ pinned[f] \in Owners \cup {0}
  BY DEF ReviewInv, ReviewTypeOK
<1>2. PICK chosen :
        pinned' = [f \in Files |-> IF f \in chosen /\ pinned[f] = 0
                                  THEN fold[f].owner ELSE pinned[f]]
  BY Zenon DEF PrepareCommitInputs
<1> QED
  BY <1>1, <1>2 DEF ReviewInv, PinsFit

LEMMA CommitStartKeepsInv ==
  ASSUME ReviewInv, StartImportCommit \/ ResumeImportCommit
  PROVE  ReviewInv'
<1>1. /\ PrepareCommitInputs /\ review' = "Committing"
      /\ UNCHANGED <<docCode, clusters, families, nodes, fold, active, imported, requests>>
      /\ NoDeferredChain \/ review = "PartiallyCommitted"
  BY DEF StartImportCommit, ResumeImportCommit
<1>2. /\ pinned' \in [Files -> Owners \cup {0}]
      /\ \A f \in Files : pinned'[f] # 0 => pinned'[f] = fold[f].owner
  BY <1>1, PinsAreTaken
<1>3. ReviewTypeOK'
  BY <1>1, <1>2 DEF ReviewInv, ReviewTypeOK
<1>4. PinsFit'
  BY <1>1, <1>2 DEF PinsFit, Reviewable
<1>5. CommittedOwnerIsReviewed'
  BY <1>1 DEF ReviewInv, CommittedOwnerIsReviewed
<1>6. GroupsFit'
  BY <1>1 DEF ReviewInv, GroupsFit
<1>7. NoChainIsDropped'
  BY <1>1 DEF ReviewInv, NoChainIsDropped, NoDeferredChain
<1> QED
  BY <1>3, <1>4, <1>5, <1>6, <1>7 DEF ReviewInv

LEMMA CommitKeepsInv ==
  ASSUME ReviewInv, NEW S \in SUBSET Remaining, CommitItems(S)
  PROVE  ReviewInv'
<1>1. /\ review = "Committing" /\ review' \in {"Completed", "PartiallyCommitted"}
      /\ imported' = [f \in Files |-> IF f \in S THEN ResolvedOwner(f) ELSE imported[f]]
      /\ UNCHANGED <<docCode, clusters, families, nodes, fold, active, pinned, requests>>
  BY DEF CommitItems
<1>2. \A f \in Files : fold[f].owner \in Owners \cup {0} /\ pinned[f] \in Owners \cup {0}
  BY DEF ReviewInv, ReviewTypeOK
<1>3. \A f \in Files : ResolvedOwner(f) = 99 \/ ResolvedOwner(f) = fold[f].owner
  BY DEF ResolvedOwner, ReviewInv, PinsFit
<1>4. imported' \in [Files -> Owners \cup {0, 99}]
  BY <1>1, <1>2, <1>3 DEF ReviewInv, ReviewTypeOK
<1>5. ReviewTypeOK'
  BY <1>1, <1>4 DEF ReviewInv, ReviewTypeOK
<1>6. PinsFit'
  BY <1>1 DEF ReviewInv, PinsFit, Reviewable
<1>7. CommittedOwnerIsReviewed'
  BY <1>1, <1>3 DEF ReviewInv, CommittedOwnerIsReviewed
<1>8. GroupsFit'
  BY <1>1 DEF ReviewInv, GroupsFit
<1>9. NoChainIsDropped'
  BY <1>1 DEF ReviewInv, NoChainIsDropped
<1> QED
  BY <1>5, <1>6, <1>7, <1>8, <1>9 DEF ReviewInv

LEMMA DisableKeepsInv ==
  ASSUME ReviewInv, NEW u \in Owners, DisableUser(u)
  PROVE  ReviewInv'
<1>1. /\ active' \subseteq active /\ Request
      /\ UNCHANGED <<review, docCode, clusters, families, nodes, fold, pinned, imported>>
  BY DEF DisableUser
<1>2. ReviewTypeOK'
  BY <1>1, RequestType DEF ReviewInv, ReviewTypeOK
<1>3. GroupsFit' /\ PinsFit'
  BY <1>1 DEF ReviewInv, GroupsFit, PinsFit
<1>4. CommittedOwnerIsReviewed' /\ NoChainIsDropped'
  BY <1>1 DEF ReviewInv, CommittedOwnerIsReviewed, NoChainIsDropped
<1> QED
  BY <1>2, <1>3, <1>4 DEF ReviewInv

LEMMA ReviewStepKeepsInv == ReviewInv /\ [ReviewNext]_reviewVars => ReviewInv'
<1> SUFFICES ASSUME ReviewInv, [ReviewNext]_reviewVars PROVE ReviewInv'
  OBVIOUS
<1>1. CASE \E f \in Files, action \in DOMAIN Dispositions : \E p \in Payloads(action) :
             RecordFileDecision(f, action, p)
  BY <1>1, DecisionKeepsInv
<1>2. CASE \E S \in SUBSET Files, selector \in BOOLEAN, action \in DOMAIN Dispositions :
           \E p \in Payloads(action) : RecordBulkDecisions(S, selector, action, p)
  BY <1>2, BulkKeepsInv
<1>3. CASE \E S \in SUBSET Files, effective \in Files \cup {0}, chain \in {{}, {TRUE}, {FALSE}} :
             MergeFiles(S, effective, chain)
  BY <1>3, MergeKeepsInv
<1>4. CASE \E c \in clusters : \E separate \in SUBSET c.members : SplitDupeCluster(c, separate)
  BY <1>4, SplitClusterKeepsInv
<1>5. CASE \E g \in families : \E separate \in SUBSET g.members : SplitVersionFamily(g, separate)
  BY <1>5, SplitFamilyKeepsInv
<1>6. CASE StartImportCommit \/ ResumeImportCommit
  BY <1>6, CommitStartKeepsInv
<1>7. CASE \E S \in SUBSET Remaining : CommitItems(S)
  BY <1>7, CommitKeepsInv
<1>8. CASE \E u \in Owners : DisableUser(u)
  BY <1>8, DisableKeepsInv
<1>9. CASE UNCHANGED reviewVars
  BY <1>9 DEF reviewVars, ReviewInv, ReviewTypeOK, GroupsFit, PinsFit, CommittedOwnerIsReviewed,
              NoChainIsDropped
<1> QED
  BY <1>1, <1>2, <1>3, <1>4, <1>5, <1>6, <1>7, <1>8, <1>9 DEF ReviewNext

(* Represented is defined by recursion on the length of a chain of groups, so  *)
(* that it has the values its definition names is shown first.                *)
Grown(reached) == reached \cup {f \in Files : ReplacedBy(f) \cap reached # {}}
GrowsTo(g, m) == g = [n \in 0..m |-> IF n = 0 THEN nodes ELSE Grown(g[n - 1])]

LEMMA GrowthExists == \A m \in Nat : \E g : GrowsTo(g, m)
<1> DEFINE T == {m \in Nat : ~ \E g : GrowsTo(g, m)}
<1>1. SUFFICES ASSUME T # {} PROVE FALSE
  OBVIOUS
<1>2. PICK m \in T : \A k \in T : m <= k
  <2>1. T \subseteq Nat
    OBVIOUS
  <2> HIDE DEF T
  <2> QED
    BY <1>1, <2>1, LeastNatural
<1>3. m \in Nat /\ ~ \E g : GrowsTo(g, m)
  BY <1>2
<1>4. CASE m = 0
  <2> DEFINE h == [n \in 0..m |-> nodes]
  <2>1. h = [n \in 0..m |-> IF n = 0 THEN nodes ELSE Grown(h[n - 1])]
    BY <1>4
  <2> HIDE DEF h
  <2> QED
    BY <1>3, <2>1 DEF GrowsTo
<1>5. CASE m # 0
  <2>1. m - 1 \in Nat /\ ~(m <= m - 1)
    BY <1>3, <1>5
  <2>2. PICK g : GrowsTo(g, m - 1)
    BY <1>2, <2>1
  <2> DEFINE h == [n \in 0..m |-> IF n = m THEN Grown(g[m - 1]) ELSE g[n]]
  <2>3. ASSUME NEW n \in 0..m
        PROVE  h[n] = IF n = 0 THEN nodes ELSE Grown(h[n - 1])
    <3>1. CASE n = m
      <4>1. n - 1 \in 0..m /\ n - 1 # m /\ n # 0
        BY <1>3, <1>5, <3>1
      <4> QED
        BY <3>1, <4>1
    <3>2. CASE n # m
      <4>1. n \in 0..(m - 1)
        BY <1>3, <1>5, <3>2
      <4>2. g[n] = IF n = 0 THEN nodes ELSE Grown(g[n - 1])
        BY <2>2, <4>1 DEF GrowsTo
      <4>3. n # 0 => n - 1 \in 0..m /\ n - 1 # m
        BY <1>3, <4>1
      <4> QED
        BY <3>2, <4>2, <4>3
    <3> QED
      BY <3>1, <3>2
  <2>4. h = [n \in 0..m |-> h[n]]
    OBVIOUS
  <2> HIDE DEF h
  <2>5. [n \in 0..m |-> h[n]] = [n \in 0..m |-> IF n = 0 THEN nodes ELSE Grown(h[n - 1])]
    BY <2>3
  <2>6. GrowsTo(h, m)
    BY <2>4, <2>5 DEF GrowsTo
  <2> QED
    BY <1>3, <2>6
<1> QED
  BY <1>4, <1>5

LEMMA RepresentedGrows ==
  /\ Represented[0] = nodes
  /\ \A n \in 1..NFiles : Represented[n] = Grown(Represented[n - 1])
<1>1. NFiles \in Nat
  BY ReviewAssumption
<1>2. \E g : GrowsTo(g, NFiles)
  BY <1>1, GrowthExists
<1>3. Represented = CHOOSE g : GrowsTo(g, NFiles)
  BY DEF Represented, GrowsTo, Grown
<1>4. GrowsTo(Represented, NFiles)
  BY <1>2, <1>3, Zenon
<1>5. Represented = [n \in 0..NFiles |-> IF n = 0 THEN nodes ELSE Grown(Represented[n - 1])]
  BY <1>4 DEF GrowsTo
<1> HIDE DEF Represented
<1>6. 0 \in 0..NFiles /\ \A n \in 1..NFiles : n \in 0..NFiles /\ n # 0
  BY <1>1
<1> QED
  BY <1>5, <1>6

\* A file that a duplicate or a version replaces leads, through its groups, to a node: the file
\* a cluster keeps comes before those it replaces, and the one a family keeps is a node.
LEMMA GroupsLeadToNodes ==
  ASSUME ReviewInv, NEW f \in Files, f \notin nodes
  PROVE  \E k \in ReplacedBy(f) : k \in nodes \/ (k \in Files /\ k < f)
<1>1. ClustersFit(clusters) /\ FamiliesFit(clusters, families)
  BY DEF ReviewInv, GroupsFit
<1>2. f \in Replaced(clusters) \cup Replaced(families)
  BY DEF ReviewInv, GroupsFit, RebuildProposals
<1>3. CASE f \in Replaced(clusters)
  <2>1. PICK g \in clusters : f \in g.members /\ f # g.keep
    BY <1>3 DEF Replaced
  <2>2. g.members # {} /\ g.members \subseteq Files /\ g.keep = Min(g.members)
    BY <1>1 DEF ClustersFit
  <2>3. g.keep \in Files /\ g.keep <= f
    BY <2>1, <2>2, CanonicalPick
  <2>4. g.keep < f
    BY <2>1, <2>3, ReviewAssumption DEF Files
  <2>5. g.keep \in ReplacedBy(f)
    BY <2>1 DEF ReplacedBy
  <2> QED
    BY <2>3, <2>4, <2>5
<1>4. CASE f \in Replaced(families)
  <2>1. PICK g \in families : f \in g.members /\ f # g.keep
    BY <1>4 DEF Replaced
  <2>2. g.keep \in Files \ Replaced(clusters) /\ g.keep \in g.members
    BY <1>1 DEF FamiliesFit
  <2>3. ASSUME NEW h \in families, g.keep \in h.members, g.keep # h.keep PROVE FALSE
    <3>1. g = h
      BY <1>1, <2>2, <2>3 DEF FamiliesFit
    <3> QED
      BY <2>3, <3>1
  <2>4. g.keep \notin Replaced(families)
    BY <2>3 DEF Replaced
  <2>5. g.keep \in nodes
    BY <2>2, <2>4 DEF ReviewInv, GroupsFit, RebuildProposals
  <2>6. g.keep \in ReplacedBy(f)
    BY <2>1 DEF ReplacedBy
  <2> QED
    BY <2>5, <2>6
<1> QED
  BY <1>2, <1>3, <1>4

LEMMA ChainsOnlyGrow ==
  ASSUME NEW k \in 0..NFiles, NEW x \in Represented[k]
  PROVE  \A n \in k..NFiles : x \in Represented[n]
<1> DEFINE T == {n \in k..NFiles : x \notin Represented[n]}
<1>1. NFiles \in Nat /\ k \in Nat /\ T \subseteq Nat
  BY ReviewAssumption
<1>2. SUFFICES ASSUME T # {} PROVE FALSE
  OBVIOUS
<1>3. PICK n \in T : \A j \in T : n <= j
  <2> HIDE DEF T
  <2> QED
    BY <1>1, <1>2, LeastNatural
<1>4. n \in k..NFiles /\ x \notin Represented[n] /\ n # k
  BY <1>3
<1>5. n - 1 \in k..NFiles /\ n \in 1..NFiles /\ ~(n <= n - 1)
  BY <1>1, <1>4
<1>6. x \in Represented[n - 1]
  BY <1>3, <1>5
<1> QED
  BY <1>4, <1>5, <1>6, RepresentedGrows DEF Grown

LEMMA InvImpliesRepresented == ReviewInv => EveryFileRepresented
<1> SUFFICES ASSUME ReviewInv PROVE EveryFileRepresented
  OBVIOUS
<1>0. NFiles \in Nat /\ Files \subseteq Nat /\ \A f \in Files : f \in 1..NFiles
  BY ReviewAssumption DEF Files
<1>1. ASSUME NEW x \in nodes, NEW n \in 0..NFiles PROVE x \in Represented[n]
  BY <1>0, RepresentedGrows, ChainsOnlyGrow
<1>2. \A f \in Files : f \in Represented[f]
  <2> DEFINE T == {f \in Files : f \notin Represented[f]}
  <2>1. SUFFICES ASSUME T # {} PROVE FALSE
    OBVIOUS
  <2>2. PICK f \in T : \A k \in T : f <= k
    <3>1. T \subseteq Nat
      BY <1>0
    <3> HIDE DEF T
    <3> QED
      BY <2>1, <3>1, LeastNatural
  <2>3. f \in Files /\ f \notin Represented[f] /\ f \in 1..NFiles
    BY <1>0, <2>2
  <2>4. f \notin nodes
    BY <1>0, <1>1, <2>3
  <2>5. PICK k \in ReplacedBy(f) : k \in nodes \/ (k \in Files /\ k < f)
    BY <2>3, <2>4, GroupsLeadToNodes
  <2>6. f - 1 \in 0..NFiles
    BY <1>0, <2>3
  <2>7. k \in Represented[f - 1]
    <3>1. CASE k \in nodes
      BY <1>1, <2>6, <3>1
    <3>2. CASE k \in Files /\ k < f
      <4>1. k \in 0..NFiles /\ f - 1 \in k..NFiles /\ ~(f <= k)
        BY <1>0, <2>3, <3>2
      <4>2. k \in Represented[k]
        BY <2>2, <3>2, <4>1
      <4> QED
        BY <4>1, <4>2, ChainsOnlyGrow
    <3> QED
      BY <2>5, <3>1, <3>2
  <2> QED
    BY <2>3, <2>5, <2>7, RepresentedGrows DEF Grown
<1>3. Files \subseteq Represented[NFiles]
  <2>1. ASSUME NEW f \in Files PROVE f \in Represented[NFiles]
    <3>1. f \in 0..NFiles /\ NFiles \in f..NFiles
      BY <1>0
    <3> QED
      BY <1>2, <3>1, ChainsOnlyGrow
  <2> QED
    BY <2>1
<1>4. Represented[NFiles] \subseteq Files
  <2> DEFINE T == {n \in 0..NFiles : ~(Represented[n] \subseteq Files)}
  <2>1. SUFFICES ASSUME T # {} PROVE FALSE
    BY <1>0
  <2>2. PICK n \in T : \A j \in T : n <= j
    <3>1. T \subseteq Nat
      BY <1>0
    <3> HIDE DEF T
    <3> QED
      BY <2>1, <3>1, LeastNatural
  <2>3. nodes \subseteq Files
    BY DEF ReviewInv, ReviewTypeOK
  <2>4. n \in 1..NFiles /\ n - 1 \in 0..NFiles /\ ~(n <= n - 1)
    <3>1. n \in 0..NFiles /\ ~(Represented[n] \subseteq Files)
      BY <2>2
    <3>2. n # 0
      BY <2>3, <3>1, RepresentedGrows
    <3> QED
      BY <1>0, <3>1, <3>2
  <2>5. Represented[n - 1] \subseteq Files
    BY <2>2, <2>4
  <2>6. Represented[n] \subseteq Files
    BY <2>4, <2>5, RepresentedGrows DEF Grown
  <2> QED
    BY <2>2, <2>6
<1> QED
  BY <1>3, <1>4 DEF EveryFileRepresented

\* What the two action properties say of one step.
KeptStays ==
  \A g \in families, h \in families' :
     h.members \subseteq g.members /\ g.keep \in h.members
       => h.keep = g.keep \/ h.members = g.members

FrozenStays ==
  \A f \in Files : imported[f] # 0 => fold'[f] = fold[f] /\ imported'[f] = imported[f]

\* Families that stay keep what they kept.
LEMMA StayingFamilies ==
  ASSUME ReviewInv, NEW g \in families, NEW h \in families, g.keep \in h.members
  PROVE  h.keep = g.keep
<1>1. g.keep \in g.members
  BY DEF ReviewInv, ReviewTypeOK
<1>2. g = h
  BY <1>1 DEF ReviewInv, GroupsFit, FamiliesFit
<1> QED
  BY <1>2

LEMMA MergeKeepsVersions ==
  ASSUME ReviewInv, NEW S \in SUBSET Files, NEW effective \in Files \cup {0},
         NEW chain \in {{}, {TRUE}, {FALSE}}, MergeFiles(S, effective, chain)
  PROVE  KeptStays
<1> DEFINE touched == {g \in families : g.members \cap S # {}}
           members == S \cup UNION {g.members : g \in touched}
<1>1. PICK keep, flag :
        /\ Cardinality(S) >= 2
        /\ families' = (families \ touched) \cup
                         {[members |-> members, keep |-> keep, chain |-> flag]}
  BY Zenon DEF MergeFiles, Regroup
<1>2. S # {}
  BY <1>1, TwoIsSome
<1>3. ASSUME NEW g \in families, NEW h \in families',
             h.members \subseteq g.members, g.keep \in h.members
      PROVE  h.keep = g.keep \/ h.members = g.members
  <2>1. CASE h \in families
    BY <1>3, <2>1, StayingFamilies
  <2>2. CASE h.members = members
    <3>1. g \in touched
      BY <1>2, <1>3, <2>2
    <3>2. g.members \subseteq members
      BY <3>1
    <3> QED
      BY <1>3, <2>2, <3>2
  <2> HIDE DEF members
  <2> QED
    BY <1>1, <2>1, <2>2
<1> QED
  BY <1>3 DEF KeptStays

LEMMA SplitKeepsVersions ==
  ASSUME ReviewInv, NEW k \in families, NEW separate \in SUBSET k.members,
         SplitVersionFamily(k, separate)
  PROVE  KeptStays
<1> DEFINE rest == k.members \ separate
           new == [members |-> rest, keep |-> KeptVersion(k, rest), chain |-> k.chain]
<1>1. families' \subseteq families \cup {new}
  BY DEF SplitVersionFamily, Regroup
<1>2. ASSUME NEW g \in families, NEW h \in families',
             h.members \subseteq g.members, g.keep \in h.members
      PROVE  h.keep = g.keep \/ h.members = g.members
  <2>1. CASE h \in families
    BY <1>2, <2>1, StayingFamilies
  <2>2. CASE h = new
    <3>1. g.keep \in g.members
      BY DEF ReviewInv, ReviewTypeOK
    <3>2. g.keep \in rest /\ h.keep = KeptVersion(k, rest)
      BY <1>2, <2>2
    <3>3. g = k
      BY <3>1, <3>2 DEF ReviewInv, GroupsFit, FamiliesFit
    <3> QED
      BY <3>2, <3>3 DEF KeptVersion
  <2> QED
    BY <1>1, <2>1, <2>2
<1> QED
  BY <1>2 DEF KeptStays

LEMMA StepHonoursVersions == ReviewInv /\ [ReviewNext]_reviewVars => KeptStays
<1> SUFFICES ASSUME ReviewInv, [ReviewNext]_reviewVars PROVE KeptStays
  OBVIOUS
<1>1. families' = families => KeptStays
  BY StayingFamilies DEF KeptStays
<1>2. CASE \E f \in Files, action \in DOMAIN Dispositions : \E p \in Payloads(action) :
             RecordFileDecision(f, action, p)
  BY <1>1, <1>2 DEF RecordFileDecision
<1>3. CASE \E S \in SUBSET Files, selector \in BOOLEAN, action \in DOMAIN Dispositions :
           \E p \in Payloads(action) : RecordBulkDecisions(S, selector, action, p)
  BY <1>1, <1>3 DEF RecordBulkDecisions
<1>4. CASE \E S \in SUBSET Files, effective \in Files \cup {0}, chain \in {{}, {TRUE}, {FALSE}} :
             MergeFiles(S, effective, chain)
  BY <1>4, MergeKeepsVersions
<1>5. CASE \E c \in clusters : \E separate \in SUBSET c.members : SplitDupeCluster(c, separate)
  BY <1>1, <1>5 DEF SplitDupeCluster, Regroup
<1>6. CASE \E g \in families : \E separate \in SUBSET g.members : SplitVersionFamily(g, separate)
  BY <1>6, SplitKeepsVersions
<1>7. CASE \/ StartImportCommit \/ ResumeImportCommit
           \/ \E S \in SUBSET Remaining : CommitItems(S)
           \/ \E u \in Owners : DisableUser(u)
           \/ UNCHANGED reviewVars
  BY <1>1, <1>7 DEF StartImportCommit, ResumeImportCommit, CommitItems, DisableUser, reviewVars
<1> QED
  BY <1>2, <1>3, <1>4, <1>5, <1>6, <1>7 DEF ReviewNext

LEMMA StepHonoursVault == ReviewInv /\ [ReviewNext]_reviewVars => FrozenStays
<1> SUFFICES ASSUME ReviewInv, [ReviewNext]_reviewVars PROVE FrozenStays
  OBVIOUS
<1>1. review \in Reviewable /\ imported' = imported => FrozenStays
  BY DEF ReviewInv, PinsFit, FrozenStays
<1>2. fold' = fold /\ imported' = imported => FrozenStays
  BY DEF FrozenStays
<1>3. ASSUME NEW f \in Files, NEW action \in DOMAIN Dispositions, NEW p \in Payloads(action),
             RecordFileDecision(f, action, p)
      PROVE  FrozenStays
  <2>1. imported[f] = 0
    BY <1>3 DEF RecordFileDecision, DecisionWritable, ReviewInv, PinsFit
  <2>2. fold \in [Files -> Decision]
    BY DEF ReviewInv, ReviewTypeOK, Decision
  <2>3. /\ imported' = imported
        /\ \A g \in Files : g # f => fold'[g] = fold[g]
    BY <1>3, <2>2 DEF RecordFileDecision
  <2> QED
    BY <2>1, <2>3 DEF FrozenStays
<1>4. CASE \E S \in SUBSET Files, selector \in BOOLEAN, action \in DOMAIN Dispositions :
           \E p \in Payloads(action) : RecordBulkDecisions(S, selector, action, p)
  BY <1>1, <1>4, Zenon DEF RecordBulkDecisions
<1>5. CASE \/ \E S \in SUBSET Files, effective \in Files \cup {0},
                 chain \in {{}, {TRUE}, {FALSE}} : MergeFiles(S, effective, chain)
           \/ \E c \in clusters : \E separate \in SUBSET c.members :
                 SplitDupeCluster(c, separate)
           \/ \E g \in families : \E separate \in SUBSET g.members :
                 SplitVersionFamily(g, separate)
  BY <1>2, <1>5, Zenon DEF MergeFiles, SplitDupeCluster, SplitVersionFamily, Regroup
<1>6. ASSUME NEW S \in SUBSET Remaining, CommitItems(S) PROVE FrozenStays
  <2>1. \A f \in S : imported[f] = 0
    BY DEF Remaining
  <2>2. /\ fold' = fold
        /\ imported' = [f \in Files |-> IF f \in S THEN ResolvedOwner(f) ELSE imported[f]]
    BY <1>6 DEF CommitItems
  <2> QED
    BY <2>1, <2>2 DEF FrozenStays
<1>7. CASE \/ StartImportCommit \/ ResumeImportCommit
           \/ \E u \in Owners : DisableUser(u)
           \/ UNCHANGED reviewVars
  BY <1>2, <1>7 DEF StartImportCommit, ResumeImportCommit, DisableUser, reviewVars
<1> QED
  BY <1>3, <1>4, <1>5, <1>6, <1>7 DEF ReviewNext

\* What is committed is what was reviewed (services/ingestion/review.py), for any run of files:
\* however it is merged, split, decided about and resumed, every file is still represented by a
\* node, no chain a family asks for is dropped, the owner an item entered the vault with is the
\* one chosen last, a split leaves the kept version alone, and an imported decision is final.
THEOREM ReviewStaysHonoured == ReviewSpec => ReviewIsHonoured
<1>1. ReviewSpec => []ReviewInv
  BY ReviewInitInv, ReviewStepKeepsInv, PTL DEF ReviewSpec
<1>2. ReviewInv => ReviewTypeOK /\ EveryFileRepresented /\ CommittedOwnerIsReviewed
                     /\ NoChainIsDropped
  BY InvImpliesRepresented DEF ReviewInv
<1>3. ReviewInv /\ [ReviewNext]_reviewVars =>
        [KeptStays]_reviewVars /\ [FrozenStays]_reviewVars
  BY StepHonoursVersions, StepHonoursVault
<1>4. ReviewSpec => [][KeptStays]_reviewVars /\ [][FrozenStays]_reviewVars
  BY <1>1, <1>3, PTL DEF ReviewSpec
<1> QED
  BY <1>1, <1>2, <1>4, PTL DEF ReviewIsHonoured, KeptVersionIsSticky, ImportedIsFrozen,
                               KeptStays, FrozenStays

=============================================================================
