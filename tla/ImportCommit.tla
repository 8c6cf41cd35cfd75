---------------------------- MODULE ImportCommit ----------------------------
(***************************************************************************)
(* The commit of a reviewed import into the vault                          *)
(* (services/ingestion/commit.py).  Any number of commit tasks may run for *)
(* one run at the same time: the first one, a redelivery, the reaper's     *)
(* requeue, a resume.  Each walks the commit-ready items, one transaction  *)
(* per item; the last write of an item's transaction is the claim of its   *)
(* row in the import_commit_result ledger, and a failure is written by a   *)
(* second transaction that names the ledger generation it saw.             *)
(*                                                                         *)
(* Items are numbered in the order the proposal nodes are listed.  An      *)
(* item's staged bytes are an exact object version; 0 is "no row".         *)
(***************************************************************************)
EXTENDS Naturals, FiniteSets

CONSTANTS Items,         \* number of commit-ready items of the run
          Committers,    \* worker processes
          MaxTasks       \* bound: commit tasks ever delivered, hence attempts per item

ASSUME CommitAssumption == {Items, MaxTasks} \subseteq Nat \ {0}

VARIABLES runStatus,  \* import_run.status from Committing on
          ledger,     \* item -> its import_commit_result row
          vaulted,    \* item -> vault documents or records committed for it
          locator,    \* item -> version named by import_file.staged_blob_uri
          stored,     \* item -> staged versions that exist in the staging bucket
          newest,     \* item -> versions staged so far
          queued,     \* commit tasks in the broker
          enqueued,   \* commit tasks enqueued so far
          committer   \* what each worker is doing

commitVars == <<runStatus, ledger, vaulted, locator, stored, newest, queued, enqueued, committer>>

ItemSet == 1..Items
StagedVersions == 0..(MaxTasks + 1)
Restageable == {"mismatch", "source_missing", "restage_unavailable"}   \* _RESTAGEABLE_REASONS
Reasons == Restageable \cup {"other"}
LedgerRows == [result : {"none"}, gen : {0}, error : {"-"}]
              \cup [result : {"success"}, gen : 0..MaxTasks, error : {"-"}]
              \cup [result : {"failed"}, gen : 1..MaxTasks, error : Reasons]
NoLedgerRow == [result |-> "none", gen |-> 0, error |-> "-"]

IdleCommitter == [pc |-> "idle", item |-> 0, seen |-> 0, restage |-> FALSE, version |-> 0,
                  error |-> "-", failed |-> 0]

\* Run, ledger, staged versions and workers hold values of their types: no item has more than
\* one vault row and no ledger row more failures than there were commit tasks.
CommitTypeOK ==
  /\ runStatus \in {"Committing", "PartiallyCommitted", "Completed"}
  /\ ledger \in [ItemSet -> LedgerRows]
  /\ vaulted \in [ItemSet -> 0..1]
  /\ locator \in [ItemSet -> StagedVersions] /\ newest \in [ItemSet -> StagedVersions]
  /\ stored \in [ItemSet -> SUBSET StagedVersions]
  /\ queued \in 0..MaxTasks /\ enqueued \in 0..MaxTasks
  /\ committer \in [Committers -> [pc : {"idle", "load", "build", "fail", "cleanup", "tally", "flip"},
                                   item : 0..Items, seen : 0..MaxTasks, restage : BOOLEAN,
                                   version : StagedVersions, error : Reasons \cup {"-"},
                                   failed : 0..Items]]

CommitInit ==
  /\ runStatus = "Committing"
  /\ ledger = [i \in ItemSet |-> NoLedgerRow]
  /\ vaulted = [i \in ItemSet |-> 0]
  /\ locator = [i \in ItemSet |-> 1] /\ newest = [i \in ItemSet |-> 1]
  /\ stored = [i \in ItemSet |-> {1}]
  /\ queued = 1 /\ enqueued = 1
  /\ committer = [w \in Committers |-> IdleCommitter]

-----------------------------------------------------------------------------
(* Tasks: enqueue, resume, requeue, delivery, death.                         *)

Enqueue == queued < MaxTasks /\ enqueued < MaxTasks /\ queued' = queued + 1
           /\ enqueued' = enqueued + 1

ResumeCommit ==
  /\ runStatus = "PartiallyCommitted"
  /\ runStatus' = "Committing"
  /\ Enqueue
  /\ UNCHANGED <<ledger, vaulted, locator, stored, newest, committer>>

\* No ledger row for longer than the stall window: enqueue another task, next
\* to whatever worker may still be alive.
ReapStalledCommits ==
  /\ runStatus = "Committing"
  /\ Enqueue
  /\ UNCHANGED <<runStatus, ledger, vaulted, locator, stored, newest, committer>>

\* Mutant: a delivered task is acknowledged before its work is done.
CommitterDiesAcknowledged(w) ==
  /\ committer[w].pc # "idle"
  /\ committer' = [committer EXCEPT ![w] = IdleCommitter]
  /\ UNCHANGED <<runStatus, ledger, vaulted, locator, stored, newest, queued, enqueued>>

RunCommit(w) ==
  /\ committer[w].pc = "idle" /\ queued > 0
  /\ queued' = queued - 1
  /\ committer' = IF runStatus # "Committing" THEN committer
                  ELSE [committer EXCEPT ![w] = [IdleCommitter EXCEPT !.pc = "load", !.item = 1]]
  /\ UNCHANGED <<runStatus, ledger, vaulted, locator, stored, newest, enqueued>>

\* No committer or no framework: the run is handed back, resumable.
CommitPreconditionsFail(w) ==
  /\ committer[w].pc = "idle" /\ queued > 0 /\ runStatus = "Committing"
  /\ queued' = queued - 1
  /\ runStatus' = "PartiallyCommitted"
  /\ UNCHANGED <<ledger, vaulted, locator, stored, newest, enqueued, committer>>

\* The worker dies; its task, unacknowledged, is delivered again.
CommitterDies(w) ==
  /\ committer[w].pc # "idle"
  /\ Enqueue
  /\ committer' = [committer EXCEPT ![w] = IdleCommitter]
  /\ UNCHANGED <<runStatus, ledger, vaulted, locator, stored, newest>>

-----------------------------------------------------------------------------
(* One item: read its ledger row, stage and promote its bytes, build the     *)
(* vault rows, claim the ledger row and commit; or fail.                     *)

NextItem(w) ==
  [committer EXCEPT ![w] = [IdleCommitter EXCEPT
     !.pc = IF committer[w].item = Items THEN "tally" ELSE "load",
     !.item = IF committer[w].item = Items THEN 0 ELSE committer[w].item + 1]]

LoadItem(w) ==
  LET i == committer[w].item  row == ledger[i] IN
    /\ committer[w].pc = "load"
    /\ committer' = IF row.result = "success" THEN NextItem(w)
                    ELSE [committer EXCEPT ![w].pc = "build", ![w].seen = row.gen,
                                           ![w].restage = row.error \in Restageable,
                                           ![w].version = locator[i]]
    /\ UNCHANGED <<runStatus, ledger, vaulted, locator, stored, newest, queued, enqueued>>

\* The source file is staged again as a new version, known to this attempt only.
RestageSource(w) ==
  LET i == committer[w].item  v == newest[i] + 1 IN
    /\ committer[w].pc = "build" /\ committer[w].restage
    /\ newest' = [newest EXCEPT ![i] = v]
    /\ stored' = [stored EXCEPT ![i] = @ \cup {v}]
    /\ committer' = [committer EXCEPT ![w].restage = FALSE, ![w].version = v]
    /\ UNCHANGED <<runStatus, ledger, vaulted, locator, queued, enqueued>>

\* ON CONFLICT DO UPDATE ... WHERE result = 'failed'.
ClaimWins(row) == row.result # "success"

CommitItem(w) ==
  LET i == committer[w].item IN
    /\ committer[w].pc = "build" /\ ~committer[w].restage
    /\ committer[w].version \in stored[i]
    /\ IF ClaimWins(ledger[i])
       THEN /\ ledger' = [ledger EXCEPT ![i] = [result |-> "success", gen |-> @.gen, error |-> "-"]]
            /\ vaulted' = [vaulted EXCEPT ![i] = @ + 1]
            /\ locator' = [locator EXCEPT ![i] = committer[w].version]
       ELSE UNCHANGED <<ledger, vaulted, locator>>        \* lost race: roll back
    /\ committer' = NextItem(w)
    /\ UNCHANGED <<runStatus, stored, newest, queued, enqueued>>

\* Anything the item's transaction raises; it has rolled back.
ItemRaises(w) ==
  LET i == committer[w].item  here == committer[w].version \in stored[i] IN
    /\ committer[w].pc = "build"
    /\ \E error \in Reasons :
         /\ error = "mismatch" => here /\ ~committer[w].restage
         /\ error = "restage_unavailable" => committer[w].restage
         /\ error = "source_missing" => ~here /\ ~committer[w].restage
         /\ committer' = [committer EXCEPT ![w].pc = "fail", ![w].error = error]
    /\ UNCHANGED <<runStatus, ledger, vaulted, locator, stored, newest, queued, enqueued>>

\* Mutant: a failure overwrites any row, whatever this attempt had seen.
FailsOverAnything(row, seen) == TRUE

\* Only the generation this attempt saw may be replaced.
FailureWins(row, seen) == row.result # "success" /\ row.gen = seen

CleansUp(won, error) == won /\ error = "mismatch"

RecordFailed(w) ==
  LET i == committer[w].item
      error == committer[w].error
      won == FailureWins(ledger[i], committer[w].seen)
  IN /\ committer[w].pc = "fail"
     /\ ledger' = IF won THEN [ledger EXCEPT ![i] = [result |-> "failed", gen |-> @.gen + 1,
                                                     error |-> error]]
                  ELSE ledger
     /\ locator' = IF won /\ error # "mismatch"
                   THEN [locator EXCEPT ![i] = committer[w].version]   \* the restage is kept
                   ELSE locator
     /\ committer' = IF CleansUp(won, error) THEN [committer EXCEPT ![w].pc = "cleanup"]
                     ELSE NextItem(w)
     /\ UNCHANGED <<runStatus, vaulted, stored, newest, queued, enqueued>>

\* The audited refused version, and only that one, is deleted.
CleanupRejectedSource(w) ==
  LET i == committer[w].item IN
    /\ committer[w].pc = "cleanup"
    /\ stored' = [stored EXCEPT ![i] = @ \ {committer[w].version}]
    /\ committer' = NextItem(w)
    /\ UNCHANGED <<runStatus, ledger, vaulted, locator, newest, queued, enqueued>>

-----------------------------------------------------------------------------
(* The end of the walk: tally the ledger, then flip the run under its lock.  *)

TallyResults(w) ==
  /\ committer[w].pc = "tally"
  /\ committer' = [committer EXCEPT ![w].pc = "flip",
                     ![w].failed = Cardinality({i \in ItemSet : ledger[i].result = "failed"})]
  /\ UNCHANGED <<runStatus, ledger, vaulted, locator, stored, newest, queued, enqueued>>

FinalStatus(failed) == IF failed = 0 THEN "Completed" ELSE "PartiallyCommitted"

FinalizeRun(w) ==
  /\ committer[w].pc = "flip"
  /\ runStatus' = IF runStatus = "Committing" THEN FinalStatus(committer[w].failed) ELSE runStatus
  /\ committer' = [committer EXCEPT ![w] = IdleCommitter]
  /\ UNCHANGED <<ledger, vaulted, locator, stored, newest, queued, enqueued>>

CommitterStep(w) ==
  \/ RunCommit(w) \/ CommitPreconditionsFail(w) \/ LoadItem(w) \/ RestageSource(w) \/ CommitItem(w) \/ ItemRaises(w)
  \/ RecordFailed(w) \/ CleanupRejectedSource(w) \/ TallyResults(w) \/ FinalizeRun(w)
CommitNext == \/ ResumeCommit \/ ReapStalledCommits
              \/ \E w \in Committers : CommitterStep(w) \/ CommitterDies(w)

CommitSpec == CommitInit /\ [][CommitNext]_commitVars

(* A worker that lives goes on; one that dies is bounded by its redelivery.  *)
CommitFairSpec == CommitSpec /\ \A w \in Committers : WF_commitVars(CommitterStep(w))
-----------------------------------------------------------------------------
\* However many workers and attempts, an item enters the vault exactly once,
\* and the ledger says so exactly when it did.
CommittedExactlyOnce ==
  \A i \in ItemSet : vaulted[i] = IF ledger[i].result = "success" THEN 1 ELSE 0

\* A run that reports Completed has every commit-ready item in the vault.
CompletedMeansAll == runStatus = "Completed" => \A i \in ItemSet : ledger[i].result = "success"

\* A late failure of another worker never takes a committed item back.
SuccessIsFinal ==
  [][\A i \in ItemSet : ledger[i].result = "success" => ledger'[i] = ledger[i]]_commitVars

\* A run being committed always comes to rest.
CommitComesToRest == runStatus = "Committing" ~> runStatus # "Committing"

\* The ledger is the truth about the vault: one row per item, Completed only when all are in,
\* and no worker takes back a success.
LedgerIsTrue == [](CommitTypeOK /\ CommittedExactlyOnce /\ CompletedMeansAll) /\ SuccessIsFinal
=============================================================================
