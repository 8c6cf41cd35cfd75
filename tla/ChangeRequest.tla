---------------------------- MODULE ChangeRequest ----------------------------
(***************************************************************************)
(* Document change requests (DCRs) and their approval: the DCR state        *)
(* machine composed with the workflow engine it drives.  Every handler locks *)
(* the DCR row or the workflow_instance row first, so each is one step; a    *)
(* handler that ends in an error rolls the engine's writes back with it.     *)
(***************************************************************************)
EXTENDS WorkflowEngine

CONSTANTS
  Dcrs,           \* dcr rows
  NoInstance,     \* no approval has been routed yet
  ApprovalEntry   \* the entry stage of the dcr_approval definition

Significances == {"MAJOR", "MINOR"}

(* The context of an approval: what its router and its conditions read.      *)
ContextOf(m) == [k \in {"change_significance"} |-> m]

ASSUME DcrAssumption ==
  /\ ApprovalEntry \in Entries \ Malformed
  /\ NoInstance \notin Instances
  /\ \A m \in Significances : ContextOf(m) \in Contexts

(* The dcr_approval definition (migration 0043) routes every change to a     *)
(* first tier; a tier that is passed leads to another one or completes, and  *)
(* the first tier of a MAJOR change does not complete.                       *)
EntryTier(m)   == Landing(ApprovalEntry, ContextOf(m))
NextTier(s, m) == Landing(TransitionTarget(StageDef[s].success, "COMPLETED"), ContextOf(m))

TierSets(m) ==
  {tiers \in SUBSET Stages :
     EntryTier(m) \in tiers /\ \A s \in tiers : NextTier(s, m) \in tiers \cup {"COMPLETED"}}

ASSUME ApprovalGraphAssumption ==
  /\ \A m \in Significances : TierSets(m) # {}
  /\ NextTier(EntryTier("MAJOR"), "MAJOR") # "COMPLETED"

VARIABLES
  dcrState,      \* dcr.state
  significance,  \* dcr.change_significance
  approval,      \* the latest approval instance of the DCR
  signatures     \* signature_event(meaning=approval): (instance, stage, signer)

dcrVars == <<dcrState, significance, approval, signatures>>
vars == <<engineVars, dcrVars>>

DcrStates == {"Absent", "Open", "Assessed", "InApproval", "Approved", "Rejected", "Cancelled"}

Init ==
  /\ EngineInit
  /\ dcrState = [d \in Dcrs |-> "Absent"]
  /\ significance = [d \in Dcrs |-> "MINOR"]
  /\ approval = [d \in Dcrs |-> NoInstance]
  /\ signatures = {}

RaiseDcr(d, m) ==
  /\ dcrState[d] = "Absent"
  /\ dcrState' = [dcrState EXCEPT ![d] = "Open"]
  /\ significance' = [significance EXCEPT ![d] = m]
  /\ UNCHANGED <<engineVars, approval, signatures>>

Editable(d) == dcrState[d] = "Open"

PatchDcr(d, m) ==
  /\ Editable(d)
  /\ significance' = [significance EXCEPT ![d] = m]
  /\ UNCHANGED <<engineVars, dcrState, approval, signatures>>

AssessDcr(d) ==
  /\ dcrState[d] = "Open"
  /\ dcrState' = [dcrState EXCEPT ![d] = "Assessed"]
  /\ UNCHANGED <<engineVars, significance, approval, signatures>>

CancelDcr(d) ==
  /\ dcrState[d] \in {"Open", "Assessed"}
  /\ dcrState' = [dcrState EXCEPT ![d] = "Cancelled"]
  /\ UNCHANGED <<engineVars, significance, approval, signatures>>

(* find_nonterminal_instance                                                *)
ApprovalOpen(d) == approval[d] # NoInstance /\ instState[approval[d]] \in Stages

(* Assessed -> Routed -> InApproval in one transaction, refused when the     *)
(* entry stage cannot be staffed.                                           *)
RouteDcr(d, i) ==
  /\ dcrState[d] = "Assessed"
  /\ ~ApprovalOpen(d)
  /\ Instantiate(i, ApprovalEntry, ContextOf(significance[d]))
  /\ instState'[i] # "NEEDS_ATTENTION"
  /\ dcrState' = [dcrState EXCEPT ![d] = "InApproval"]
  /\ approval' = [approval EXCEPT ![d] = i]
  /\ UNCHANGED <<significance, signatures>>

DecidedIn(i) == {task[t].by : t \in {x \in Tasks : x[1] = i /\ task[x].state = "DONE"}}

\* Mutant: the check across stages is missing.
MayDecideDcrAnyStage(i, s, u) == u \in members[StageDef[s].role]

(* The candidate of the task, still in the role, who has decided no other    *)
(* task of this approval.                                                   *)
MayDecideDcr(i, s, u) == u \in members[StageDef[s].role] /\ u \notin DecidedIn(i)

(* The next stage must be staffed: otherwise the approval is rolled back.    *)
ApproveDcr(d, s, u) ==
  LET i == approval[d]
  IN  /\ dcrState[d] = "InApproval"
      /\ MayDecideDcr(i, s, u)
      /\ Decide(i, s, u, u, "approve")
      /\ instState'[i] # "NEEDS_ATTENTION"
      /\ signatures' = signatures \cup {<<i, s, u>>}
      /\ dcrState' = [dcrState EXCEPT ![d] =
                        IF instState'[i] = "COMPLETED" THEN "Approved" ELSE @]
      /\ UNCHANGED <<significance, approval>>

(* One refusal ends the approval, whatever the stage's quorum makes of it.   *)
Refused(i, after) ==
  [state |-> "REJECTED",
   task |-> [t \in Tasks |->
               IF t[1] = i /\ after.task[t].state = "PENDING"
               THEN [after.task[t] EXCEPT !.state = "SKIPPED"] ELSE after.task[t]]]

RefuseDcr(d, s, u, to) ==
  LET i == approval[d]
      f == WithOutcome(i, s, u, u, "reject")
      verdict == StageVerdict(f, i, s)
      after == Refused(i, AfterVerdict(i, s, f, verdict))
  IN  /\ dcrState[d] = "InApproval"
      /\ MayDecideDcr(i, s, u)
      /\ Decidable(i, s, u, u, "reject")
      /\ instState' = [instState EXCEPT ![i] = after.state]
      /\ task' = after.task
      /\ closed' = IF verdict = "PENDING" THEN closed
                   ELSE [closed EXCEPT ![i][s] = verdict]
      /\ dcrState' = [dcrState EXCEPT ![d] = to]
      /\ UNCHANGED <<members, context, significance, approval, signatures>>

Next ==
  \/ \E d \in Dcrs, m \in Significances : RaiseDcr(d, m) \/ PatchDcr(d, m)
  \/ \E d \in Dcrs : AssessDcr(d) \/ CancelDcr(d)
  \/ \E d \in Dcrs, i \in Instances : RouteDcr(d, i)
  \/ \E d \in Dcrs, s \in Stages, u \in Users : ApproveDcr(d, s, u)
  \/ \E d \in Dcrs, s \in Stages, u \in Users, to \in {"Rejected", "Open"} :
        RefuseDcr(d, s, u, to)
  \/ \E r \in Roles, u \in Users : AssignRole(r, u) /\ UNCHANGED dcrVars
  \/ \E r \in Roles, u \in Users : RevokeRole(r, u) /\ UNCHANGED dcrVars

Spec == Init /\ [][Next]_vars

(***************************************************************************)
(* Properties.                                                             *)
(***************************************************************************)
\* The DCR rows hold the values their columns allow, and so do the engine's.
TypeOK ==
  /\ EngineTypeOK
  /\ dcrState \in [Dcrs -> DcrStates]
  /\ significance \in [Dcrs -> Significances]
  /\ approval \in [Dcrs -> Instances \cup {NoInstance}]
  /\ signatures \in SUBSET Tasks

\* A DCR in approval has exactly one open approval, waiting in a stage with a pending task;
\* a DCR in any other state has none, so it can be routed again.
ApprovalIsOpen ==
  \A d \in Dcrs :
     /\ dcrState[d] = "InApproval" <=> ApprovalOpen(d)
     /\ ApprovalOpen(d) =>
          \E u \in Users : task[<<approval[d], instState[approval[d]], u>>].state = "PENDING"

\* What the rollback of an unstaffed tier is there for: whatever roles are given and taken,
\* an approval in progress can still be decided by the candidate of a pending task who has
\* decided no other task of it.
ApprovalCanBeDecided ==
  \A d \in Dcrs : dcrState[d] = "InApproval" =>
     \E u \in Users \ DecidedIn(approval[d]) :
        task[<<approval[d], instState[approval[d]], u>>].state = "PENDING"

(* The signers of the DCR's latest approval.                                *)
Signers(d) == {t[3] : t \in {x \in signatures : x[1] = approval[d]}}

\* An approved MAJOR change carries the signatures of two different people, one for
\* each tier it was routed through; an approved MINOR change carries one.
ApprovedWasSigned ==
  \A d \in Dcrs : dcrState[d] = "Approved" =>
     /\ Signers(d) # {}
     /\ significance[d] = "MAJOR" => Cardinality(Signers(d)) >= 2

\* A request in approval keeps an open approval with a task to decide, one that is not can be
\* routed again, and an approved one carries its signatures, although roles change and tiers
\* cannot be staffed on the way.  That somebody may decide the task is another matter: see
\* ApprovalCanBeDecided.
DcrIsSound == TypeOK /\ PendingOnlyInCurrentStage /\ ApprovalIsOpen /\ ApprovedWasSigned
=============================================================================
