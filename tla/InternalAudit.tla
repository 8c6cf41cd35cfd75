---------------------------- MODULE InternalAudit ----------------------------
(***************************************************************************)
(* One internal audit, its findings and the gate at its end.  Every finding  *)
(* is an immutable record; correcting one captures a successor.  A            *)
(* nonconformity (NC) is born with its CAPA.  The audit's handlers lock the   *)
(* audit row and the CAPA's its own; each is one transaction.                 *)
(***************************************************************************)
EXTENDS Naturals, Sequences

CONSTANT MaxFindings   \* bound: findings of the audit

ASSUME AuditAssumption == MaxFindings \in Nat

VARIABLES
  auditState,   \* audit.state
  findings      \* audit_finding rows in order of capture, with their CAPA's progress

internalAuditVars == <<auditState, findings>>

Chain == <<"Scheduled", "Planned", "InProgress", "FindingsDraft", "Reported", "Closing", "Closed">>
FindingTypes == {"NC", "OBSERVATION", "OFI"}

AuditsInit == auditState = 1 /\ findings = <<>>

IsClosed == Chain[auditState] = "Closed"

(* superseded is record.superseded_by_correction: none, the number of a       *)
(* finding, or a record that is no finding.                                   *)
NewFinding(type) ==
  [type |-> type, superseded |-> 0, capa |-> IF type = "NC" THEN "open" ELSE "none"]
NoFinding == MaxFindings + 1

\* Mutant: a finding may be added to any audit.
AddableAlways == Len(findings) < MaxFindings

Addable == ~IsClosed /\ Len(findings) < MaxFindings

CreateFinding(type) ==
  /\ Addable
  /\ findings' = Append(findings, NewFinding(type))
  /\ UNCHANGED auditState

Live(n) == findings[n].superseded = 0

CorrectFinding(n, type) ==
  /\ Addable /\ Live(n)
  /\ findings' = Append([findings EXCEPT ![n].superseded = Len(findings) + 1], NewFinding(type))
  /\ UNCHANGED auditState

(* The records API corrects any record, a finding's too; the successor is a    *)
(* record and no finding, and the audit is neither locked nor asked.           *)
CorrectRecord(n) ==
  /\ Live(n)
  /\ findings' = [findings EXCEPT ![n].superseded = NoFinding]
  /\ UNCHANGED auditState

(* close_capa, as far as the audit can see it.                               *)
CloseFindingCapa(n) ==
  /\ findings[n].capa = "open"
  /\ findings' = [findings EXCEPT ![n].capa = "Closed"]
  /\ UNCHANGED auditState

(* finding_blocks_close: a live NC whose CAPA is missing or not Closed.        *)
BlocksClose(n) == findings[n].type = "NC" /\ Live(n) /\ findings[n].capa # "Closed"

AdvanceAudit ==
  /\ auditState < Len(Chain)
  /\ Chain[auditState + 1] = "Closed" => \A n \in DOMAIN findings : ~BlocksClose(n)
  /\ auditState' = auditState + 1
  /\ UNCHANGED findings

AuditsNext ==
  \/ \E type \in FindingTypes : CreateFinding(type)
  \/ \E n \in DOMAIN findings, type \in FindingTypes : CorrectFinding(n, type)
  \/ \E n \in DOMAIN findings : CorrectRecord(n) \/ CloseFindingCapa(n)
  \/ AdvanceAudit

AuditsSpec == AuditsInit /\ [][AuditsNext]_internalAuditVars

(***************************************************************************)
(* Properties.                                                             *)
(***************************************************************************)
\* A closed audit has, and never gets again, a live nonconformity whose CAPA is not closed,
\* whatever is corrected or retyped before the gate and after it.
ClosedAuditIsCorrected == IsClosed => \A n \in DOMAIN findings : ~(/\ findings[n].type = "NC" /\ Live(n)
                                                                  /\ findings[n].capa # "Closed")
=============================================================================
