----------------------------- MODULE MCEvidence -----------------------------
(* Records with their evidence, the packs built from records and the audit    *)
(* trail, one at a time: matter says which runs while the variables of the    *)
(* others keep their initial values.                                          *)
EXTENDS RecordDisposition, EvidencePacks, AuditChain, TLC
CONSTANTS inner, outer, finding

(* Destroyed by the sweep unless a person is faster; archived by a person;    *)
(* kept for good.                                                             *)
ThreePolicies ==
  {[action |-> "DESTROY", review |-> FALSE], [action |-> "ARCHIVE", review |-> TRUE], Permanent}

(* The inner pack is the dossier of a finding; the outer one may hold the     *)
(* record of the inner pack, and the finding through nothing but that.        *)
MCScope == (inner :> {}) @@ (outer :> {inner})
MCSubjects == (inner :> {finding}) @@ (outer :> {})

VARIABLE matter
evidenceVars == <<matter, recVars, packVars, auditVars>>

EvidenceInit ==
  /\ matter \in {"records", "packs", "trail"}
  /\ RecInit /\ PackInit /\ AuditInit
  /\ matter # "records" => lockMode = "GOVERNANCE"

EvidenceNext ==
  /\ UNCHANGED matter
  /\ \/ matter = "records" /\ UNCHANGED <<packVars, auditVars>> /\ RecNext
     \/ matter = "packs" /\ UNCHANGED <<recVars, auditVars>> /\ PackNext
     \/ matter = "trail" /\ UNCHANGED <<recVars, packVars>> /\ AuditNext

(* The fairness of RecFairSpec, PackFairSpec and AuditFairSpec, while theirs  *)
(* is the matter.                                                             *)
EvidenceFairSpec ==
  /\ EvidenceInit /\ [][EvidenceNext]_evidenceVars
  /\ WF_recVars(matter = "records" /\ CaptureGoesOn)
  /\ \A s \in Shas :
       /\ WF_recVars(matter = "records" /\ LockExpires(s))
       /\ WF_recVars(matter = "records" /\ EndPurge(s))
       /\ SF_recVars(matter = "records" /\ Settle(s))
  /\ \A w \in Builders : WF_packVars(matter = "packs" /\ BuildGoesOn(w))
  /\ SF_packVars(matter = "packs" /\ \E p \in Packs : ReapStalled(p))
  /\ WF_auditVars(matter = "trail" /\ LinkerStep)
  /\ WF_auditVars(matter = "trail" /\ \E x \in Xids : EndTransaction(x))

\* While packs are built: no build hangs, though its message is lost and its worker killed.
PackBuildsEnd == matter = "packs" => EveryBuildEnds

\* While records are disposed of: destroyed evidence is erased in the end, or owned again.
RecordErasureCompletes == matter = "records" => ErasureCompletes
=============================================================================
