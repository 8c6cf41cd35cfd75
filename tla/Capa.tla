-------------------------------- MODULE Capa --------------------------------
(***************************************************************************)
(* Corrective actions (CAPAs): the close_state machine, the append-only      *)
(* trail of sealed stages, the evidence linked to them, and the approval of   *)
(* the action plan.  Every handler locks the CAPA row or the workflow_instance *)
(* row first and is one transaction, hence one step.  A request that is        *)
(* refused changes nothing.                                                    *)
(*                                                                         *)
(* Of the workflow engine only the definition capa_action_plan_approval is     *)
(* needed: one stage, or two for a Critical CAPA, each passed by any one       *)
(* approval and failed when all its candidates have refused.  Role assignments   *)
(* and the configuration flag may change between any two requests, so what a    *)
(* handler reads of them is an input of its action: H, the holders of the role  *)
(* at that moment, and relaxed, system_config.allow_capa_self_verify.           *)
(***************************************************************************)
EXTENDS Naturals, Sequences, FiniteSets

CONSTANTS
  Capas,         \* capa rows
  People, Nobody, \* app_user rows; an author who matters to no rule
  MaxStages,     \* bound: capa_stage rows of one CAPA
  MaxOwners      \* bound: users one plan names as owners of its actions

Severities == {"Critical", "Major", "Minor"}
Tiers == {"crit_qm", "crit_topmgmt", "qm_approval"}

ASSUME CapaAssumption == MaxStages \in Nat /\ MaxOwners \in Nat /\ Nobody \notin People

VARIABLES
  capaState,   \* capa.close_state
  severity,    \* capa.severity
  cycle,       \* capa.cycle_marker
  trail,       \* capa_stage rows in order of created_at
  evidenced,   \* stages with at least one evidence_for_link: (CAPA, place in the trail)
  approvals    \* the CAPA's workflow instances that are not terminal

capaVars == <<capaState, severity, cycle, trail, evidenced, approvals>>

CapaStates == {"Raised", "Containment", "RootCause", "ActionPlan", "Implement", "Verify",
               "Closed", "Rejected"}

(* CAPA_TRANSITIONS.  No handler leads to Rejected.                          *)
AllowedTargets(from) ==
  CASE from = "Raised" -> {"Containment", "Rejected"}
    [] from = "Containment" -> {"RootCause", "Rejected"}
    [] from = "RootCause" -> {"ActionPlan", "Rejected"}
    [] from = "ActionPlan" -> {"Implement", "Rejected"}
    [] from = "Implement" -> {"Verify", "Rejected"}
    [] from = "Verify" -> {"Closed", "RootCause"}
    [] OTHER -> {}

(* A sealed block.  Who wrote a block other than ActionPlan, Implement and    *)
(* Verify matters to no rule.                                                 *)
Block(c, stage, by) ==
  [stage |-> stage, by |-> by, cycle |-> cycle[c], decision |-> "none", owners |-> {},
   signers |-> {}]

CapaInit ==
  /\ capaState = [c \in Capas |-> "Absent"]
  /\ severity = [c \in Capas |-> "Minor"]
  /\ cycle = [c \in Capas |-> 0]
  /\ trail = [c \in Capas |-> <<>>]
  /\ evidenced = {}
  /\ approvals = [c \in Capas |-> {}]

Seal(c, block) ==
  /\ Len(trail[c]) < MaxStages
  /\ trail' = [trail EXCEPT ![c] = Append(@, block)]
  /\ capaState' = [capaState EXCEPT ![c] = block.stage]

RaiseCapa(c, s) ==
  /\ capaState[c] = "Absent"
  /\ Seal(c, Block(c, "Raised", Nobody))
  /\ severity' = [severity EXCEPT ![c] = s]
  /\ UNCHANGED <<cycle, evidenced, approvals>>

Advance(c, to, by) ==
  /\ to \in AllowedTargets(capaState[c])
  /\ Seal(c, Block(c, to, by))
  /\ UNCHANGED <<severity, cycle, evidenced, approvals>>

AdvanceToContainment(c) == Advance(c, "Containment", Nobody)
AdvanceToRootCause(c) == Advance(c, "RootCause", Nobody)
AdvanceToImplement(c, u) == Advance(c, "Implement", u)

(***************************************************************************)
(* The action plan.                                                        *)
(***************************************************************************)
FirstTier(c) == IF severity[c] = "Critical" THEN "crit_qm" ELSE "qm_approval"

Proposable(c) == "ActionPlan" \in AllowedTargets(capaState[c]) /\ approvals[c] = {}

(* The plan, with the users it names as owners of its actions, rides in the    *)
(* instance's context; the CAPA stays where it is.  Without a candidate the    *)
(* instance ends at once in NEEDS_ATTENTION.                                   *)
ProposeActionPlan(c, H, U) ==
  /\ Proposable(c) /\ Cardinality(U) <= MaxOwners
  /\ H # {}
  /\ approvals' = [approvals EXCEPT ![c] = @ \cup
       {[tier |-> FirstTier(c), pool |-> H, deciders |-> {}, signers |-> {},
         owners |-> U]}]
  /\ UNCHANGED <<capaState, severity, cycle, trail, evidenced>>

(* _assert_capa_approver: the candidate of an open task, still in its role     *)
(* (otherwise nothing happens), who has decided no other task of this approval. *)
MayDecidePlan(a, u) == u \in a.pool /\ u \notin a.deciders

(* The approval before and after a decision; a terminal instance is none.      *)
Replaced(c, a, S) == [approvals EXCEPT ![c] = (@ \ {a}) \cup S]

(* The first of two tiers is passed.  A second tier without a candidate ends   *)
(* the instance in NEEDS_ATTENTION.                                            *)
ApproveFirstTier(c, a, u, H) ==
  /\ MayDecidePlan(a, u) /\ a.tier = "crit_qm"
  /\ approvals' = Replaced(c, a, IF H = {} THEN {}
       ELSE {[tier |-> "crit_topmgmt", pool |-> H, deciders |-> a.deciders \cup {u},
              signers |-> a.signers \cup {u}, owners |-> a.owners]})
  /\ UNCHANGED <<capaState, severity, cycle, trail, evidenced>>

(* The completing approval seals the signed stage.                           *)
ApprovePlan(c, a, u) ==
  /\ MayDecidePlan(a, u) /\ a.tier # "crit_qm"
  /\ "ActionPlan" \in AllowedTargets(capaState[c])
  /\ approvals' = Replaced(c, a, {})
  /\ Seal(c, [Block(c, "ActionPlan", u) EXCEPT !.owners = a.owners,
                                               !.signers = a.signers \cup {u}])
  /\ UNCHANGED <<severity, cycle, evidenced>>

(* A refusal or a request for changes ends the approval only when nobody is    *)
(* left who could approve.                                                     *)
RefusePlan(c, a, u) ==
  /\ MayDecidePlan(a, u)
  /\ approvals' = Replaced(c, a, IF a.pool = {u} THEN {}
       ELSE {[a EXCEPT !.pool = @ \ {u}, !.deciders = @ \cup {u}]})
  /\ UNCHANGED <<capaState, severity, cycle, trail, evidenced>>

(***************************************************************************)
(* Verification and closure.                                               *)
(***************************************************************************)
Places(c, stage) == {n \in DOMAIN trail[c] : trail[c][n].stage = stage}
InCycle(c, stage) == {n \in Places(c, stage) : trail[c][n].cycle = cycle[c]}
Last(S) == CHOOSE n \in S : \A m \in S : m <= n

\* Mutant: the implementers of earlier cycles are forgotten.
ImplementersOfCycle(c) ==
  {trail[c][n].by : n \in InCycle(c, "Implement")}
    \cup UNION {trail[c][n].owners : n \in InCycle(c, "ActionPlan")}

(* derive_implementer_ids, over the whole trail.                             *)
Implementers(c) ==
  {trail[c][n].by : n \in Places(c, "Implement")}
    \cup UNION {trail[c][n].owners : n \in Places(c, "ActionPlan")}

SelfVerifyBlocked(c, u, relaxed) == u \in Implementers(c) /\ (severity[c] # "Minor" \/ ~relaxed)

VerifyCapa(c, u, decision, relaxed) ==
  /\ "Verify" \in AllowedTargets(capaState[c])
  /\ ~SelfVerifyBlocked(c, u, relaxed)
  /\ Seal(c, [Block(c, "Verify", u) EXCEPT !.decision = decision])
  /\ UNCHANGED <<severity, cycle, evidenced, approvals>>

Evidence(c, stage) == \E n \in InCycle(c, stage) : <<c, n>> \in evidenced

Decision(c) == trail[c][Last(InCycle(c, "Verify"))].decision

LoopTarget == "RootCause"

(* adjudicate_capa_closure: the loop for a not effective action, the end for  *)
(* an effective one with its evidence, a refusal otherwise.                   *)
CloseCapa(c) ==
  /\ capaState[c] = "Verify" /\ InCycle(c, "Verify") # {}
  /\ \/ /\ Decision(c) # "effective"
        /\ capaState' = [capaState EXCEPT ![c] = LoopTarget]
        /\ cycle' = [cycle EXCEPT ![c] = @ + 1]
     \/ /\ Decision(c) = "effective"
        /\ Places(c, "RootCause") # {} /\ Evidence(c, "Implement") /\ Evidence(c, "Verify")
        /\ capaState' = [capaState EXCEPT ![c] = "Closed"]
        /\ UNCHANGED cycle
  /\ UNCHANGED <<severity, trail, evidenced, approvals>>

(* Evidence for other stages counts nowhere.                                 *)
LinkEvidence(c, n) ==
  /\ n \in Places(c, "Implement") \cup Places(c, "Verify")
  /\ evidenced' = evidenced \cup {<<c, n>>}
  /\ UNCHANGED <<capaState, severity, cycle, trail, approvals>>

(* Evidence of a signed verification, and all evidence of a closed CAPA.      *)
Frozen(c, n) == trail[c][n].stage = "Verify" \/ capaState[c] = "Closed"

UnlinkEvidence(c, n) ==
  /\ <<c, n>> \in evidenced /\ ~Frozen(c, n)
  /\ evidenced' = evidenced \ {<<c, n>>}
  /\ UNCHANGED <<capaState, severity, cycle, trail, approvals>>

CapaNext ==
  \E c \in Capas :
     \/ \E s \in Severities : RaiseCapa(c, s)
     \/ AdvanceToContainment(c) \/ AdvanceToRootCause(c) \/ CloseCapa(c)
     \/ \E H, U \in SUBSET People : ProposeActionPlan(c, H, U)
     \/ \E a \in approvals[c], u \in People :
          \/ \E H \in SUBSET People : ApproveFirstTier(c, a, u, H)
          \/ ApprovePlan(c, a, u) \/ RefusePlan(c, a, u)
     \/ \E u \in People : AdvanceToImplement(c, u)
     \/ \E u \in People, d \in {"effective", "not_effective"}, relaxed \in BOOLEAN :
          VerifyCapa(c, u, d, relaxed)
     \/ \E n \in DOMAIN trail[c] : LinkEvidence(c, n) \/ UnlinkEvidence(c, n)

CapaSpec == CapaInit /\ [][CapaNext]_capaVars

(***************************************************************************)
(* Properties.                                                             *)
(***************************************************************************)
StageBlocks ==
  [stage : CapaStates, by : People \cup {Nobody}, cycle : 0..MaxStages,
   decision : {"none", "effective", "not_effective"}, owners : SUBSET People,
   signers : SUBSET People]

PlanApprovals ==
  [tier : Tiers, pool : SUBSET People, deciders : SUBSET People, signers : SUBSET People,
   owners : SUBSET People]

\* CAPAs, their trails, links and approvals hold values of their types, and the close_state
\* is the last sealed stage, or what a closure made of a verification.
CapaTypeOK ==
  /\ capaState \in [Capas -> CapaStates \cup {"Absent"}]
  /\ severity \in [Capas -> Severities] /\ cycle \in [Capas -> 0..MaxStages]
  /\ \A c \in Capas : \A n \in DOMAIN trail[c] : trail[c][n] \in StageBlocks
  /\ evidenced \subseteq Capas \X (1..MaxStages)
  /\ \A c \in Capas : approvals[c] \subseteq PlanApprovals
  /\ \A c \in Capas : trail[c] # <<>> =>
       LET last == trail[c][Len(trail[c])].stage
       IN  last = capaState[c] \/ (last = "Verify" /\ capaState[c] \in {"Closed", "RootCause"})

(* The last place of a stage in the trail, 0 if there is none.               *)
LastPlace(c, stage) == IF Places(c, stage) = {} THEN 0 ELSE Last(Places(c, stage))

\* What is carried out was approved: from ActionPlan on, the plan in force was sealed in
\* this cycle and after the latest root cause by an approval that completed, signed by
\* the author of the stage, and by two different people if the CAPA is Critical, although roles
\* are given and revoked between the two tiers and the loop comes back for another plan.
PlanWasApproved ==
  \A c \in Capas : capaState[c] \in {"ActionPlan", "Implement", "Verify", "Closed"} =>
     LET n == LastPlace(c, "ActionPlan")
     IN  /\ n > LastPlace(c, "RootCause") /\ trail[c][n].cycle = cycle[c]
         /\ trail[c][n].by \in trail[c][n].signers
         /\ severity[c] = "Critical" => Cardinality(trail[c][n].signers) >= 2

\* A CAPA that waits for an approval waits in RootCause for that one only: no decision can
\* reach an approval whose CAPA has moved on.
ApprovalBelongsToRootCause ==
  \A c \in Capas : approvals[c] # {} =>
     capaState[c] = "RootCause" /\ Cardinality(approvals[c]) = 1

\* A closed CAPA rests, and goes on resting, on an effective verification of its last cycle,
\* by somebody who up to then had implemented nothing of it in any cycle (a Minor one may
\* be relaxed), with evidence for an implementation and for the verification of that cycle.
ClosedWasVerified ==
  \A c \in Capas : capaState[c] = "Closed" =>
     LET n == LastPlace(c, "Verify")
         before == 1..n
     IN  /\ trail[c][n].cycle = cycle[c] /\ trail[c][n].decision = "effective"
         /\ severity[c] # "Minor" =>
              \A m \in before : /\ trail[c][m].stage = "Implement" => trail[c][m].by # trail[c][n].by
                                /\ trail[c][n].by \notin trail[c][m].owners
         /\ Evidence(c, "Implement") /\ Evidence(c, "Verify")

\* What the closure gate's documentation says of the effectiveness loop: "each loop
\* iteration stands on its own freshly-implemented + freshly-verified evidence".  The last
\* implementation and the last verification of a closed CAPA carry evidence themselves.
ClosedOnFreshEvidence ==
  \A c \in Capas : capaState[c] = "Closed" =>
     \A stage \in {"Implement", "Verify"} : <<c, LastPlace(c, stage)>> \in evidenced

\* From proposal to closure, through any number of loops, a CAPA is carried out on a plan that
\* was approved for this cycle and closed on a verification by somebody independent of it.
CapaIsSound == CapaTypeOK /\ PlanWasApproved /\ ApprovalBelongsToRootCause /\ ClosedWasVerified
=============================================================================
