---------------------------- MODULE QualityProofs ----------------------------
(***************************************************************************)
(* CAPAs and internal audits, for any number of people, CAPAs and findings.  *)
(*                                                                         *)
(* A CAPA's soundness speaks of the last plan, implementation and            *)
(* verification in its trail.  What makes it inductive is that the trail's   *)
(* last block is the one the close_state says was sealed last, and that       *)
(* an approval in flight keeps the signer of its first tier.                 *)
(***************************************************************************)
EXTENDS Capa, InternalAudit, FiniteSetTheorems, WellFoundedInduction, TLAPS

(* The rows of one CAPA: close_state, severity, cycle_marker, trail, the      *)
(* places with evidence, and the open approvals.                             *)
Carried == {"ActionPlan", "Implement", "Verify", "Closed"}

RowsTyped(st, sev, cy, tr, ev, ap) ==
  /\ st \in CapaStates \cup {"Absent"} /\ sev \in Severities
  /\ cy \in Nat /\ tr \in Seq(StageBlocks) /\ Len(tr) <= MaxStages
  /\ ev \subseteq 1..MaxStages /\ ap \subseteq PlanApprovals

\* The last block is the stage the CAPA is in, or the verification a closure judged.
LastBlockTells(st, tr) ==
  /\ st = "Absent" <=> tr = <<>>
  /\ st = "Closed" => tr[Len(tr)].stage = "Verify"
  /\ st \notin {"Absent", "Closed"} =>
       tr[Len(tr)].stage = st \/ (st = "RootCause" /\ tr[Len(tr)].stage = "Verify")

\* A cycle is begun only by a verification, and a stage is sealed in the current one.
CycleFits(st, cy, tr) ==
  /\ cy <= Len(tr)
  /\ st \in Carried \ {"Closed"} => cy < Len(tr)
  /\ st \in Carried => tr[Len(tr)].cycle = cy

\* The latest plan is later than every root cause, of this cycle, and signed.
PlanInForce(st, sev, cy, tr) ==
  st \in Carried =>
    \E n \in DOMAIN tr :
      /\ tr[n].stage = "ActionPlan" /\ tr[n].cycle = cy /\ tr[n].by \in tr[n].signers
      /\ \A m \in DOMAIN tr : tr[m].stage \in {"ActionPlan", "RootCause"} => m <= n
      /\ sev = "Critical" => Cardinality(tr[n].signers) >= 2

\* An approval waits in RootCause; its second tier has the signer of the first.
ApprovalFits(sev, a) ==
  /\ a.tier = "qm_approval" => sev # "Critical"
  /\ a.tier = "crit_qm" => a.signers = {}
  /\ a.tier = "crit_topmgmt" => \E w \in a.deciders : a.signers = {w}

OneApproval(st, sev, ap) ==
  ap = {} \/ (st = "RootCause" /\ \E a : ap = {a} /\ ApprovalFits(sev, a))

\* No verification is by somebody who had implemented anything before it.
VerifiersIndependent(sev, tr) ==
  \A n \in DOMAIN tr :
    /\ tr[n].stage # "ActionPlan" => tr[n].owners = {}
    /\ tr[n].stage = "Verify" /\ sev # "Minor" =>
         \A m \in 1..n : /\ tr[m].stage = "Implement" => tr[m].by # tr[n].by
                         /\ tr[n].by \notin tr[m].owners

ClosedRight(st, cy, tr, ev) ==
  st = "Closed" =>
    /\ tr[Len(tr)].decision = "effective"
    /\ \A stage \in {"Implement", "Verify"} :
         \E n \in ev : n \in DOMAIN tr /\ tr[n].stage = stage /\ tr[n].cycle = cy

RowsSound(st, sev, cy, tr, ev, ap) ==
  /\ RowsTyped(st, sev, cy, tr, ev, ap)
  /\ LastBlockTells(st, tr) /\ CycleFits(st, cy, tr) /\ PlanInForce(st, sev, cy, tr)
  /\ OneApproval(st, sev, ap) /\ VerifiersIndependent(sev, tr) /\ ClosedRight(st, cy, tr, ev)

Evidenced(c) == {n \in 1..MaxStages : <<c, n>> \in evidenced}

Sound(c) ==
  RowsSound(capaState[c], severity[c], cycle[c], trail[c], Evidenced(c), approvals[c])

\* The inductive invariant.
CapaInv ==
  /\ capaState \in [Capas -> CapaStates \cup {"Absent"}] /\ severity \in [Capas -> Severities]
  /\ cycle \in [Capas -> Nat] /\ trail \in [Capas -> Seq(StageBlocks)]
  /\ evidenced \subseteq Capas \X (1..MaxStages)
  /\ approvals \in [Capas -> SUBSET PlanApprovals]
  /\ \A c \in Capas : Sound(c)

-----------------------------------------------------------------------------
(* Sealing a stage.                                                          *)

LEMMA AppendedBlocks ==
  ASSUME NEW tr \in Seq(StageBlocks), NEW b \in StageBlocks
  PROVE  /\ Append(tr, b) \in Seq(StageBlocks) /\ Len(Append(tr, b)) = Len(tr) + 1
         /\ Append(tr, b)[Len(tr) + 1] = b /\ Append(tr, b) # <<>>
         /\ DOMAIN Append(tr, b) = DOMAIN tr \cup {Len(tr) + 1}
         /\ DOMAIN tr = 1..Len(tr) /\ Len(tr) \in Nat
         /\ \A m \in DOMAIN tr : Append(tr, b)[m] = tr[m] /\ m \in Nat /\ m <= Len(tr)
<1>1. Len(tr) \in Nat /\ DOMAIN tr = 1..Len(tr)
  OBVIOUS
<1>2. Append(tr, b) \in Seq(StageBlocks) /\ Len(Append(tr, b)) = Len(tr) + 1
  OBVIOUS
<1>3. DOMAIN Append(tr, b) = 1..(Len(tr) + 1)
  BY <1>2
<1>4. 1..(Len(tr) + 1) = 1..Len(tr) \cup {Len(tr) + 1}
  BY <1>1
<1>5. Append(tr, b) # <<>>
  BY <1>1, <1>2
<1> QED
  BY <1>1, <1>2, <1>3, <1>4, <1>5

\* A plan stays in force when another stage than a plan or a root cause is sealed.
LEMMA PlanStaysInForce ==
  ASSUME NEW st \in Carried, NEW to, NEW sev, NEW cy, NEW tr \in Seq(StageBlocks),
         PlanInForce(st, sev, cy, tr), NEW b \in StageBlocks,
         b.stage \notin {"ActionPlan", "RootCause"}
  PROVE  PlanInForce(to, sev, cy, Append(tr, b))
<1>1. PICK n \in DOMAIN tr :
        /\ tr[n].stage = "ActionPlan" /\ tr[n].cycle = cy /\ tr[n].by \in tr[n].signers
        /\ \A m \in DOMAIN tr : tr[m].stage \in {"ActionPlan", "RootCause"} => m <= n
        /\ sev = "Critical" => Cardinality(tr[n].signers) >= 2
  BY DEF PlanInForce
<1> DEFINE new == Append(tr, b)
<1>2. /\ DOMAIN new = DOMAIN tr \cup {Len(tr) + 1} /\ new[Len(tr) + 1] = b
      /\ \A m \in DOMAIN tr : new[m] = tr[m]
  BY AppendedBlocks
<1> HIDE DEF new
<1>3. \A m \in DOMAIN new : new[m].stage \in {"ActionPlan", "RootCause"} => m <= n
  BY <1>1, <1>2
<1>4. n \in DOMAIN new /\ new[n] = tr[n]
  BY <1>2
<1>5. PlanInForce(to, sev, cy, new)
  BY <1>1, <1>3, <1>4 DEF PlanInForce
<1> QED
  BY <1>5 DEF new

LEMMA SealSound ==
  ASSUME NEW st, NEW sev, NEW sev2 \in Severities, NEW cy, NEW tr, NEW ev, NEW ap,
         RowsSound(st, sev, cy, tr, ev, ap), st = "Absent" \/ sev2 = sev,
         Len(tr) < MaxStages,
         NEW b \in StageBlocks, b.cycle = cy, b.stage # "Closed",
         b.stage # "ActionPlan" => b.owners = {},
         b.stage = "Verify" /\ sev2 # "Minor" =>
           \A m \in DOMAIN tr : /\ tr[m].stage = "Implement" => tr[m].by # b.by
                                /\ b.by \notin tr[m].owners,
         PlanInForce(b.stage, sev2, cy, Append(tr, b))
  PROVE  RowsSound(b.stage, sev2, cy, Append(tr, b), ev, {})
<1> DEFINE new == Append(tr, b)
<1>1. /\ RowsTyped(st, sev, cy, tr, ev, ap) /\ LastBlockTells(st, tr) /\ CycleFits(st, cy, tr)
      /\ VerifiersIndependent(sev, tr)
  BY DEF RowsSound
<1>2. tr \in Seq(StageBlocks) /\ cy \in Nat /\ cy <= Len(tr) /\ MaxStages \in Nat
  BY <1>1, CapaAssumption DEF RowsTyped, CycleFits
<1>3. /\ new \in Seq(StageBlocks) /\ Len(new) = Len(tr) + 1 /\ new[Len(tr) + 1] = b
      /\ new # <<>> /\ DOMAIN new = DOMAIN tr \cup {Len(tr) + 1}
      /\ DOMAIN tr = 1..Len(tr) /\ Len(tr) \in Nat
      /\ \A m \in DOMAIN tr : new[m] = tr[m] /\ m \in Nat /\ m <= Len(tr)
  BY <1>2, AppendedBlocks
<1> HIDE DEF new
<1>4. b.stage \in CapaStates /\ b.stage # "Absent"
  BY DEF StageBlocks, CapaStates
<1>5. RowsTyped(b.stage, sev2, cy, new, ev, {})
  BY <1>1, <1>2, <1>3, <1>4 DEF RowsTyped
<1>6. LastBlockTells(b.stage, new)
  BY <1>3, <1>4 DEF LastBlockTells
<1>7. CycleFits(b.stage, cy, new)
  BY <1>2, <1>3 DEF CycleFits
<1>8. OneApproval(b.stage, sev2, {})
  BY DEF OneApproval
<1>9. VerifiersIndependent(sev2, new)
  <2> SUFFICES ASSUME NEW n \in DOMAIN new
               PROVE  /\ new[n].stage # "ActionPlan" => new[n].owners = {}
                      /\ new[n].stage = "Verify" /\ sev2 # "Minor" =>
                           \A m \in 1..n : /\ new[m].stage = "Implement" => new[m].by # new[n].by
                                           /\ new[n].by \notin new[m].owners
    BY DEF VerifiersIndependent
  <2>1. CASE n \in DOMAIN tr
    <3>1. sev2 = sev
      <4>1. tr # <<>>
        BY <1>2, <1>3, <2>1
      <4> QED
        BY <1>1, <4>1 DEF LastBlockTells
    <3>2. \A m \in 1..n : m \in DOMAIN tr
      BY <1>3, <2>1
    <3> QED
      BY <1>1, <1>3, <2>1, <3>1, <3>2 DEF VerifiersIndependent
  <2>2. CASE n = Len(tr) + 1
    <3>1. \A m \in 1..n : m \in DOMAIN tr \/ m = n
      BY <1>3, <2>2
    <3>2. new[n] = b
      BY <1>3, <2>2
    <3> QED
      BY <1>3, <2>2, <3>1, <3>2
  <2> QED
    BY <1>3, <2>1, <2>2
<1>10. ClosedRight(b.stage, cy, new, ev)
  BY DEF ClosedRight
<1> QED
  BY <1>5, <1>6, <1>7, <1>8, <1>9, <1>10 DEF RowsSound, new

-----------------------------------------------------------------------------
(* The handlers.  Each writes the rows of one CAPA.                          *)

LEMMA OneCapaAtATime ==
  ASSUME CapaInv, NEW c \in Capas, NEW st, NEW sev, NEW cy, NEW tr, NEW ap,
         capaState' = [capaState EXCEPT ![c] = st], severity' = [severity EXCEPT ![c] = sev],
         cycle' = [cycle EXCEPT ![c] = cy], trail' = [trail EXCEPT ![c] = tr],
         approvals' = [approvals EXCEPT ![c] = ap],
         evidenced' \subseteq Capas \X (1..MaxStages),
         \A d \in Capas \ {c}, n \in 1..MaxStages : <<d, n>> \in evidenced' <=> <<d, n>> \in evidenced,
         RowsSound(st, sev, cy, tr, Evidenced(c)', ap)
  PROVE  CapaInv'
<1>1. /\ capaState \in [Capas -> CapaStates \cup {"Absent"}] /\ severity \in [Capas -> Severities]
      /\ cycle \in [Capas -> Nat] /\ trail \in [Capas -> Seq(StageBlocks)]
      /\ approvals \in [Capas -> SUBSET PlanApprovals]
  BY DEF CapaInv
<1>2. /\ st \in CapaStates \cup {"Absent"} /\ sev \in Severities /\ cy \in Nat
      /\ tr \in Seq(StageBlocks) /\ ap \in SUBSET PlanApprovals
  BY DEF RowsSound, RowsTyped
<1>3. /\ capaState'[c] = st /\ severity'[c] = sev /\ cycle'[c] = cy /\ trail'[c] = tr
      /\ approvals'[c] = ap
  BY <1>1
<1>4. ASSUME NEW d \in Capas PROVE Sound(d)'
  <2>1. CASE d = c
    BY <1>3, <2>1 DEF Sound
  <2>2. CASE d # c
    <3>1. /\ capaState'[d] = capaState[d] /\ severity'[d] = severity[d] /\ cycle'[d] = cycle[d]
          /\ trail'[d] = trail[d] /\ approvals'[d] = approvals[d]
      BY <1>1, <2>2
    <3>2. Evidenced(d)' = Evidenced(d)
      BY <2>2 DEF Evidenced
    <3>3. Sound(d)
      BY DEF CapaInv
    <3> QED
      BY <3>1, <3>2, <3>3 DEF Sound
  <2> QED
    BY <2>1, <2>2
<1>5. /\ capaState' \in [Capas -> CapaStates \cup {"Absent"}] /\ severity' \in [Capas -> Severities]
      /\ cycle' \in [Capas -> Nat] /\ trail' \in [Capas -> Seq(StageBlocks)]
      /\ approvals' \in [Capas -> SUBSET PlanApprovals]
  BY <1>1, <1>2
<1> QED
  BY <1>4, <1>5 DEF CapaInv

\* A handler that seals block b and leaves no approval open.
LEMMA SealKeepsInv ==
  ASSUME CapaInv, NEW c \in Capas, NEW b \in StageBlocks, Seal(c, b), b.cycle = cycle[c],
         NEW sev \in Severities, severity' = [severity EXCEPT ![c] = sev],
         capaState[c] = "Absent" \/ sev = severity[c],
         cycle' = cycle, evidenced' = evidenced, approvals' = [approvals EXCEPT ![c] = {}],
         b.stage # "Closed", b.stage # "ActionPlan" => b.owners = {},
         b.stage = "Verify" /\ sev # "Minor" =>
           \A m \in DOMAIN trail[c] : /\ trail[c][m].stage = "Implement" => trail[c][m].by # b.by
                                      /\ b.by \notin trail[c][m].owners,
         PlanInForce(b.stage, sev, cycle[c], Append(trail[c], b))
  PROVE  CapaInv'
<1>1. RowsSound(capaState[c], severity[c], cycle[c], trail[c], Evidenced(c), approvals[c])
  BY DEF CapaInv, Sound
<1>2. Len(trail[c]) < MaxStages /\ capaState' = [capaState EXCEPT ![c] = b.stage]
      /\ trail' = [trail EXCEPT ![c] = Append(trail[c], b)]
  BY DEF Seal
<1>3. RowsSound(b.stage, sev, cycle[c], Append(trail[c], b), Evidenced(c), {})
  BY <1>1, <1>2, SealSound
<1>4. Evidenced(c)' = Evidenced(c)
  BY DEF Evidenced
<1>5. cycle' = [cycle EXCEPT ![c] = cycle[c]] /\ evidenced' \subseteq Capas \X (1..MaxStages)
  BY DEF CapaInv
<1>6. RowsSound(b.stage, sev, cycle[c], Append(trail[c], b), Evidenced(c)', {})
  BY <1>3, <1>4
<1> QED
  BY <1>2, <1>5, <1>6, OneCapaAtATime

\* A block sealed now is a row of capa_stage.
LEMMA BlockType ==
  ASSUME CapaInv, NEW c \in Capas, NEW stage \in CapaStates, NEW u \in People \cup {Nobody}
  PROVE  /\ Block(c, stage, u) \in StageBlocks /\ Block(c, stage, u).cycle = cycle[c]
         /\ Block(c, stage, u).stage = stage /\ Block(c, stage, u).owners = {}
         /\ Block(c, stage, u).by = u
<1>1. RowsTyped(capaState[c], severity[c], cycle[c], trail[c], Evidenced(c), approvals[c])
      /\ CycleFits(capaState[c], cycle[c], trail[c])
  BY DEF CapaInv, Sound, RowsSound
<1>2. cycle[c] \in 0..MaxStages
  BY <1>1, CapaAssumption DEF RowsTyped, CycleFits
<1> QED
  BY <1>2 DEF Block, StageBlocks

\* Outside RootCause no approval is open.
LEMMA NoApprovalOutside ==
  ASSUME CapaInv, NEW c \in Capas, capaState[c] # "RootCause"
  PROVE  approvals[c] = {} /\ approvals = [approvals EXCEPT ![c] = {}]
<1>1. approvals[c] = {}
  BY DEF CapaInv, Sound, RowsSound, OneApproval
<1> QED
  BY <1>1 DEF CapaInv

LEMMA RaiseKeepsInv ==
  ASSUME CapaInv, NEW c \in Capas, NEW s \in Severities, RaiseCapa(c, s)
  PROVE  CapaInv'
<1> DEFINE b == Block(c, "Raised", Nobody)
<1>1. b \in StageBlocks /\ b.cycle = cycle[c] /\ b.stage = "Raised" /\ b.owners = {}
  BY BlockType DEF CapaStates
<1>2. /\ Seal(c, b) /\ capaState[c] = "Absent" /\ severity' = [severity EXCEPT ![c] = s]
      /\ cycle' = cycle /\ evidenced' = evidenced /\ approvals' = [approvals EXCEPT ![c] = {}]
  BY NoApprovalOutside DEF RaiseCapa
<1> HIDE DEF b
<1>3. PlanInForce(b.stage, s, cycle[c], Append(trail[c], b))
  BY <1>1 DEF PlanInForce, Carried
<1> QED
  BY <1>1, <1>2, <1>3, SealKeepsInv

LEMMA AdvanceKeepsInv ==
  ASSUME CapaInv, NEW c \in Capas, NEW to \in {"Containment", "RootCause", "Implement"},
         NEW u \in People \cup {Nobody}, Advance(c, to, u)
  PROVE  CapaInv'
<1> DEFINE b == Block(c, to, u)
<1>1. b \in StageBlocks /\ b.cycle = cycle[c] /\ b.stage = to /\ b.owners = {}
  BY BlockType DEF CapaStates
<1>2. to \in AllowedTargets(capaState[c])
  BY DEF Advance
<1>3. /\ capaState[c] # "RootCause" /\ capaState[c] # "Absent"
      /\ to = "Implement" => capaState[c] = "ActionPlan"
  BY <1>2 DEF AllowedTargets, CapaInv, CapaStates
<1>4. severity' = [severity EXCEPT ![c] = severity[c]] /\ severity[c] \in Severities
  BY DEF Advance, CapaInv
<1>5. /\ Seal(c, b) /\ cycle' = cycle /\ evidenced' = evidenced
      /\ approvals' = [approvals EXCEPT ![c] = {}]
  BY <1>3, NoApprovalOutside DEF Advance
<1> HIDE DEF b
<1>6. PlanInForce(b.stage, severity[c], cycle[c], Append(trail[c], b))
  <2>1. CASE to = "Implement"
    <3>1. PlanInForce("ActionPlan", severity[c], cycle[c], trail[c])
      BY <1>3, <2>1 DEF CapaInv, Sound, RowsSound
    <3>2. "ActionPlan" \in Carried /\ trail[c] \in Seq(StageBlocks)
      BY DEF Carried, CapaInv
    <3> QED
      BY <1>1, <2>1, <3>1, <3>2, PlanStaysInForce
  <2>2. CASE to # "Implement"
    BY <1>1, <2>2 DEF PlanInForce, Carried
  <2> QED
    BY <2>1, <2>2
<1> QED
  BY <1>1, <1>4, <1>5, <1>6, SealKeepsInv

LEMMA VerifyKeepsInv ==
  ASSUME CapaInv, NEW c \in Capas, NEW u \in People,
         NEW d \in {"effective", "not_effective"}, NEW relaxed \in BOOLEAN,
         VerifyCapa(c, u, d, relaxed)
  PROVE  CapaInv'
<1> DEFINE b == [Block(c, "Verify", u) EXCEPT !.decision = d]
<1>1. /\ b \in StageBlocks /\ b.cycle = cycle[c] /\ b.stage = "Verify" /\ b.owners = {}
      /\ b.by = u
  <2>1. /\ Block(c, "Verify", u) \in StageBlocks /\ Block(c, "Verify", u).cycle = cycle[c]
        /\ Block(c, "Verify", u).stage = "Verify" /\ Block(c, "Verify", u).owners = {}
        /\ Block(c, "Verify", u).by = u
    BY BlockType DEF CapaStates
  <2> HIDE DEF Block
  <2> QED
    BY <2>1 DEF StageBlocks
<1>2. capaState[c] = "Implement"
  BY DEF VerifyCapa, AllowedTargets, CapaInv, CapaStates
<1>3. severity' = [severity EXCEPT ![c] = severity[c]] /\ severity[c] \in Severities
  BY DEF VerifyCapa, CapaInv
<1>4. /\ Seal(c, b) /\ cycle' = cycle /\ evidenced' = evidenced
      /\ approvals' = [approvals EXCEPT ![c] = {}]
  BY <1>2, NoApprovalOutside DEF VerifyCapa
<1> HIDE DEF b
<1>5. PlanInForce(b.stage, severity[c], cycle[c], Append(trail[c], b))
  <2>1. PlanInForce("Implement", severity[c], cycle[c], trail[c])
    BY <1>2 DEF CapaInv, Sound, RowsSound
  <2>2. "Implement" \in Carried /\ trail[c] \in Seq(StageBlocks)
    BY DEF Carried, CapaInv
  <2> QED
    BY <1>1, <2>1, <2>2, PlanStaysInForce
<1>6. severity[c] # "Minor" =>
        \A m \in DOMAIN trail[c] : /\ trail[c][m].stage = "Implement" => trail[c][m].by # b.by
                                   /\ b.by \notin trail[c][m].owners
  <2> SUFFICES ASSUME severity[c] # "Minor", NEW m \in DOMAIN trail[c]
               PROVE  /\ trail[c][m].stage = "Implement" => trail[c][m].by # u
                      /\ u \notin trail[c][m].owners
    BY <1>1
  <2>1. u \notin Implementers(c)
    BY DEF VerifyCapa, SelfVerifyBlocked
  <2>2. trail[c][m].stage # "ActionPlan" => trail[c][m].owners = {}
    BY DEF CapaInv, Sound, RowsSound, VerifiersIndependent
  <2> QED
    BY <2>1, <2>2 DEF Implementers, Places
<1> QED
  BY <1>1, <1>3, <1>4, <1>5, <1>6, SealKeepsInv

\* A handler that only changes the open approvals of a CAPA in RootCause.
LEMMA ApprovalKeepsInv ==
  ASSUME CapaInv, NEW c \in Capas, NEW ap \in SUBSET PlanApprovals,
         OneApproval(capaState[c], severity[c], ap),
         approvals' = [approvals EXCEPT ![c] = ap],
         UNCHANGED <<capaState, severity, cycle, trail, evidenced>>
  PROVE  CapaInv'
<1>1. RowsSound(capaState[c], severity[c], cycle[c], trail[c], Evidenced(c), approvals[c])
  BY DEF CapaInv, Sound
<1>2. RowsSound(capaState[c], severity[c], cycle[c], trail[c], Evidenced(c), ap)
  BY <1>1 DEF RowsSound, RowsTyped
<1>3. Evidenced(c)' = Evidenced(c)
  BY DEF Evidenced
<1>4. /\ capaState' = [capaState EXCEPT ![c] = capaState[c]]
      /\ severity' = [severity EXCEPT ![c] = severity[c]]
      /\ cycle' = [cycle EXCEPT ![c] = cycle[c]] /\ trail' = [trail EXCEPT ![c] = trail[c]]
      /\ evidenced' \subseteq Capas \X (1..MaxStages)
  BY DEF CapaInv
<1>5. RowsSound(capaState[c], severity[c], cycle[c], trail[c], Evidenced(c)', ap)
  BY <1>2, <1>3
<1>6. \A d \in Capas \ {c}, n \in 1..MaxStages : <<d, n>> \in evidenced' <=> <<d, n>> \in evidenced
  OBVIOUS
<1> QED
  BY ONLY CapaInv, approvals' = [approvals EXCEPT ![c] = ap], <1>4, <1>5, <1>6, OneCapaAtATime

\* The approval a decision finds is the only one, and its CAPA is in RootCause.
LEMMA OpenApproval ==
  ASSUME CapaInv, NEW c \in Capas, NEW a \in approvals[c]
  PROVE  /\ approvals[c] = {a} /\ capaState[c] = "RootCause" /\ ApprovalFits(severity[c], a)
         /\ a \in PlanApprovals
<1>1. OneApproval(capaState[c], severity[c], approvals[c])
  BY DEF CapaInv, Sound, RowsSound
<1>2. \E x : approvals[c] = {x} /\ capaState[c] = "RootCause" /\ ApprovalFits(severity[c], x)
  BY <1>1 DEF OneApproval
<1>3. a \in PlanApprovals
  BY DEF CapaInv
<1> QED
  BY <1>2, <1>3

LEMMA ProposeKeepsInv ==
  ASSUME CapaInv, NEW c \in Capas, NEW H \in SUBSET People, NEW U \in SUBSET People,
         ProposeActionPlan(c, H, U)
  PROVE  CapaInv'
<1> DEFINE a == [tier |-> FirstTier(c), pool |-> H, deciders |-> {}, signers |-> {}, owners |-> U]
<1>1. capaState[c] = "RootCause" /\ approvals[c] = {}
  BY DEF ProposeActionPlan, Proposable, AllowedTargets, CapaInv, CapaStates
<1>2. a \in PlanApprovals /\ ApprovalFits(severity[c], a)
  BY DEF PlanApprovals, Tiers, FirstTier, ApprovalFits
<1>3. approvals' = [approvals EXCEPT ![c] = {a}]
  BY <1>1 DEF ProposeActionPlan, CapaInv
<1> HIDE DEF a
<1>4. OneApproval(capaState[c], severity[c], {a}) /\ {a} \in SUBSET PlanApprovals
  BY <1>1, <1>2 DEF OneApproval
<1> QED
  BY <1>3, <1>4, ApprovalKeepsInv DEF ProposeActionPlan

LEMMA FirstTierKeepsInv ==
  ASSUME CapaInv, NEW c \in Capas, NEW a \in approvals[c], NEW u \in People,
         NEW H \in SUBSET People, ApproveFirstTier(c, a, u, H)
  PROVE  CapaInv'
<1> DEFINE next == [tier |-> "crit_topmgmt", pool |-> H, deciders |-> a.deciders \cup {u},
                    signers |-> a.signers \cup {u}, owners |-> a.owners]
           ap == IF H = {} THEN {} ELSE {next}
<1>1. /\ approvals[c] = {a} /\ capaState[c] = "RootCause" /\ ApprovalFits(severity[c], a)
      /\ a \in PlanApprovals
  BY OpenApproval
<1>2. a.deciders \in SUBSET People /\ a.signers \in SUBSET People /\ a.owners \in SUBSET People
  BY <1>1 DEF PlanApprovals
<1>3. next \in PlanApprovals
  BY <1>2 DEF PlanApprovals, Tiers
<1>4. a.signers = {}
  BY <1>1 DEF ApprovalFits, ApproveFirstTier
<1>5. ApprovalFits(severity[c], next)
  BY <1>4 DEF ApprovalFits
<1> HIDE DEF next
<1>6. OneApproval(capaState[c], severity[c], ap) /\ ap \in SUBSET PlanApprovals
  BY <1>1, <1>3, <1>5 DEF OneApproval
<1>7. approvals' = [approvals EXCEPT ![c] = ap]
  BY <1>1 DEF ApproveFirstTier, Replaced, CapaInv, next
<1> QED
  BY <1>6, <1>7, ApprovalKeepsInv DEF ApproveFirstTier

LEMMA RefuseKeepsInv ==
  ASSUME CapaInv, NEW c \in Capas, NEW a \in approvals[c], NEW u \in People,
         RefusePlan(c, a, u)
  PROVE  CapaInv'
<1> DEFINE next == [a EXCEPT !.pool = @ \ {u}, !.deciders = @ \cup {u}]
           ap == IF a.pool = {u} THEN {} ELSE {next}
<1>1. /\ approvals[c] = {a} /\ capaState[c] = "RootCause" /\ ApprovalFits(severity[c], a)
      /\ a \in PlanApprovals
  BY OpenApproval
<1>2. /\ next \in PlanApprovals /\ next.tier = a.tier /\ next.signers = a.signers
      /\ next.deciders = a.deciders \cup {u}
  BY <1>1 DEF PlanApprovals
<1> HIDE DEF next
<1>3. ApprovalFits(severity[c], next)
  BY <1>1, <1>2 DEF ApprovalFits
<1>4. OneApproval(capaState[c], severity[c], ap) /\ ap \in SUBSET PlanApprovals
  BY <1>1, <1>2, <1>3 DEF OneApproval
<1>5. approvals' = [approvals EXCEPT ![c] = ap]
  BY <1>1 DEF RefusePlan, Replaced, CapaInv, next
<1> QED
  BY <1>4, <1>5, ApprovalKeepsInv DEF RefusePlan

LEMMA TwoSigners ==
  ASSUME NEW w, NEW u, u # w
  PROVE  Cardinality({w} \cup {u}) >= 2
<1>1. IsFiniteSet({w}) /\ Cardinality({w}) = 1
  BY FS_Singleton
<1>2. Cardinality({w} \cup {u}) = Cardinality({w}) + 1
  BY <1>1, FS_AddElement
<1> QED
  BY <1>1, <1>2

LEMMA ApproveKeepsInv ==
  ASSUME CapaInv, NEW c \in Capas, NEW a \in approvals[c], NEW u \in People,
         ApprovePlan(c, a, u)
  PROVE  CapaInv'
<1> DEFINE b == [Block(c, "ActionPlan", u) EXCEPT !.owners = a.owners,
                                                  !.signers = a.signers \cup {u}]
           new == Append(trail[c], b)
<1>1. /\ approvals[c] = {a} /\ capaState[c] = "RootCause" /\ ApprovalFits(severity[c], a)
      /\ a \in PlanApprovals
  BY OpenApproval
<1>2. /\ b \in StageBlocks /\ b.cycle = cycle[c] /\ b.stage = "ActionPlan" /\ b.by = u
      /\ b.signers = a.signers \cup {u}
  <2>1. /\ Block(c, "ActionPlan", u) \in StageBlocks /\ Block(c, "ActionPlan", u).cycle = cycle[c]
        /\ Block(c, "ActionPlan", u).stage = "ActionPlan" /\ Block(c, "ActionPlan", u).by = u
    BY BlockType DEF CapaStates
  <2>2. a.owners \in SUBSET People /\ a.signers \cup {u} \in SUBSET People
    BY <1>1 DEF PlanApprovals
  <2> HIDE DEF Block
  <2> QED
    BY <2>1, <2>2 DEF StageBlocks
<1>3. /\ Seal(c, b) /\ cycle' = cycle /\ evidenced' = evidenced
      /\ approvals' = [approvals EXCEPT ![c] = {}]
  BY <1>1 DEF ApprovePlan, Replaced, CapaInv
<1>4. severity' = [severity EXCEPT ![c] = severity[c]] /\ severity[c] \in Severities
  BY DEF ApprovePlan, CapaInv
<1>5. severity[c] = "Critical" => Cardinality(b.signers) >= 2
  <2> SUFFICES ASSUME severity[c] = "Critical" PROVE Cardinality(b.signers) >= 2
    OBVIOUS
  <2>1. a.tier = "crit_topmgmt"
    BY <1>1 DEF ApprovalFits, ApprovePlan, PlanApprovals, Tiers
  <2>2. PICK w \in a.deciders : a.signers = {w}
    BY <1>1, <2>1 DEF ApprovalFits
  <2>3. u # w
    BY <2>2 DEF ApprovePlan, MayDecidePlan
  <2> HIDE DEF b
  <2>4. b.signers = {w} \cup {u}
    BY <1>2, <2>2
  <2> QED
    BY <2>3, <2>4, TwoSigners
<1>6. trail[c] \in Seq(StageBlocks)
  BY DEF CapaInv
<1> HIDE DEF b
<1>7. PlanInForce(b.stage, severity[c], cycle[c], new)
  <2>1. /\ Len(trail[c]) + 1 \in DOMAIN new /\ new[Len(trail[c]) + 1] = b
        /\ \A m \in DOMAIN new : m <= Len(trail[c]) + 1
    <3>1. /\ DOMAIN new = DOMAIN trail[c] \cup {Len(trail[c]) + 1}
          /\ new[Len(trail[c]) + 1] = b /\ Len(trail[c]) \in Nat
          /\ \A m \in DOMAIN trail[c] : m \in Nat /\ m <= Len(trail[c])
      BY <1>2, <1>6, AppendedBlocks
    <3> HIDE DEF new
    <3> QED
      BY <3>1
  <2> HIDE DEF new
  <2> QED
    BY <1>2, <1>5, <2>1 DEF PlanInForce
<1> QED
  BY <1>2, <1>3, <1>4, <1>7, SealKeepsInv

\* Last names the last place of a stage.
LEMMA LastIs ==
  ASSUME NEW S, S \subseteq Nat, NEW n \in S, \A m \in S : m <= n
  PROVE  Last(S) = n
<1>1. Last(S) \in S /\ \A m \in S : m <= Last(S)
  BY DEF Last
<1>2. Last(S) <= n /\ n <= Last(S) /\ Last(S) \in Nat /\ n \in Nat
  BY <1>1
<1> QED
  BY <1>2

\* In Verify the last block is the verification that Decision reads.
LEMMA VerificationIsLast ==
  ASSUME CapaInv, NEW c \in Capas, capaState[c] \in {"Verify", "Closed"}
  PROVE  /\ Len(trail[c]) \in InCycle(c, "Verify")
         /\ Last(Places(c, "Verify")) = Len(trail[c])
         /\ Last(InCycle(c, "Verify")) = Len(trail[c])
<1> DEFINE n == Len(trail[c])
<1>1. /\ trail[c] \in Seq(StageBlocks) /\ LastBlockTells(capaState[c], trail[c])
      /\ CycleFits(capaState[c], cycle[c], trail[c])
  BY DEF CapaInv, Sound, RowsSound
<1>2. n \in Nat /\ DOMAIN trail[c] = 1..n
  BY <1>1
<1>3. n # 0
  BY <1>1 DEF LastBlockTells
<1>4. n \in DOMAIN trail[c]
  BY <1>2, <1>3
<1>5. trail[c][n].stage = "Verify" /\ trail[c][n].cycle = cycle[c]
  BY <1>1 DEF LastBlockTells, CycleFits, Carried
<1>6. n \in Places(c, "Verify") /\ n \in InCycle(c, "Verify")
  BY <1>4, <1>5 DEF Places, InCycle
<1>7. /\ Places(c, "Verify") \subseteq Nat /\ \A m \in Places(c, "Verify") : m <= n
      /\ InCycle(c, "Verify") \subseteq Places(c, "Verify")
  BY <1>2 DEF Places, InCycle
<1> QED
  BY <1>6, <1>7, LastIs

LEMMA CloseKeepsInv ==
  ASSUME CapaInv, NEW c \in Capas, CloseCapa(c)
  PROVE  CapaInv'
<1> DEFINE tr == trail[c]
<1>1. RowsSound(capaState[c], severity[c], cycle[c], tr, Evidenced(c), approvals[c])
  BY DEF CapaInv, Sound
<1>2. capaState[c] = "Verify" /\ approvals[c] = {}
  BY NoApprovalOutside DEF CloseCapa
<1>3. /\ Len(tr) \in InCycle(c, "Verify") /\ Last(InCycle(c, "Verify")) = Len(tr)
  BY <1>2, VerificationIsLast
<1>4. /\ severity' = [severity EXCEPT ![c] = severity[c]]
      /\ trail' = [trail EXCEPT ![c] = tr] /\ approvals' = [approvals EXCEPT ![c] = {}]
      /\ evidenced' \subseteq Capas \X (1..MaxStages)
  BY <1>2 DEF CloseCapa, CapaInv
<1>5. Evidenced(c)' = Evidenced(c) /\ evidenced' = evidenced
  BY DEF Evidenced, CloseCapa
<1>6. /\ cycle[c] \in Nat /\ cycle[c] < Len(tr) /\ Len(tr) \in Nat
      /\ tr # <<>> /\ tr[Len(tr)].stage = "Verify"
  <2>1. tr \in Seq(StageBlocks) /\ cycle[c] \in Nat
    BY DEF CapaInv
  <2> QED
    BY <1>1, <1>2, <2>1 DEF RowsSound, CycleFits, LastBlockTells, Carried
<1>7. CASE Decision(c) # "effective"
  <2>1. capaState' = [capaState EXCEPT ![c] = "RootCause"]
        /\ cycle' = [cycle EXCEPT ![c] = cycle[c] + 1]
    BY <1>7 DEF CloseCapa, LoopTarget, CapaInv
  <2> HIDE DEF tr
  <2>2. RowsSound("RootCause", severity[c], cycle[c] + 1, tr, Evidenced(c), {})
    BY <1>1, <1>2, <1>6
    DEF RowsSound, RowsTyped, LastBlockTells, CycleFits, PlanInForce, OneApproval, ClosedRight,
        Carried, CapaStates
  <2>3. RowsSound("RootCause", severity[c], cycle[c] + 1, tr, Evidenced(c)', {})
    BY <1>5, <2>2
  <2> QED
    BY <1>4, <1>5, <2>1, <2>3, OneCapaAtATime
<1>8. CASE Decision(c) = "effective"
  <2>1. /\ capaState' = [capaState EXCEPT ![c] = "Closed"]
        /\ cycle' = [cycle EXCEPT ![c] = cycle[c]]
        /\ Evidence(c, "Implement") /\ Evidence(c, "Verify")
    BY <1>8 DEF CloseCapa, CapaInv
  <2>2. tr[Len(tr)].decision = "effective"
    BY <1>3, <1>8 DEF Decision
  <2>3. \A stage \in {"Implement", "Verify"} :
          \E n \in Evidenced(c) : n \in DOMAIN tr /\ tr[n].stage = stage /\ tr[n].cycle = cycle[c]
    BY <2>1 DEF Evidence, InCycle, Places, Evidenced, CapaInv
  <2> HIDE DEF tr
  <2>4. RowsSound("Closed", severity[c], cycle[c], tr, Evidenced(c), {})
    BY <1>1, <1>2, <1>6, <2>2, <2>3
    DEF RowsSound, RowsTyped, LastBlockTells, CycleFits, PlanInForce, OneApproval, ClosedRight,
        Carried, CapaStates
  <2>5. RowsSound("Closed", severity[c], cycle[c], tr, Evidenced(c)', {})
    BY <1>5, <2>4
  <2> QED
    BY <1>4, <1>5, <2>1, <2>5, OneCapaAtATime
<1> QED
  BY <1>7, <1>8

\* A handler that only changes the evidence links of one CAPA.
LEMMA LinksKeepInv ==
  ASSUME CapaInv, NEW c \in Capas, NEW n \in DOMAIN trail[c],
         \/ evidenced' = evidenced \cup {<<c, n>>}
         \/ evidenced' = evidenced \ {<<c, n>>} /\ capaState[c] # "Closed",
         UNCHANGED <<capaState, severity, cycle, trail, approvals>>
  PROVE  CapaInv'
<1>1. RowsSound(capaState[c], severity[c], cycle[c], trail[c], Evidenced(c), approvals[c])
  BY DEF CapaInv, Sound
<1>2. n \in 1..MaxStages
  <2>1. Len(trail[c]) \in Nat /\ n \in 1..Len(trail[c]) /\ Len(trail[c]) <= MaxStages
    BY <1>1 DEF RowsSound, RowsTyped
  <2> QED
    BY <2>1, CapaAssumption
<1>3. evidenced' \subseteq Capas \X (1..MaxStages)
  BY <1>2 DEF CapaInv
<1>4. \A d \in Capas \ {c}, m \in 1..MaxStages : <<d, m>> \in evidenced' <=> <<d, m>> \in evidenced
  OBVIOUS
<1>5. Evidenced(c)' \subseteq 1..MaxStages
      /\ (capaState[c] = "Closed" => Evidenced(c) \subseteq Evidenced(c)')
  BY DEF Evidenced
<1> DEFINE ev == Evidenced(c)'
<1> HIDE DEF ev
<1>6. RowsSound(capaState[c], severity[c], cycle[c], trail[c], ev, approvals[c])
  <2>1. ev \subseteq 1..MaxStages /\ (capaState[c] = "Closed" => Evidenced(c) \subseteq ev)
    BY <1>5 DEF ev
  <2>2. RowsTyped(capaState[c], severity[c], cycle[c], trail[c], ev, approvals[c])
    BY <1>1, <2>1 DEF RowsSound, RowsTyped
  <2>3. ClosedRight(capaState[c], cycle[c], trail[c], ev)
    BY <1>1, <2>1 DEF RowsSound, ClosedRight
  <2> QED
    BY <1>1, <2>2, <2>3 DEF RowsSound
<1>7. RowsSound(capaState[c], severity[c], cycle[c], trail[c], Evidenced(c)', approvals[c])
  BY <1>6 DEF ev
<1>8. /\ capaState' = [capaState EXCEPT ![c] = capaState[c]]
      /\ severity' = [severity EXCEPT ![c] = severity[c]]
      /\ cycle' = [cycle EXCEPT ![c] = cycle[c]] /\ trail' = [trail EXCEPT ![c] = trail[c]]
      /\ approvals' = [approvals EXCEPT ![c] = approvals[c]]
  BY DEF CapaInv
<1> QED
  BY ONLY CapaInv, <1>3, <1>4, <1>7, <1>8, OneCapaAtATime

LEMMA CapaInvInit == CapaInit => CapaInv
<1> SUFFICES ASSUME CapaInit PROVE CapaInv
  OBVIOUS
<1>1. ASSUME NEW c \in Capas PROVE Sound(c)
  <2>1. /\ capaState[c] = "Absent" /\ severity[c] = "Minor" /\ cycle[c] = 0
        /\ trail[c] = <<>> /\ approvals[c] = {} /\ Evidenced(c) \subseteq 1..MaxStages
    BY DEF CapaInit, Evidenced
  <2>2. <<>> \in Seq(StageBlocks) /\ Len(<<>>) = 0 /\ DOMAIN <<>> = {}
    OBVIOUS
  <2> QED
    BY <2>1, <2>2, CapaAssumption
    DEF Sound, RowsSound, RowsTyped, LastBlockTells, CycleFits, PlanInForce, OneApproval,
        VerifiersIndependent, ClosedRight, Carried, Severities
<1> QED
  BY <1>1 DEF CapaInit, CapaInv, Severities

LEMMA CapaInvNext == CapaInv /\ [CapaNext]_capaVars => CapaInv'
<1> SUFFICES ASSUME CapaInv, [CapaNext]_capaVars PROVE CapaInv'
  OBVIOUS
<1>1. ASSUME NEW c \in Capas, NEW s \in Severities, RaiseCapa(c, s) PROVE CapaInv'
  BY <1>1, RaiseKeepsInv
<1>2. ASSUME NEW c \in Capas, AdvanceToContainment(c) \/ AdvanceToRootCause(c) PROVE CapaInv'
  BY <1>2, AdvanceKeepsInv DEF AdvanceToContainment, AdvanceToRootCause
<1>3. ASSUME NEW c \in Capas, CloseCapa(c) PROVE CapaInv'
  BY <1>3, CloseKeepsInv
<1>4. ASSUME NEW c \in Capas, NEW H \in SUBSET People, NEW U \in SUBSET People,
             ProposeActionPlan(c, H, U)
      PROVE  CapaInv'
  BY <1>4, ProposeKeepsInv
<1>5. ASSUME NEW c \in Capas, NEW a \in approvals[c], NEW u \in People,
             \/ \E H \in SUBSET People : ApproveFirstTier(c, a, u, H)
             \/ ApprovePlan(c, a, u) \/ RefusePlan(c, a, u)
      PROVE  CapaInv'
  BY <1>5, FirstTierKeepsInv, ApproveKeepsInv, RefuseKeepsInv
<1>6. ASSUME NEW c \in Capas, NEW u \in People, AdvanceToImplement(c, u) PROVE CapaInv'
  BY <1>6, AdvanceKeepsInv DEF AdvanceToImplement
<1>7. ASSUME NEW c \in Capas, NEW u \in People, NEW d \in {"effective", "not_effective"},
             NEW relaxed \in BOOLEAN, VerifyCapa(c, u, d, relaxed)
      PROVE  CapaInv'
  BY <1>7, VerifyKeepsInv
<1>8. ASSUME NEW c \in Capas, NEW n \in DOMAIN trail[c], LinkEvidence(c, n) \/ UnlinkEvidence(c, n)
      PROVE  CapaInv'
  BY <1>8, LinksKeepInv DEF LinkEvidence, UnlinkEvidence, Frozen
<1>9. CASE UNCHANGED capaVars
  BY <1>9 DEF capaVars, CapaInv, Sound, Evidenced
<1> QED
  BY <1>1, <1>2, <1>3, <1>4, <1>5, <1>6, <1>7, <1>8, <1>9 DEF CapaNext

\* A bounded, nonempty set of places has a last one.
LEMMA HasLast ==
  ASSUME NEW N \in Nat, NEW S, S \subseteq 1..N, S # {}
  PROVE  Last(S) \in S /\ \A m \in S : m <= Last(S)
<1> DEFINE B == {k \in Nat : \A m \in S : m <= k}
<1>1. N \in B /\ B \subseteq Nat
  OBVIOUS
<1>2. PICK k \in B : \A j \in B : ~ (<<j, k>> \in OpToRel(<, Nat))
  <2> HIDE DEF B
  <2> QED
    BY <1>1, WFMin, NatLessThanWellFounded, Zenon
<1>3. k \in Nat /\ \A m \in S : m <= k
  OBVIOUS
<1>4. k \in S
  <2> SUFFICES ASSUME k \notin S PROVE FALSE
    OBVIOUS
  <2>1. k # 0
    <3>1. PICK m \in S : TRUE
      OBVIOUS
    <3>2. m \in 1..N /\ m <= k
      BY <1>3
    <3> QED
      BY <1>3, <3>2
  <2>2. PICK j \in Nat : j = k - 1
    BY <1>3, <2>1
  <2>3. j < k /\ <<j, k>> \in Nat \X Nat
    BY <1>3, <2>2
  <2>4. j \in B
    <3>1. \A m \in S : m <= j
      <4> SUFFICES ASSUME NEW m \in S PROVE m <= j
        OBVIOUS
      <4>1. m \in Nat /\ m <= k /\ m # k
        BY <1>3
      <4> QED
        BY <1>3, <2>2, <4>1
    <3> QED
      BY <3>1
  <2>5. <<j, k>> \in OpToRel(<, Nat)
    BY <2>3, Zenon DEF OpToRel
  <2> QED
    BY <1>2, <2>4, <2>5
<1>5. \E n \in S : \A m \in S : m <= n
  BY <1>3, <1>4
<1> QED
  BY <1>5 DEF Last

LEMMA CapaInvIsEnough == CapaInv => CapaIsSound
<1> SUFFICES ASSUME CapaInv PROVE CapaIsSound
  OBVIOUS
<1>1. ASSUME NEW c \in Capas
      PROVE  /\ RowsSound(capaState[c], severity[c], cycle[c], trail[c], Evidenced(c), approvals[c])
             /\ Len(trail[c]) \in Nat /\ DOMAIN trail[c] = 1..Len(trail[c])
             /\ Len(trail[c]) <= MaxStages
  BY DEF CapaInv, Sound, RowsSound, RowsTyped
<1>2. CapaTypeOK
  <2>1. \A c \in Capas : cycle[c] \in 0..MaxStages
    BY <1>1, CapaAssumption DEF RowsSound, RowsTyped, CycleFits
  <2>2. cycle \in [Capas -> 0..MaxStages]
    BY <2>1 DEF CapaInv
  <2>3. \A c \in Capas : \A n \in DOMAIN trail[c] : trail[c][n] \in StageBlocks
    BY DEF CapaInv
  <2>4. ASSUME NEW c \in Capas, trail[c] # <<>>
        PROVE  LET last == trail[c][Len(trail[c])].stage
               IN  last = capaState[c] \/ (last = "Verify" /\ capaState[c] \in {"Closed", "RootCause"})
    <3>1. LastBlockTells(capaState[c], trail[c])
      BY <1>1 DEF RowsSound
    <3> QED
      BY <2>4, <3>1 DEF LastBlockTells
  <2> QED
    BY <2>2, <2>3, <2>4 DEF CapaTypeOK, CapaInv
<1>3. PlanWasApproved
  <2> SUFFICES ASSUME NEW c \in Capas, capaState[c] \in Carried
               PROVE  LET n == LastPlace(c, "ActionPlan")
                      IN  /\ n > LastPlace(c, "RootCause") /\ trail[c][n].cycle = cycle[c]
                          /\ trail[c][n].by \in trail[c][n].signers
                          /\ severity[c] = "Critical" => Cardinality(trail[c][n].signers) >= 2
    BY DEF PlanWasApproved, Carried
  <2>1. PlanInForce(capaState[c], severity[c], cycle[c], trail[c])
    BY <1>1 DEF RowsSound
  <2>2. PICK n \in DOMAIN trail[c] :
          /\ trail[c][n].stage = "ActionPlan" /\ trail[c][n].cycle = cycle[c]
          /\ trail[c][n].by \in trail[c][n].signers
          /\ \A m \in DOMAIN trail[c] : trail[c][m].stage \in {"ActionPlan", "RootCause"} => m <= n
          /\ severity[c] = "Critical" => Cardinality(trail[c][n].signers) >= 2
    BY <2>1 DEF PlanInForce
  <2>3. n \in Nat /\ n > 0
    BY <1>1
  <2>4. LastPlace(c, "ActionPlan") = n
    <3>1. n \in Places(c, "ActionPlan") /\ Places(c, "ActionPlan") \subseteq Nat
      BY <1>1, <2>2 DEF Places
    <3>2. \A m \in Places(c, "ActionPlan") : m <= n
      BY <2>2 DEF Places
    <3> QED
      BY <3>1, <3>2, LastIs DEF LastPlace
  <2>5. n > LastPlace(c, "RootCause")
    <3>1. CASE Places(c, "RootCause") = {}
      BY <2>3, <3>1 DEF LastPlace
    <3>2. CASE Places(c, "RootCause") # {}
      <4>1. Places(c, "RootCause") \subseteq 1..Len(trail[c])
        BY <1>1 DEF Places
      <4>2. Last(Places(c, "RootCause")) \in Places(c, "RootCause")
        BY <1>1, <3>2, <4>1, HasLast
      <4> DEFINE k == Last(Places(c, "RootCause"))
      <4>3. k \in DOMAIN trail[c] /\ trail[c][k].stage = "RootCause"
        BY <4>2 DEF Places
      <4> HIDE DEF k
      <4>4. k <= n /\ k # n /\ k \in Nat
        BY <1>1, <2>2, <4>3
      <4>5. k < n
        BY <2>3, <4>4
      <4> QED
        BY <3>2, <4>5 DEF k, LastPlace
    <3> QED
      BY <3>1, <3>2
  <2> QED
    BY <2>2, <2>4, <2>5
<1>4. ApprovalBelongsToRootCause
  <2> SUFFICES ASSUME NEW c \in Capas, approvals[c] # {}
               PROVE  capaState[c] = "RootCause" /\ Cardinality(approvals[c]) = 1
    BY DEF ApprovalBelongsToRootCause
  <2>1. PICK a : approvals[c] = {a} /\ capaState[c] = "RootCause"
    BY <1>1 DEF RowsSound, OneApproval
  <2> QED
    BY <2>1, FS_Singleton
<1>5. ClosedWasVerified
  <2> SUFFICES ASSUME NEW c \in Capas, capaState[c] = "Closed"
               PROVE  LET n == LastPlace(c, "Verify")
                          before == 1..n
                      IN  /\ trail[c][n].cycle = cycle[c] /\ trail[c][n].decision = "effective"
                          /\ severity[c] # "Minor" =>
                               \A m \in before :
                                 /\ trail[c][m].stage = "Implement" => trail[c][m].by # trail[c][n].by
                                 /\ trail[c][n].by \notin trail[c][m].owners
                          /\ Evidence(c, "Implement") /\ Evidence(c, "Verify")
    BY DEF ClosedWasVerified
  <2> DEFINE n == Len(trail[c])
  <2>1. n \in InCycle(c, "Verify") /\ Last(Places(c, "Verify")) = n
    BY VerificationIsLast
  <2>2. LastPlace(c, "Verify") = n
    BY <2>1 DEF LastPlace, InCycle
  <2>3. n \in DOMAIN trail[c] /\ trail[c][n].stage = "Verify" /\ trail[c][n].cycle = cycle[c]
    BY <2>1 DEF InCycle, Places
  <2>4. /\ VerifiersIndependent(severity[c], trail[c])
        /\ ClosedRight(capaState[c], cycle[c], trail[c], Evidenced(c))
    BY <1>1 DEF RowsSound
  <2>5. Evidence(c, "Implement") /\ Evidence(c, "Verify") /\ trail[c][n].decision = "effective"
    BY <2>4 DEF ClosedRight, Evidence, InCycle, Places, Evidenced
  <2>6. severity[c] # "Minor" =>
          \A m \in 1..n : /\ trail[c][m].stage = "Implement" => trail[c][m].by # trail[c][n].by
                          /\ trail[c][n].by \notin trail[c][m].owners
    BY <2>3, <2>4 DEF VerifiersIndependent
  <2> QED
    BY <2>2, <2>3, <2>5, <2>6
<1> QED
  BY <1>2, <1>3, <1>4, <1>5 DEF CapaIsSound

-----------------------------------------------------------------------------
\* From proposal to closure, through any number of effectiveness loops, plans and changes of
\* role: a CAPA is carried out on a plan approved for its cycle after the latest root cause
\* (by two different people if it is Critical), waits for one approval at most, and is closed
\* on evidence and on an effective verification by somebody independent (services/capa).
THEOREM CapasAreSound == CapaSpec => []CapaIsSound
<1>1. CapaInit => CapaInv
  BY CapaInvInit
<1>2. CapaInv /\ [CapaNext]_capaVars => CapaInv'
  BY CapaInvNext
<1>3. CapaInv => CapaIsSound
  BY CapaInvIsEnough
<1> QED
  BY <1>1, <1>2, <1>3, PTL DEF CapaSpec

-----------------------------------------------------------------------------
(* Internal audits.                                                          *)
FindingRows ==
  [type : FindingTypes, superseded : Nat, capa : {"none", "open", "Closed"}]

AuditInvariant ==
  /\ auditState \in 1..Len(Chain) /\ findings \in Seq(FindingRows)
  /\ ClosedAuditIsCorrected

LEMMA ChainLength == Len(Chain) = 7 /\ \A k \in 1..7 : Chain[k] = "Closed" <=> k = 7
  BY DEF Chain

LEMMA FindingStep == AuditInvariant /\ [AuditsNext]_internalAuditVars => AuditInvariant'
<1> SUFFICES ASSUME AuditInvariant, [AuditsNext]_internalAuditVars PROVE AuditInvariant'
  OBVIOUS
<1>1. auditState \in 1..7 /\ findings \in Seq(FindingRows) /\ (IsClosed <=> auditState = 7)
  BY ChainLength DEF AuditInvariant, IsClosed
<1>2. ASSUME NEW type \in FindingTypes PROVE NewFinding(type) \in FindingRows
  BY DEF NewFinding, FindingRows
<1>3. ASSUME NEW type \in FindingTypes, CreateFinding(type) PROVE AuditInvariant'
  <2>1. findings' \in Seq(FindingRows) /\ auditState' = auditState /\ ~IsClosed
    BY <1>1, <1>2, <1>3 DEF CreateFinding, Addable
  <2> QED
    BY <2>1 DEF AuditInvariant, ClosedAuditIsCorrected, IsClosed
<1>4. ASSUME NEW n \in DOMAIN findings, NEW type \in FindingTypes, CorrectFinding(n, type)
      PROVE  AuditInvariant'
  <2>1. auditState' = auditState /\ ~IsClosed
    BY <1>4 DEF CorrectFinding, Addable
  <2>2. [findings EXCEPT ![n].superseded = Len(findings) + 1] \in Seq(FindingRows)
    <3>1. Len(findings) + 1 \in Nat /\ findings[n] \in FindingRows
      BY <1>1
    <3>2. [findings[n] EXCEPT !.superseded = Len(findings) + 1] \in FindingRows
      BY <3>1 DEF FindingRows
    <3> QED
      BY <1>1, <3>2
  <2>3. findings' \in Seq(FindingRows)
    BY <1>2, <1>4, <2>2 DEF CorrectFinding
  <2> QED
    BY <2>1, <2>3 DEF AuditInvariant, ClosedAuditIsCorrected, IsClosed
<1>5. ASSUME NEW n \in DOMAIN findings, NEW row \in FindingRows,
             row.type = findings[n].type,
             row.superseded = findings[n].superseded \/ row.superseded # 0,
             row.capa = findings[n].capa \/ row.capa = "Closed",
             findings' = [findings EXCEPT ![n] = row], auditState' = auditState
      PROVE  AuditInvariant'
  <2>1. /\ findings' \in Seq(FindingRows) /\ DOMAIN findings' = DOMAIN findings
        /\ \A m \in DOMAIN findings : findings'[m] = IF m = n THEN row ELSE findings[m]
    BY <1>1, <1>5
  <2>2. ASSUME IsClosed', NEW m \in DOMAIN findings
        PROVE  ~(findings'[m].type = "NC" /\ Live(m)' /\ findings'[m].capa # "Closed")
    <3>1. ~(findings[m].type = "NC" /\ findings[m].superseded = 0 /\ findings[m].capa # "Closed")
      BY <1>5, <2>2 DEF AuditInvariant, ClosedAuditIsCorrected, IsClosed, Live
    <3> QED
      BY <1>5, <2>1, <3>1 DEF Live
  <2> QED
    BY <1>5, <2>1, <2>2 DEF AuditInvariant, ClosedAuditIsCorrected
<1>6. ASSUME NEW n \in DOMAIN findings, CorrectRecord(n) \/ CloseFindingCapa(n)
      PROVE  AuditInvariant'
  <2>1. findings[n] \in FindingRows
    BY <1>1
  <2>2. CASE CorrectRecord(n)
    <3> DEFINE row == [findings[n] EXCEPT !.superseded = NoFinding]
    <3>1. /\ row \in FindingRows /\ row.type = findings[n].type /\ row.superseded # 0
          /\ row.capa = findings[n].capa
      BY <2>1, AuditAssumption DEF FindingRows, NoFinding
    <3>2. findings' = [findings EXCEPT ![n] = row] /\ auditState' = auditState
      BY <2>2 DEF CorrectRecord
    <3> HIDE DEF row
    <3> QED
      BY <1>5, <3>1, <3>2
  <2>3. CASE CloseFindingCapa(n)
    <3> DEFINE row == [findings[n] EXCEPT !.capa = "Closed"]
    <3>1. /\ row \in FindingRows /\ row.type = findings[n].type
          /\ row.superseded = findings[n].superseded /\ row.capa = "Closed"
      BY <2>1 DEF FindingRows
    <3>2. findings' = [findings EXCEPT ![n] = row] /\ auditState' = auditState
      BY <2>3 DEF CloseFindingCapa
    <3> HIDE DEF row
    <3> QED
      BY <1>5, <3>1, <3>2
  <2> QED
    BY <1>6, <2>2, <2>3
<1>7. CASE AdvanceAudit
  <2>1. /\ auditState < 7 /\ auditState' = auditState + 1 /\ findings' = findings
        /\ Chain[auditState + 1] = "Closed" => \A n \in DOMAIN findings : ~BlocksClose(n)
    BY <1>7, ChainLength DEF AdvanceAudit
  <2>2. auditState' \in 1..7
    BY <1>1, <2>1
  <2>3. ClosedAuditIsCorrected'
    BY <2>1 DEF ClosedAuditIsCorrected, IsClosed, BlocksClose, Live
  <2> QED
    BY <1>1, <2>1, <2>2, <2>3, ChainLength DEF AuditInvariant
<1>8. CASE UNCHANGED internalAuditVars
  BY <1>8 DEF internalAuditVars, AuditInvariant, ClosedAuditIsCorrected, IsClosed, Live
<1> QED
  BY <1>3, <1>4, <1>6, <1>7, <1>8 DEF AuditsNext

\* A closed audit never has a live nonconformity whose CAPA is open, however many findings it
\* has and whatever is corrected, retyped or closed before the gate and after it
\* (services/audits: advance_audit, correct_finding and the records API).
THEOREM ClosedAuditStaysCorrected == AuditsSpec => []ClosedAuditIsCorrected
<1>1. AuditsInit => AuditInvariant
  <2> SUFFICES ASSUME AuditsInit PROVE AuditInvariant
    OBVIOUS
  <2>1. auditState = 1 /\ findings = <<>> /\ ~IsClosed
    BY ChainLength DEF AuditsInit, IsClosed
  <2> QED
    BY <2>1, ChainLength DEF AuditInvariant, ClosedAuditIsCorrected
<1>2. AuditInvariant => ClosedAuditIsCorrected
  BY DEF AuditInvariant
<1> QED
  BY <1>1, <1>2, FindingStep, PTL DEF AuditsSpec
=============================================================================
