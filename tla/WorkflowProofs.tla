-------------------------- MODULE WorkflowProofs ---------------------------
(***************************************************************************)
(* Proofs about the workflow engine, for any stage graph, pool and quorum,  *)
(* and about the change requests that drive it.                             *)
(*                                                                         *)
(* A stage's ending is counted from its task rows, so the argument is that  *)
(* the rows of a stage are the rows of one visit: in a graph whose task      *)
(* stages do not lead back to themselves an instance only moves forward,     *)
(* hence a stage it enters has no rows yet, and the rows of a stage it left  *)
(* are never touched again.                                                 *)
(***************************************************************************)
EXTENDS ChangeRequest, TLAPS, FiniteSetTheorems, WellFoundedInduction

(***************************************************************************)
(* The quorum evaluation.                                                  *)
(***************************************************************************)
LEMMA VerdictType ==
  ASSUME NEW spec, NEW a, NEW r, NEW n
  PROVE  QuorumState(spec, a, r, n) \in Verdicts
BY DEF QuorumState, Verdict, Verdicts

\* A stage all of whose tasks are decided is never left waiting: whatever the quorum,
\* quorum_state answers MET or FAILED once approvals and rejections exhaust the pool.
THEOREM ExhaustedStageIsDecided ==
  ASSUME NEW spec \in Quora, NEW a \in Nat, NEW r \in Nat, a + r > 0
  PROVE  QuorumState(spec, a, r, a + r) \in {"MET", "FAILED"}
<1>1. Undecided(a, r, a + r) = 0
  BY DEF Undecided
<1>2. CASE spec.type = "ALL"
  BY <1>2 DEF QuorumState, Verdict
<1>3. CASE spec.type = "N_OF_M"
  <2>1. spec.n \in Nat
    BY <1>3 DEF Quora
  <2> QED
    BY <1>1, <1>3, <2>1 DEF QuorumState, Verdict
<1>4. CASE spec.type = "PERCENT"
  <2>1. spec.n * (a + r) \in Nat
    BY <1>4 DEF Quora
  <2> QED
    BY <1>1, <1>4, <2>1 DEF QuorumState, Verdict
<1>5. CASE spec.type = "ANY"
  BY <1>1, <1>5 DEF QuorumState, Verdict
<1> QED
  BY <1>2, <1>3, <1>4, <1>5 DEF Quora

\* quorum_state answers MET exactly when the approvals given are what the quorum asks
\* for, so that no stage is passed short of its quorum or held open beyond it.
THEOREM MetMeansEnough ==
  ASSUME NEW spec \in Quora, NEW a \in Nat, NEW r \in Nat, NEW n \in Nat,
         a + r <= n, n > 0
  PROVE  QuorumState(spec, a, r, n) = "MET" <=> Enough(spec, a, n)
<1>1. CASE spec.type = "ALL"
  BY <1>1 DEF QuorumState, Verdict, Enough
<1>2. CASE spec.type = "N_OF_M"
  BY <1>2 DEF QuorumState, Verdict, Enough
<1>3. CASE spec.type = "PERCENT"
  <2>1. QuorumState(spec, a, r, n) = "MET" <=> a * 100 >= spec.n * n
    BY <1>3 DEF QuorumState, Verdict
  <2>2. a * 100 = 100 * a
    OBVIOUS
  <2> QED
    BY <1>3, <2>1, <2>2 DEF Enough
<1>4. CASE spec.type = "ANY"
  BY <1>4 DEF QuorumState, Verdict, Enough
<1> QED
  BY <1>1, <1>2, <1>3, <1>4 DEF Quora

\* quorum_state fails a stage early only when it is lost: no further decisions of the
\* tasks still open could give the approvals the quorum asks for.
THEOREM FailedMeansHopeless ==
  ASSUME NEW spec \in Quora, NEW a \in Nat, NEW r \in Nat, NEW n \in Nat,
         a + r <= n, n > 0, QuorumState(spec, a, r, n) = "FAILED"
  PROVE  ~Enough(spec, a + (n - (a + r)), n)
<1>0. Undecided(a, r, n) = n - (a + r) /\ Undecided(a, r, n) \in Nat
  BY DEF Undecided
<1>1. CASE spec.type = "ALL"
  BY <1>0, <1>1 DEF QuorumState, Verdict, Enough
<1>2. CASE spec.type = "N_OF_M"
  <2>1. spec.n \in Nat
    BY <1>2 DEF Quora
  <2> QED
    BY <1>0, <1>2, <2>1 DEF QuorumState, Verdict, Enough
<1>3. CASE spec.type = "PERCENT"
  <2>1. spec.n * n \in Nat
    BY <1>3 DEF Quora
  <2>2. (a + Undecided(a, r, n)) * 100 < spec.n * n
    BY <1>3 DEF QuorumState, Verdict
  <2>3. 100 * (a + (n - (a + r))) < spec.n * n
    BY <1>0, <2>1, <2>2
  <2>4. ~(100 * (a + (n - (a + r))) >= spec.n * n)
    BY <2>1, <2>3
  <2> QED
    BY <1>3, <2>4 DEF Enough
<1>4. CASE spec.type = "ANY"
  BY <1>0, <1>4 DEF QuorumState, Verdict, Enough
<1> QED
  BY <1>1, <1>2, <1>3, <1>4 DEF Quora

(***************************************************************************)
(* What a decision computes.                                               *)
(***************************************************************************)
LEMMA StageNames ==
  /\ Stages \cap Terminals = {}
  /\ "Absent" \notin Targets
  /\ \A k \in {"COMPLETED", "REJECTED", "NEEDS_ATTENTION", "CANCELLED"} : k \in Terminals
BY ConstantsAssumption DEF Targets, Terminals

LEMMA EnterStageType ==
  ASSUME NEW key, NEW c
  PROVE  EnterStage(key, c) \in Targets
BY DEF EnterStage, Landing, Targets, Terminals

LEMMA RejectTargetType ==
  ASSUME NEW s \in Stages
  PROVE  TransitionTarget(StageDef[s].reject, "REJECTED") \in Terminals
BY ConstantsAssumption DEF TransitionTarget, Terminals

LEMMA StageVerdictType ==
  ASSUME NEW f, NEW i, NEW s
  PROVE  StageVerdict(f, i, s) \in {"PENDING", "MET", "FAILED", "unresolvable_quorum"}
<1>1. QuorumState(QuorumOf(s, context[i]), Cardinality(Approvers(f, i, s)),
                  Cardinality(Rejects(f, i, s)), Cardinality(StageTasks(f, i, s))) \in Verdicts
  BY VerdictType
<1> QED
  BY <1>1 DEF StageVerdict, Verdicts

LEMMA MaterializeType ==
  ASSUME NEW f \in [Tasks -> TaskRecords], NEW i, NEW s, NEW c
  PROVE  MaterializeStage(f, i, s, c) \in [Tasks -> TaskRecords]
<1>1. NoTask \in TaskRecords /\ [NoTask EXCEPT !.state = "PENDING"] \in TaskRecords
  BY DEF NoTask, TaskRecords
<1> QED
  BY <1>1 DEF MaterializeStage

LEMMA RetireType ==
  ASSUME NEW f \in [Tasks -> TaskRecords], NEW i, NEW s,
         NEW marker \in {"quorum_skip", "failed_stage_skip"}
  PROVE  /\ Retire(f, i, s, marker) \in [Tasks -> TaskRecords]
         /\ \A t \in Tasks : Retire(f, i, s, marker)[t].state = "PENDING" =>
               f[t].state = "PENDING" /\ ~(t[1] = i /\ t[2] = s)
<1>1. ASSUME NEW t \in Tasks
      PROVE  [f[t] EXCEPT !.state = "SKIPPED", !.marker = marker] \in TaskRecords
  BY DEF TaskRecords
<1>2. ASSUME NEW t \in Tasks
      PROVE  [f[t] EXCEPT !.state = "SKIPPED", !.marker = marker].state = "SKIPPED"
  BY DEF TaskRecords
<1> QED
  BY <1>1, <1>2 DEF Retire

LEMMA WithOutcomeType ==
  ASSUME task \in [Tasks -> TaskRecords], NEW i \in Instances, NEW s \in Stages,
         NEW u \in Users, NEW actor \in Users, NEW o \in {"approve", "reject"}
  PROVE  /\ WithOutcome(i, s, u, actor, o) \in [Tasks -> TaskRecords]
         /\ \A t \in Tasks : WithOutcome(i, s, u, actor, o)[t].state = "PENDING" =>
               task[t].state = "PENDING"
<1>1. <<i, s, u>> \in Tasks
  BY DEF Tasks
<1>2. [state |-> "DONE", outcome |-> o, by |-> actor, marker |-> "none"] \in TaskRecords
  BY DEF TaskRecords
<1> QED
  BY <1>1, <1>2 DEF WithOutcome

(* The tasks of instance i that are open in f are tasks of its state st.     *)
OpenIn(f, i, st) ==
  \A s \in Stages, u \in Users : f[<<i, s, u>>].state = "PENDING" => s = st

(* What AfterVerdict leaves behind, given rows whose open tasks are in the   *)
(* stage being decided.                                                     *)
LEMMA AfterVerdictEffect ==
  ASSUME EngineTypeOK, NEW f \in [Tasks -> TaskRecords], NEW i \in Instances,
         NEW s \in Stages, instState[i] = s, OpenIn(f, i, s),
         NEW v \in {"PENDING", "MET", "FAILED", "unresolvable_quorum"}
  PROVE  LET after == AfterVerdict(i, s, f, v)
         IN  /\ after.state \in Targets
             /\ after.task \in [Tasks -> TaskRecords]
             /\ OpenIn(after.task, i, after.state)
             /\ \A t \in Tasks : t[1] # i => after.task[t] = f[t]
<1> DEFINE after == AfterVerdict(i, s, f, v)
<1>1. CASE v = "MET"
  <2> DEFINE to == EnterStage(TransitionTarget(StageDef[s].success, "COMPLETED"), context[i])
             g  == Retire(f, i, s, "quorum_skip")
  <2>1. after = [state |-> to, task |-> MaterializeStage(g, i, to, context[i])]
    BY <1>1 DEF AfterVerdict, Advanced
  <2>2. to \in Targets
    BY EnterStageType
  <2>3. /\ g \in [Tasks -> TaskRecords]
        /\ \A t \in Tasks : g[t].state = "PENDING" =>
              f[t].state = "PENDING" /\ ~(t[1] = i /\ t[2] = s)
    BY RetireType
  <2>4. after.task \in [Tasks -> TaskRecords]
    BY <2>1, <2>3, MaterializeType
  <2>5. OpenIn(after.task, i, to)
    <3> SUFFICES ASSUME NEW s2 \in Stages, NEW u \in Users,
                        MaterializeStage(g, i, to, context[i])[<<i, s2, u>>].state = "PENDING"
                 PROVE  s2 = to
      BY <2>1 DEF OpenIn
    <3>1. <<i, s2, u>> \in Tasks
      BY DEF Tasks
    <3>2. g[<<i, s2, u>>].state # "PENDING"
      BY <2>3, <3>1 DEF OpenIn
    <3> QED
      BY <3>1, <3>2 DEF MaterializeStage
  <2>6. \A t \in Tasks : t[1] # i => after.task[t] = f[t]
    <3>1. \A t \in Tasks : t[1] # i => g[t] = f[t]
      BY DEF Retire
    <3>2. \A t \in Tasks : t[1] # i => MaterializeStage(g, i, to, context[i])[t] = g[t]
      BY DEF MaterializeStage
    <3> HIDE DEF g, to
    <3> QED
      BY <2>1, <3>1, <3>2
  <2> HIDE DEF to, g
  <2> QED
    BY <2>1, <2>2, <2>4, <2>5, <2>6
<1>2. ASSUME NEW to \in Terminals, after = Failed(i, s, f, to)
      PROVE  /\ after.state \in Targets
             /\ after.task \in [Tasks -> TaskRecords]
             /\ OpenIn(after.task, i, after.state)
             /\ \A t \in Tasks : t[1] # i => after.task[t] = f[t]
  <2> DEFINE g == Retire(f, i, s, "failed_stage_skip")
  <2>1. after = [state |-> to, task |-> g]
    BY <1>2 DEF Failed
  <2>2. /\ g \in [Tasks -> TaskRecords]
        /\ \A t \in Tasks : g[t].state = "PENDING" =>
              f[t].state = "PENDING" /\ ~(t[1] = i /\ t[2] = s)
    BY RetireType
  <2>3. OpenIn(g, i, to)
    <3> SUFFICES ASSUME NEW s2 \in Stages, NEW u \in Users PROVE g[<<i, s2, u>>].state # "PENDING"
      BY DEF OpenIn
    <3>1. <<i, s2, u>> \in Tasks
      BY DEF Tasks
    <3> QED
      BY <2>2, <3>1 DEF OpenIn
  <2>4. \A t \in Tasks : t[1] # i => g[t] = f[t]
    BY DEF Retire
  <2> HIDE DEF g, after
  <2> QED
    BY <1>2, <2>1, <2>2, <2>3, <2>4 DEF Targets
<1>3. CASE v = "FAILED"
  BY <1>2, <1>3, RejectTargetType DEF AfterVerdict
<1>4. CASE v = "unresolvable_quorum"
  BY <1>2, <1>4, StageNames DEF AfterVerdict
<1>5. CASE v = "PENDING"
  <2>1. after = [state |-> instState[i], task |-> f]
    BY <1>5 DEF AfterVerdict
  <2> QED
    BY <2>1 DEF Targets
<1> QED
  BY <1>1, <1>3, <1>4, <1>5

(***************************************************************************)
(* The inductive invariant: types, and open tasks in the current stage only. *)
(***************************************************************************)
EngineInv == EngineTypeOK /\ PendingOnlyInCurrentStage

LEMMA InvInit == EngineInit => EngineInv
<1> SUFFICES ASSUME EngineInit PROVE EngineInv
  OBVIOUS
<1>1. NoTask \in TaskRecords /\ NoTask.state = "Absent"
  BY DEF NoTask, TaskRecords
<1>2. EngineTypeOK
  BY <1>1, ConstantsAssumption DEF EngineInit, EngineTypeOK, Endings
<1>3. PendingOnlyInCurrentStage
  BY <1>1 DEF EngineInit, PendingOnlyInCurrentStage, Tasks
<1> QED
  BY <1>2, <1>3 DEF EngineInv

LEMMA InstantiateStep ==
  ASSUME EngineInv, NEW i \in Instances, NEW e \in Entries, NEW c \in Contexts,
         Instantiate(i, e, c)
  PROVE  EngineInv'
<1> DEFINE to == IF e \in Malformed THEN "NEEDS_ATTENTION" ELSE EnterStage(e, c)
<1>1. to \in Targets
  BY EnterStageType, StageNames DEF Targets
<1>2. /\ instState' = [instState EXCEPT ![i] = to]
      /\ task' = MaterializeStage(task, i, to, c)
      /\ context' = [context EXCEPT ![i] = c]
      /\ members' = members /\ closed' = closed /\ instState[i] = "Absent"
  BY DEF Instantiate
<1> HIDE DEF to
<1>3. task' \in [Tasks -> TaskRecords]
  BY <1>2, MaterializeType DEF EngineInv, EngineTypeOK
<1>4. EngineTypeOK'
  BY <1>1, <1>2, <1>3 DEF EngineInv, EngineTypeOK
<1>5. PendingOnlyInCurrentStage'
  <2> SUFFICES ASSUME NEW j \in Instances, NEW s \in Stages, NEW u \in Users,
                      task'[<<j, s, u>>].state = "PENDING"
               PROVE  instState'[j] = s
    BY DEF PendingOnlyInCurrentStage
  <2>1. <<j, s, u>> \in Tasks
    BY DEF Tasks
  <2>2. CASE j = i
    <3>1. task[<<i, s, u>>].state # "PENDING"
      BY <1>2, <2>2, StageNames DEF EngineInv, PendingOnlyInCurrentStage, Targets
    <3>2. s = to
      BY <1>2, <2>1, <2>2, <3>1 DEF MaterializeStage
    <3> QED
      BY <1>2, <2>2, <3>2 DEF EngineInv, EngineTypeOK
  <2>3. CASE j # i
    <3>1. task'[<<j, s, u>>] = task[<<j, s, u>>]
      BY <1>2, <2>1, <2>3 DEF MaterializeStage
    <3> QED
      BY <1>2, <2>3, <3>1 DEF EngineInv, EngineTypeOK, PendingOnlyInCurrentStage
  <2> QED
    BY <2>2, <2>3
<1> QED
  BY <1>4, <1>5 DEF EngineInv

LEMMA DecideStep ==
  ASSUME EngineInv, NEW i \in Instances, NEW s \in Stages, NEW u \in Users,
         NEW actor \in Users, NEW o \in {"approve", "reject"}, Decide(i, s, u, actor, o)
  PROVE  /\ EngineInv'
         /\ instState[i] = s
         /\ \A j \in Instances \ {i} : instState'[j] = instState[j]
         /\ \A t \in Tasks : t[1] # i => task'[t] = task[t]
<1> DEFINE f == WithOutcome(i, s, u, actor, o)
           v == StageVerdict(f, i, s)
           after == AfterVerdict(i, s, f, v)
<1>1. instState[i] = s
  BY DEF Decide, Decidable, EngineInv, PendingOnlyInCurrentStage
<1>2. /\ f \in [Tasks -> TaskRecords]
      /\ \A t \in Tasks : f[t].state = "PENDING" => task[t].state = "PENDING"
  BY WithOutcomeType DEF EngineInv, EngineTypeOK
<1>3. OpenIn(f, i, s)
  <2> SUFFICES ASSUME NEW s2 \in Stages, NEW w \in Users, f[<<i, s2, w>>].state = "PENDING"
               PROVE  s2 = s
    BY DEF OpenIn
  <2>1. <<i, s2, w>> \in Tasks
    BY DEF Tasks
  <2> QED
    BY <1>1, <1>2, <2>1 DEF EngineInv, PendingOnlyInCurrentStage
<1>4. v \in {"PENDING", "MET", "FAILED", "unresolvable_quorum"}
  BY StageVerdictType
<1>5. /\ instState' = [instState EXCEPT ![i] = after.state]
      /\ task' = after.task
      /\ closed' = IF v = "PENDING" THEN closed ELSE [closed EXCEPT ![i][s] = v]
      /\ members' = members /\ context' = context
  BY DEF Decide
<1>6. \A t \in Tasks : t[1] # i => f[t] = task[t]
  BY DEF WithOutcome, EngineInv, EngineTypeOK, Tasks
<1> HIDE DEF f, v
<1>7. /\ after.state \in Targets
      /\ after.task \in [Tasks -> TaskRecords]
      /\ OpenIn(after.task, i, after.state)
      /\ \A t \in Tasks : t[1] # i => after.task[t] = f[t]
  BY <1>1, <1>2, <1>3, <1>4, AfterVerdictEffect DEF EngineInv
<1> HIDE DEF after
<1>8. closed' \in [Instances -> [Stages -> Endings]]
  BY <1>4, <1>5 DEF EngineInv, EngineTypeOK, Endings
<1>9. EngineTypeOK'
  BY <1>5, <1>7, <1>8 DEF EngineInv, EngineTypeOK
<1>10. \A t \in Tasks : t[1] # i => task'[t] = task[t]
  BY <1>5, <1>6, <1>7
<1>11. PendingOnlyInCurrentStage'
  <2> SUFFICES ASSUME NEW j \in Instances, NEW s2 \in Stages, NEW w \in Users,
                      task'[<<j, s2, w>>].state = "PENDING"
               PROVE  instState'[j] = s2
    BY DEF PendingOnlyInCurrentStage
  <2>1. <<j, s2, w>> \in Tasks
    BY DEF Tasks
  <2>2. CASE j = i
    BY <1>5, <1>7, <2>2 DEF OpenIn, EngineInv, EngineTypeOK
  <2>3. CASE j # i
    BY <1>5, <1>10, <2>1, <2>3 DEF EngineInv, EngineTypeOK, PendingOnlyInCurrentStage
  <2> QED
    BY <2>2, <2>3
<1> QED
  BY <1>1, <1>5, <1>9, <1>10, <1>11 DEF EngineInv, EngineTypeOK

LEMMA CancelStep ==
  ASSUME EngineInv, NEW i \in Instances, CancelInstance(i)
  PROVE  EngineInv'
<1>1. /\ instState' = [instState EXCEPT ![i] = "CANCELLED"]
      /\ members' = members /\ context' = context /\ closed' = closed
  BY DEF CancelInstance
<1>2. task' \in [Tasks -> TaskRecords]
  <2>1. \A t \in Tasks : [task[t] EXCEPT !.state = "SKIPPED"] \in TaskRecords
    BY DEF TaskRecords, EngineInv, EngineTypeOK
  <2> QED
    BY <2>1 DEF CancelInstance, EngineInv, EngineTypeOK
<1>3. EngineTypeOK'
  BY <1>1, <1>2, StageNames DEF EngineInv, EngineTypeOK, Targets
<1>4. \A t \in Tasks : task'[t].state = "PENDING" => task[t].state = "PENDING" /\ t[1] # i
  <2>1. \A t \in Tasks : [task[t] EXCEPT !.state = "SKIPPED"].state = "SKIPPED"
    BY DEF TaskRecords, EngineInv, EngineTypeOK
  <2> QED
    BY <2>1 DEF CancelInstance
<1>5. PendingOnlyInCurrentStage'
  <2> SUFFICES ASSUME NEW j \in Instances, NEW s \in Stages, NEW u \in Users,
                      task'[<<j, s, u>>].state = "PENDING"
               PROVE  instState'[j] = s
    BY DEF PendingOnlyInCurrentStage
  <2>1. <<j, s, u>> \in Tasks
    BY DEF Tasks
  <2>2. task[<<j, s, u>>].state = "PENDING" /\ j # i
    BY <1>4, <2>1
  <2> QED
    BY <1>1, <2>2 DEF EngineInv, EngineTypeOK, PendingOnlyInCurrentStage
<1> QED
  BY <1>3, <1>5 DEF EngineInv

LEMMA InvNext == EngineInv /\ [EngineNext]_engineVars => EngineInv'
<1> SUFFICES ASSUME EngineInv, [EngineNext]_engineVars PROVE EngineInv'
  OBVIOUS
<1>1. ASSUME NEW i \in Instances, NEW e \in Entries, NEW c \in Contexts, Instantiate(i, e, c)
      PROVE  EngineInv'
  BY <1>1, InstantiateStep
<1>2. ASSUME NEW i \in Instances, NEW s \in Stages, NEW u \in Users, NEW actor \in Users,
             NEW o \in {"approve", "reject"}, Decide(i, s, u, actor, o)
      PROVE  EngineInv'
  BY <1>2, DecideStep
<1>3. ASSUME NEW i \in Instances, CancelInstance(i)
      PROVE  EngineInv'
  BY <1>3, CancelStep
<1>4. ASSUME NEW i \in Instances, ContextLost(i)
      PROVE  EngineInv'
  BY <1>4, ConstantsAssumption
     DEF ContextLost, EngineInv, EngineTypeOK, PendingOnlyInCurrentStage
<1>5. ASSUME NEW r \in Roles, NEW u \in Users, AssignRole(r, u) \/ RevokeRole(r, u)
      PROVE  EngineInv'
  <2>1. members' \in [Roles -> SUBSET Users]
    BY <1>5 DEF AssignRole, RevokeRole, EngineInv, EngineTypeOK
  <2> QED
    BY <1>5, <2>1
       DEF AssignRole, RevokeRole, EngineInv, EngineTypeOK, PendingOnlyInCurrentStage
<1>6. CASE UNCHANGED engineVars
  BY <1>6 DEF engineVars, EngineInv, EngineTypeOK, PendingOnlyInCurrentStage
<1> QED
  BY <1>1, <1>2, <1>3, <1>4, <1>5, <1>6 DEF EngineNext

\* Every reachable instance, task and stage row holds values its columns allow: routing,
\* advancing and failing leave an instance in a stage or in a terminal state.
THEOREM EngineTypeCorrect == EngineSpec => []EngineTypeOK
<1>1. EngineInv => EngineTypeOK
  BY DEF EngineInv
<1> QED
  BY <1>1, InvInit, InvNext, PTL DEF EngineSpec

\* For every stage graph, pool and quorum: a task can be decided only in the current
\* stage of its instance, since whatever closes a stage retires its open siblings.
THEOREM PendingIsCurrent == EngineSpec => []PendingOnlyInCurrentStage
<1>1. EngineInv => PendingOnlyInCurrentStage
  BY DEF EngineInv
<1> QED
  BY <1>1, InvInit, InvNext, PTL DEF EngineSpec

(* The rows of instance i are left alone.                                   *)
Untouched(i) ==
  /\ instState'[i] = instState[i]
  /\ \A s \in Stages, u \in Users : task'[<<i, s, u>>] = task[<<i, s, u>>]

\* For every stage graph: no decision, withdrawal or role change touches an instance
\* that has completed, been rejected, been cancelled or needs attention.
THEOREM TerminalsAreFinal == EngineSpec => TerminalIsFinal
<1>1. ASSUME EngineInv, [EngineNext]_engineVars, NEW i \in Instances, instState[i] \in Terminals
      PROVE  Untouched(i)
  <2>0. \A s \in Stages, u \in Users : <<i, s, u>> \in Tasks
    BY DEF Tasks
  <2>1. ASSUME NEW j \in Instances, NEW e \in Entries, NEW c \in Contexts, Instantiate(j, e, c)
        PROVE  Untouched(i)
    <3>1. j # i
      BY <1>1, <2>1, StageNames DEF Instantiate, Targets
    <3>2. instState'[i] = instState[i]
      BY <1>1, <2>1, <3>1 DEF Instantiate, EngineInv, EngineTypeOK
    <3>3. \A s \in Stages, u \in Users : task'[<<i, s, u>>] = task[<<i, s, u>>]
      BY <2>0, <2>1, <3>1 DEF Instantiate, MaterializeStage
    <3> QED
      BY <3>2, <3>3 DEF Untouched
  <2>2. ASSUME NEW j \in Instances, NEW s \in Stages, NEW u \in Users, NEW actor \in Users,
               NEW o \in {"approve", "reject"}, Decide(j, s, u, actor, o)
        PROVE  Untouched(i)
    <3>1. /\ instState[j] = s
          /\ \A k \in Instances \ {j} : instState'[k] = instState[k]
          /\ \A t \in Tasks : t[1] # j => task'[t] = task[t]
      BY <1>1, <2>2, DecideStep
    <3>2. j # i
      BY <1>1, <3>1, StageNames
    <3> QED
      BY <2>0, <3>1, <3>2 DEF Untouched
  <2>3. ASSUME NEW j \in Instances, CancelInstance(j)
        PROVE  Untouched(i)
    <3>1. j # i
      BY <1>1, <2>3, StageNames DEF CancelInstance, Cancellable
    <3> QED
      BY <1>1, <2>0, <2>3, <3>1 DEF CancelInstance, Untouched, EngineInv, EngineTypeOK
  <2>4. CASE \/ \E j \in Instances : ContextLost(j)
             \/ \E r \in Roles, u \in Users : AssignRole(r, u) \/ RevokeRole(r, u)
             \/ UNCHANGED engineVars
    BY <2>4 DEF ContextLost, AssignRole, RevokeRole, engineVars, Untouched
  <2> QED
    BY <1>1, <2>1, <2>2, <2>3, <2>4 DEF EngineNext
<1>2. EngineInv /\ [EngineNext]_engineVars =>
        [\A i \in Instances : instState[i] \in Terminals =>
            /\ instState'[i] = instState[i]
            /\ \A s \in Stages, u \in Users : task'[<<i, s, u>>] = task[<<i, s, u>>]]_engineVars
  BY <1>1 DEF Untouched
<1> QED
  BY <1>2, InvInit, InvNext, PTL DEF EngineSpec, TerminalIsFinal

(***************************************************************************)
(* How a stage ends.                                                       *)
(***************************************************************************)

Entered(i, s) == \E u \in Users : task[<<i, s, u>>].state # "Absent"

\* The sets of stages that contain everything reachable from s, and not s.
LaterThan(s) == {later \in SUBSET (Stages \ {s}) : Successors(later \cup {s}) \subseteq later}

\* A row has an outcome exactly when it is decided, and a marker only when it was retired.
RowsAgree(i, s) ==
  \A u \in Users :
    /\ task[<<i, s, u>>].state = "DONE" <=> task[<<i, s, u>>].outcome # "none"
    /\ task[<<i, s, u>>].state = "DONE" => task[<<i, s, u>>].by \in Users
    /\ task[<<i, s, u>>].state # "SKIPPED" => task[<<i, s, u>>].marker = "none"
    /\ task[<<i, s, u>>].state = "SKIPPED" => instState[i] # s

\* Nobody approves twice in a stage.
ApproversDiffer(i, s) ==
  \A u, w \in Users :
    /\ task[<<i, s, u>>].outcome = "approve" /\ task[<<i, s, w>>].outcome = "approve"
    /\ task[<<i, s, u>>].by = task[<<i, s, w>>].by
    => u = w

\* From a stage that was entered an instance only moves to stages that lie later.
GoesForward(i, s) ==
  Entered(i, s) =>
    /\ StageDef[s].mode = "PARALLEL"
    /\ \A later \in LaterThan(s) : instState[i] \in {s} \cup later \cup Terminals

ClosedIsLeft(i, s) == closed[i][s] # "open" => Entered(i, s) /\ instState[i] # s

HasWork(i, s) ==
  instState[i] = s => /\ \E u \in Users : task[<<i, s, u>>].state = "PENDING"
                      /\ StageVerdict(task, i, s) \in {"PENDING", "unresolvable_quorum"}

Skipped(f, i, s) == {u \in Users : f[<<i, s, u>>].state = "SKIPPED"}

EndedRight(i, s) ==
  LET q == QuorumOf(s, context[i])
  IN  /\ closed[i][s] = "MET" /\ q # NoResult =>
           Enough(q, Cardinality(Approvers(task, i, s)), Cardinality(StageTasks(task, i, s)))
      /\ closed[i][s] = "FAILED" /\ q # NoResult =>
           ~Enough(q, Cardinality(Approvers(task, i, s)) + Cardinality(Skipped(task, i, s)),
                   Cardinality(StageTasks(task, i, s)))

MarkersTell(i, s) ==
  \A u \in Users :
    /\ task[<<i, s, u>>].marker = "quorum_skip" => closed[i][s] = "MET"
    /\ task[<<i, s, u>>].marker = "failed_stage_skip" =>
         closed[i][s] \in {"FAILED", "unresolvable_quorum"}

StageOK(i, s) ==
  /\ RowsAgree(i, s) /\ ApproversDiffer(i, s) /\ GoesForward(i, s) /\ ClosedIsLeft(i, s)
  /\ HasWork(i, s) /\ EndedRight(i, s) /\ MarkersTell(i, s)

\* The inductive invariant.
StageInv == EngineInv /\ \A i \in Instances, s \in Stages : StageOK(i, s)

-----------------------------------------------------------------------------
(* Routing: the walk through router stages, and where it can lead.           *)

LEMMA LeastOf ==
  ASSUME NEW T, T \subseteq Nat, T # {}
  PROVE  \E x \in T : \A y \in T : x <= y
<1>1. PICK x \in T : \A y \in T : ~ (<<y, x>> \in OpToRel(<, Nat))
  BY WFMin, NatLessThanWellFounded, Zenon
<1>2. SUFFICES ASSUME NEW y \in T, y < x PROVE FALSE
  BY <1>2
<1>3. <<y, x>> \in Nat \X Nat
  OBVIOUS
<1>4. <<y, x>> \in OpToRel(<, Nat)
  BY <1>2, <1>3, Zenon DEF OpToRel
<1> QED
  BY <1>1, <1>4

Step(x, c) == IF IsRouter(x) THEN Hop(x, c) ELSE x

IsWalk(f, key, c, N) ==
  f = [n \in 0..N |-> IF n = 0 THEN key ELSE Step(f[n - 1], c)]

LEMMA WalkExists ==
  ASSUME NEW key, NEW c, NEW N \in Nat
  PROVE  \E f : IsWalk(f, key, c, N)
<1> DEFINE bad == {m \in Nat : ~ \E f : IsWalk(f, key, c, m)}
<1> SUFFICES ASSUME bad # {} PROVE FALSE
  <2>1. N \notin bad
    OBVIOUS
  <2> QED
    BY <2>1
<1>1. PICK m \in bad : \A y \in bad : m <= y
  <2>1. bad \subseteq Nat
    OBVIOUS
  <2> HIDE DEF bad
  <2> QED
    BY <2>1, LeastOf
<1>2. CASE m = 0
  <2> DEFINE f == [n \in 0..0 |-> key]
  <2>1. IsWalk(f, key, c, 0)
    BY DEF IsWalk
  <2> HIDE DEF f
  <2> QED
    BY <1>2, <2>1
<1>3. CASE m # 0
  <2>1. m \in Nat /\ m - 1 \in Nat /\ m - 1 \notin bad
    <3>1. bad \subseteq Nat
      OBVIOUS
    <3> HIDE DEF bad
    <3> QED
      BY <1>1, <1>3, <3>1
  <2>2. PICK g : IsWalk(g, key, c, m - 1)
    BY <2>1
  <2> DEFINE f == [n \in 0..m |-> IF n = m THEN Step(g[m - 1], c) ELSE g[n]]
  <2>3. ASSUME NEW n \in 0..m PROVE f[n] = IF n = 0 THEN key ELSE Step(f[n - 1], c)
    <3>1. CASE n = m
      BY <1>3, <2>1, <2>3, <3>1
    <3>2. CASE n # m
      <4>1. n \in 0..m-1
        BY <2>1, <2>3, <3>2
      <4>2. g[n] = IF n = 0 THEN key ELSE Step(g[n - 1], c)
        BY <2>2, <4>1 DEF IsWalk
      <4>3. f[n] = g[n] /\ (n # 0 => f[n - 1] = g[n - 1])
        BY <2>1, <2>3, <3>2
      <4> QED
        BY <4>2, <4>3
    <3> QED
      BY <3>1, <3>2
  <2>4. f = [n \in 0..m |-> f[n]]
    OBVIOUS
  <2> HIDE DEF f
  <2>5. IsWalk(f, key, c, m)
    BY <2>3, <2>4 DEF IsWalk
  <2> QED
    BY <2>5
<1> QED
  BY <1>2, <1>3

LEMMA StagesAreFinite == Cardinality(Stages) \in Nat
<1>1. IsFiniteSet(Stages)
  BY ConstantsAssumption
<1> QED
  BY <1>1, FS_CardinalityType

LEMMA LandingIs ==
  ASSUME NEW key, NEW c
  PROVE  \E walk : /\ IsWalk(walk, key, c, Cardinality(Stages))
                   /\ Landing(key, c) = IF /\ walk[Cardinality(Stages)] \in Targets
                                           /\ ~IsRouter(walk[Cardinality(Stages)])
                                        THEN walk[Cardinality(Stages)] ELSE "NEEDS_ATTENTION"
<1> DEFINE N == Cardinality(Stages)
           walk[n \in 0..N] ==
             IF n = 0 THEN key
             ELSE IF IsRouter(walk[n - 1]) THEN Hop(walk[n - 1], c) ELSE walk[n - 1]
<1>1. \E f : f = [n \in 0..N |->
                    IF n = 0 THEN key
                    ELSE IF IsRouter(f[n - 1]) THEN Hop(f[n - 1], c) ELSE f[n - 1]]
  <2>1. N \in Nat
    BY StagesAreFinite
  <2> HIDE DEF N
  <2>2. PICK f : IsWalk(f, key, c, N)
    BY <2>1, WalkExists
  <2>3. f = [n \in 0..N |-> IF n = 0 THEN key
                            ELSE IF IsRouter(f[n - 1]) THEN Hop(f[n - 1], c) ELSE f[n - 1]]
    BY <2>2 DEF Step, IsWalk
  <2> QED
    BY <2>3, Zenon
<1>2. walk = [n \in 0..N |->
                IF n = 0 THEN key
                ELSE IF IsRouter(walk[n - 1]) THEN Hop(walk[n - 1], c) ELSE walk[n - 1]]
  <2> HIDE DEF N
  <2> QED
    BY <1>1, Zenon
<1>3. Landing(key, c) =
        IF walk[N] \in Targets /\ ~IsRouter(walk[N]) THEN walk[N] ELSE "NEEDS_ATTENTION"
  BY Zenon DEF Landing
<1> HIDE DEF walk
<1>4. IsWalk(walk, key, c, N)
  BY <1>2 DEF Step, IsWalk
<1> QED
  BY <1>3, <1>4

\* A walk that starts in a set closed under routing stays in it.
LEMMA LandingStaysIn ==
  ASSUME NEW key, NEW c, NEW L, key \in Stages => key \in L,
         \A r \in L : IsRouter(r) /\ Hop(r, c) \in Stages => Hop(r, c) \in L
  PROVE  /\ Landing(key, c) \in Targets /\ ~IsRouter(Landing(key, c))
         /\ Landing(key, c) \in Stages => Landing(key, c) \in L
<1> DEFINE N == Cardinality(Stages)
<1>1. N \in Nat
  BY StagesAreFinite
<1>2. PICK walk : /\ IsWalk(walk, key, c, N)
                  /\ Landing(key, c) = IF walk[N] \in Targets /\ ~IsRouter(walk[N])
                                       THEN walk[N] ELSE "NEEDS_ATTENTION"
  BY LandingIs
<1> HIDE DEF N
<1>3. ASSUME NEW n \in 0..N, walk[n] \in Stages PROVE walk[n] \in L
  <2> DEFINE bad == {m \in 0..N : walk[m] \in Stages /\ walk[m] \notin L}
  <2> SUFFICES ASSUME bad # {} PROVE FALSE
    BY <1>3
  <2>1. bad \subseteq Nat /\ bad \subseteq 0..N
    BY <1>1
  <2>2. PICK m \in bad : \A y \in bad : m <= y
    <3> HIDE DEF bad
    <3> QED
      BY <2>1, LeastOf
  <2>3. walk[m] \in Stages /\ walk[m] \notin L /\ m \in 0..N
    OBVIOUS
  <2>4. CASE m = 0
    <3>1. walk[0] = key
      BY <1>1, <1>2 DEF IsWalk
    <3> QED
      BY <2>3, <2>4, <3>1
  <2>5. CASE m # 0
    <3>1. m - 1 \in 0..N /\ m - 1 \notin bad
      <4> HIDE DEF bad
      <4> QED
        BY <1>1, <2>1, <2>2, <2>3, <2>5
    <3>2. walk[m] = Step(walk[m - 1], c)
      BY <1>1, <1>2, <2>3, <2>5 DEF IsWalk
    <3>3. walk[m - 1] \in Stages => walk[m - 1] \in L
      BY <3>1
    <3> QED
      BY <2>3, <3>2, <3>3 DEF Step, IsRouter
  <2> QED
    BY <2>4, <2>5
<1>4. "NEEDS_ATTENTION" \in Targets /\ "NEEDS_ATTENTION" \notin Stages
  BY StageNames DEF Targets
<1>5. N \in 0..N
  BY <1>1
<1> QED
  BY <1>2, <1>3, <1>4, <1>5 DEF IsRouter

LEMMA EnteredIsStaffed ==
  ASSUME NEW key, NEW c, EnterStage(key, c) \in Stages
  PROVE  StageDef[EnterStage(key, c)].mode = "PARALLEL" /\ Staffable(EnterStage(key, c), c)
<1>1. Landing(key, c) \in Targets /\ ~IsRouter(Landing(key, c))
  <2>1. \A r \in Stages : Hop(r, c) \in Stages => Hop(r, c) \in Stages
    OBVIOUS
  <2> QED
    BY <2>1, LandingStaysIn
<1>2. EnterStage(key, c) = Landing(key, c) /\ Staffable(Landing(key, c), c)
  BY StageNames DEF EnterStage
<1>3. StageDef[Landing(key, c)].mode \in Modes
  BY <1>2, ConstantsAssumption
<1> QED
  BY <1>1, <1>2, <1>3 DEF IsRouter, Modes

LEMMA LaterExists ==
  ASSUME NEW s \in Stages, StageDef[s].mode = "PARALLEL"
  PROVE  \E later : later \in LaterThan(s)
BY StageGraphAssumption DEF LaterThan

\* Success of a stage leads forward, whatever routers lie between.
LEMMA SuccessLiesLater ==
  ASSUME NEW c \in Contexts, NEW s \in Stages, NEW later \in LaterThan(s),
         NEW cur \in {s} \cup later
  PROVE  EnterStage(TransitionTarget(StageDef[cur].success, "COMPLETED"), c)
           \in later \cup Terminals
<1> DEFINE key == TransitionTarget(StageDef[cur].success, "COMPLETED")
<1>1. later \subseteq Stages \ {s} /\ Successors(later \cup {s}) \subseteq later
  BY DEF LaterThan
<1>2. key \in Stages => key \in later
  <2>1. key \in Stages => key = StageDef[cur].success
    BY StageNames DEF TransitionTarget
  <2>2. key \in Stages => key \in Successors(later \cup {s})
    BY <2>1 DEF Successors
  <2> QED
    BY <1>1, <2>2
<1>3. ASSUME NEW r \in later, Hop(r, c) \in Stages PROVE Hop(r, c) \in later
  <2>1. Hop(r, c) = Resolve(StageDef[r].route, c)
    BY <1>3, StageNames DEF Hop
  <2>2. Hop(r, c) \in Successors(later \cup {s})
    BY <1>3, <2>1 DEF Successors
  <2> QED
    BY <1>1, <2>2
<1> HIDE DEF key
<1>4. Landing(key, c) \in Targets /\ (Landing(key, c) \in Stages => Landing(key, c) \in later)
  BY <1>2, <1>3, LandingStaysIn
<1>5. EnterStage(key, c) \in later \cup Terminals
  BY <1>4, StageNames DEF EnterStage, Targets
<1> QED
  BY <1>5 DEF key

-----------------------------------------------------------------------------
(* Counting the rows of a stage.                                             *)

Undecideds(f, i, s) == {u \in Users : f[<<i, s, u>>].state \in {"PENDING", "SKIPPED"}}

LEMMA UserSetsAreFinite ==
  ASSUME NEW S, S \subseteq Users
  PROVE  IsFiniteSet(S) /\ Cardinality(S) \in Nat
<1>1. IsFiniteSet(Users)
  BY ConstantsAssumption
<1>2. IsFiniteSet(S)
  BY <1>1, FS_Subset
<1> QED
  BY <1>2, FS_CardinalityType

LEMMA DisjointUnion ==
  ASSUME NEW S, NEW T, S \subseteq Users, T \subseteq Users, S \cap T = {}
  PROVE  Cardinality(S \cup T) = Cardinality(S) + Cardinality(T)
<1>1. IsFiniteSet(S) /\ IsFiniteSet(T) /\ Cardinality(S) \in Nat /\ Cardinality(T) \in Nat
  BY UserSetsAreFinite
<1>2. Cardinality(S \cup T) = Cardinality(S) + Cardinality(T) - Cardinality(S \cap T)
  BY <1>1, FS_Union
<1>3. Cardinality(S \cap T) = 0
  BY FS_EmptySet
<1> QED
  BY <1>1, <1>2, <1>3

LEMMA DistinctApproversCount ==
  ASSUME NEW f, NEW i, NEW s,
         \A u \in Approvals(f, i, s) : f[<<i, s, u>>].by \in Users,
         \A u, w \in Approvals(f, i, s) : f[<<i, s, u>>].by = f[<<i, s, w>>].by => u = w
  PROVE  Cardinality(Approvers(f, i, s)) = Cardinality(Approvals(f, i, s))
<1> DEFINE A == Approvals(f, i, s)
           B == Approvers(f, i, s)
           g == [u \in A |-> f[<<i, s, u>>].by]
<1>1. A \subseteq Users /\ B \subseteq Users
  BY DEF Approvals, Approvers
<1>2. IsFiniteSet(A) /\ IsFiniteSet(B) /\ Cardinality(A) \in Nat /\ Cardinality(B) \in Nat
  BY <1>1, UserSetsAreFinite
<1>3. g \in [A -> B] /\ \A b \in B : \E a \in A : g[a] = b
  BY DEF Approvers
<1>4. \A a, b \in A : g[a] = g[b] => a = b
  OBVIOUS
<1>5. g \in Surjection(A, B)
  BY <1>3 DEF Surjection
<1>6. g \in Injection(A, B)
  BY <1>3, <1>4 DEF Injection, IsInjective
<1> HIDE DEF A, B, g
<1>7. Cardinality(B) <= Cardinality(A)
  BY <1>2, <1>5, FS_Surjection
<1>8. Cardinality(A) <= Cardinality(B)
  BY <1>2, <1>6, FS_Injection
<1>9. Cardinality(A) = Cardinality(B)
  BY <1>2, <1>7, <1>8
<1> QED
  BY <1>9 DEF A, B

Countable(f, i, s) ==
  /\ \A u \in Users : f[<<i, s, u>>].state = "DONE" <=> f[<<i, s, u>>].outcome # "none"
  /\ \A u \in Users : f[<<i, s, u>>].outcome = "approve" => f[<<i, s, u>>].by \in Users
  /\ \A u, w \in Users : /\ f[<<i, s, u>>].outcome = "approve"
                          /\ f[<<i, s, w>>].outcome = "approve"
                          /\ f[<<i, s, u>>].by = f[<<i, s, w>>].by => u = w

\* The tasks of a stage are its approvals, its rejections and the undecided rest.
LEMMA StageCounts ==
  ASSUME NEW f \in [Tasks -> TaskRecords], NEW i \in Instances, NEW s \in Stages,
         Countable(f, i, s)
  PROVE  /\ Cardinality(Approvers(f, i, s)) \in Nat
         /\ Cardinality(Rejects(f, i, s)) \in Nat
         /\ Cardinality(Undecideds(f, i, s)) \in Nat
         /\ Cardinality(StageTasks(f, i, s)) =
              Cardinality(Approvers(f, i, s)) + Cardinality(Rejects(f, i, s))
                + Cardinality(Undecideds(f, i, s))
<1> DEFINE A == Approvals(f, i, s)
           R == Rejects(f, i, s)
           K == Undecideds(f, i, s)
           n == StageTasks(f, i, s)
<1>1. A \subseteq Users /\ R \subseteq Users /\ K \subseteq Users /\ n \subseteq Users
  BY DEF Approvals, Rejects, Undecideds, StageTasks
<1>2. ASSUME NEW u \in Users
      PROVE  /\ u \in A => u \notin R /\ u \notin K
             /\ u \in R => u \notin K
             /\ u \in n <=> u \in A \/ u \in R \/ u \in K
  <2>1. f[<<i, s, u>>] \in TaskRecords
    BY DEF Tasks
  <2>2. /\ f[<<i, s, u>>].state \in {"Absent", "PENDING", "DONE", "SKIPPED"}
        /\ f[<<i, s, u>>].outcome \in {"none", "approve", "reject"}
    BY <2>1 DEF TaskRecords
  <2> QED
    BY <2>2 DEF Countable, Approvals, Rejects, Undecideds, StageTasks
<1>3. Cardinality(Approvers(f, i, s)) = Cardinality(A)
  BY DistinctApproversCount DEF Countable, Approvals
<1> HIDE DEF A, R, K, n
<1>4. A \cap R = {} /\ (A \cup R) \cap K = {} /\ n = (A \cup R) \cup K /\ A \cup R \subseteq Users
  BY <1>1, <1>2
<1>5. Cardinality(A) \in Nat /\ Cardinality(R) \in Nat /\ Cardinality(K) \in Nat
  BY <1>1, UserSetsAreFinite
<1>6. Cardinality(A \cup R) = Cardinality(A) + Cardinality(R)
  BY <1>1, <1>4, DisjointUnion
<1>7. Cardinality((A \cup R) \cup K) = Cardinality(A \cup R) + Cardinality(K)
  BY <1>1, <1>4, DisjointUnion
<1>8. /\ Cardinality(A) \in Nat /\ Cardinality(R) \in Nat /\ Cardinality(K) \in Nat
      /\ Cardinality(n) = Cardinality(A) + Cardinality(R) + Cardinality(K)
  BY <1>4, <1>5, <1>6, <1>7
<1> QED
  BY <1>3, <1>8 DEF A, R, K, n

\* Handing out tasks to a pool that can give the approvals asked for leaves the quorum open.
LEMMA FreshQuorumIsOpen ==
  ASSUME NEW q \in Quora, NEW n \in Nat, n > 0, n >= RequiredApprovals(q, n)
  PROVE  QuorumState(q, 0, 0, n) = "PENDING"
<1>1. Undecided(0, 0, n) = n
  BY DEF Undecided
<1>2. CASE q.type = "ALL"
  BY <1>1, <1>2 DEF QuorumState, Verdict
<1>3. CASE q.type = "N_OF_M"
  <2>1. q.n \in Nat \ {0} /\ n >= q.n
    BY <1>3 DEF Quora, RequiredApprovals
  <2> QED
    BY <1>1, <1>3, <2>1 DEF QuorumState, Verdict
<1>4. CASE q.type = "PERCENT"
  <2>1. q.n \in 1..100
    BY <1>4 DEF Quora
  <2>2. PICK p \in 1..100 : p = q.n
    BY <2>1
  <2>3. p * n \in Nat /\ p * n > 0
    BY <2>2
  <2>4. (100 - p) * n \in Nat
    BY <2>2
  <2>5. n * 100 - p * n = (100 - p) * n
    BY <2>2
  <2>6. ~(n * 100 < p * n)
    BY <2>3, <2>4, <2>5
  <2>7. ~(0 >= p * n)
    BY <2>3
  <2> HIDE DEF RequiredApprovals
  <2> QED
    BY <1>1, <1>4, <2>2, <2>6, <2>7 DEF QuorumState, Verdict
<1>5. CASE q.type = "ANY"
  BY <1>1, <1>5 DEF QuorumState, Verdict
<1> QED
  BY <1>2, <1>3, <1>4, <1>5 DEF Quora

-----------------------------------------------------------------------------
(* Steps that leave the rows of a stage alone.                               *)

Kept(i, s) ==
  /\ \A u \in Users : task'[<<i, s, u>>] = task[<<i, s, u>>]
  /\ closed'[i][s] = closed[i][s]
  /\ QuorumOf(s, context'[i]) \in {QuorumOf(s, context[i]), NoResult}

LEMMA KeptStage ==
  ASSUME NEW i, NEW s, StageOK(i, s), Kept(i, s),
         \/ instState'[i] = instState[i]
         \/ /\ instState'[i] # s
            /\ Entered(i, s) =>
                 \A later \in LaterThan(s) : instState'[i] \in later \cup Terminals
  PROVE  StageOK(i, s)'
<1>1. RowsAgree(i, s)' /\ ApproversDiffer(i, s)' /\ MarkersTell(i, s)'
  BY DEF StageOK, Kept, RowsAgree, ApproversDiffer, MarkersTell
<1>2. Entered(i, s)' <=> Entered(i, s)
  BY DEF Kept, Entered
<1>3. GoesForward(i, s)' /\ ClosedIsLeft(i, s)'
  BY <1>2 DEF StageOK, Kept, GoesForward, ClosedIsLeft, LaterThan, Successors
<1>4. /\ Approvers(task, i, s)' = Approvers(task, i, s)
      /\ Rejects(task, i, s)' = Rejects(task, i, s)
      /\ StageTasks(task, i, s)' = StageTasks(task, i, s)
      /\ Skipped(task, i, s)' = Skipped(task, i, s)
  BY DEF Kept, Approvers, Approvals, Rejects, StageTasks, Skipped
<1>5. EndedRight(i, s)'
  BY <1>4 DEF StageOK, Kept, EndedRight
<1>6. HasWork(i, s)'
  <2> SUFFICES ASSUME instState'[i] = s PROVE HasWork(i, s)'
    BY DEF HasWork
  <2>1. /\ \E u \in Users : task[<<i, s, u>>].state = "PENDING"
        /\ StageVerdict(task, i, s) \in {"PENDING", "unresolvable_quorum"}
    BY DEF StageOK, HasWork
  <2>2. StageVerdict(task, i, s)' \in {StageVerdict(task, i, s), "unresolvable_quorum"}
    BY <1>4 DEF StageVerdict, Kept
  <2> QED
    BY <2>1, <2>2 DEF HasWork, Kept
<1> QED
  BY <1>1, <1>3, <1>5, <1>6 DEF StageOK

\* A stage that has no rows, and is entered with its tasks handed out.
LEMMA FreshStage ==
  ASSUME EngineTypeOK, EngineTypeOK', NEW i \in Instances, NEW s \in Stages, StageOK(i, s),
         NEW c \in Contexts, ~Entered(i, s), StageDef[s].mode = "PARALLEL", Staffable(s, c),
         context'[i] = c, instState'[i] = s, closed'[i][s] = closed[i][s],
         \A u \in Users : task'[<<i, s, u>>] = IF u \in Pool(s, c)
                                               THEN [NoTask EXCEPT !.state = "PENDING"]
                                               ELSE task[<<i, s, u>>]
  PROVE  StageOK(i, s)'
<1> DEFINE P == Pool(s, c)
           q == QuorumOf(s, c)
<1>1. P \subseteq Users
  BY ConstantsAssumption DEF Pool, EngineTypeOK
<1>2. /\ q # NoResult /\ q \in Quora /\ P # {}
      /\ Cardinality(P) >= RequiredApprovals(q, Cardinality(P))
  BY ConstantsAssumption DEF Staffable, QuorumOf
<1>3. \A u \in P : /\ task'[<<i, s, u>>].state = "PENDING" /\ task'[<<i, s, u>>].outcome = "none"
                   /\ task'[<<i, s, u>>].marker = "none"
  BY <1>1 DEF NoTask
<1>4. \A u \in Users \ P : /\ task'[<<i, s, u>>].state = "Absent"
                           /\ task'[<<i, s, u>>].outcome = "none"
                           /\ task'[<<i, s, u>>].marker = "none"
  BY DEF Entered, StageOK, RowsAgree
<1>5. closed'[i][s] = "open"
  BY DEF StageOK, ClosedIsLeft
<1> HIDE DEF P
<1>6. RowsAgree(i, s)' /\ ApproversDiffer(i, s)' /\ MarkersTell(i, s)'
  BY <1>3, <1>4 DEF RowsAgree, ApproversDiffer, MarkersTell
<1>7. GoesForward(i, s)' /\ ClosedIsLeft(i, s)' /\ EndedRight(i, s)'
  BY <1>5 DEF GoesForward, ClosedIsLeft, EndedRight
<1>8. HasWork(i, s)'
  <2>1. \E u \in Users : task'[<<i, s, u>>].state = "PENDING"
    BY <1>1, <1>2, <1>3
  <2>2. Approvers(task, i, s)' = {} /\ Rejects(task, i, s)' = {} /\ StageTasks(task, i, s)' = P
    BY <1>1, <1>3, <1>4, ZenonT(40) DEF Approvers, Approvals, Rejects, StageTasks
  <2>3. Cardinality(P) \in Nat /\ Cardinality(P) > 0
    <3>1. IsFiniteSet(P) /\ Cardinality(P) \in Nat
      BY <1>1, UserSetsAreFinite
    <3>2. Cardinality(P) # 0
      BY <1>2, <3>1, FS_EmptySet
    <3> QED
      BY <3>1, <3>2
  <2>4. QuorumState(q, 0, 0, Cardinality(P)) = "PENDING"
    BY <1>2, <2>3, FreshQuorumIsOpen
  <2>5. Cardinality({}) = 0
    BY FS_EmptySet
  <2>6. StageVerdict(task, i, s)' = "PENDING"
    BY <1>2, <2>2, <2>4, <2>5 DEF StageVerdict
  <2> QED
    BY <2>1, <2>6 DEF HasWork
<1> QED
  BY <1>6, <1>7, <1>8 DEF StageOK

LEMMA LostContextKeepsQuorum ==
  ASSUME NEW s \in Stages, NEW c
  PROVE  QuorumOf(s, NoContext) \in {QuorumOf(s, c), NoResult}
<1> DEFINE rule == StageDef[s].quorum
           hits(d) == {k \in DOMAIN rule.branches : Matches(rule.branches[k], d)}
<1>1. hits(NoContext) = {}
  BY ConstantsAssumption DEF Matches
<1>2. CASE DOMAIN rule.branches = {}
  <2>1. QuorumOf(s, NoContext) = rule.default /\ QuorumOf(s, c) = rule.default
    BY <1>2 DEF QuorumOf, Resolve
  <2> QED
    BY <2>1
<1>3. CASE DOMAIN rule.branches # {}
  <2>1. \E k \in DOMAIN rule.branches : rule.branches[k].key \notin DOMAIN NoContext
    BY <1>3, ConstantsAssumption
  <2>2. QuorumOf(s, NoContext) = NoResult
    BY <1>1, <2>1 DEF QuorumOf, Resolve
  <2> QED
    BY <2>2
<1> QED
  BY <1>2, <1>3

-----------------------------------------------------------------------------
(* The steps.                                                                *)

LEMMA StageInvInit == EngineInit => StageInv
<1> SUFFICES ASSUME EngineInit PROVE StageInv
  OBVIOUS
<1>1. EngineInv
  BY InvInit
<1>2. ASSUME NEW i \in Instances, NEW s \in Stages PROVE StageOK(i, s)
  <2>1. \A u \in Users : task[<<i, s, u>>] = NoTask
    BY DEF EngineInit, Tasks
  <2>2. \A u \in Users : /\ task[<<i, s, u>>].state = "Absent"
                         /\ task[<<i, s, u>>].outcome = "none"
                         /\ task[<<i, s, u>>].marker = "none"
    BY <2>1 DEF NoTask
  <2>3. closed[i][s] = "open" /\ instState[i] # s
    BY ConstantsAssumption DEF EngineInit
  <2>4. RowsAgree(i, s) /\ ApproversDiffer(i, s) /\ MarkersTell(i, s)
    BY <2>2 DEF RowsAgree, ApproversDiffer, MarkersTell
  <2> QED
    BY <2>2, <2>3, <2>4 DEF StageOK, GoesForward, Entered, ClosedIsLeft, HasWork, EndedRight
<1> QED
  BY <1>1, <1>2 DEF StageInv

LEMMA InstantiateKeepsStages ==
  ASSUME StageInv, NEW i \in Instances, NEW e \in Entries, NEW c \in Contexts,
         Instantiate(i, e, c)
  PROVE  StageInv'
<1> DEFINE to == IF e \in Malformed THEN "NEEDS_ATTENTION" ELSE EnterStage(e, c)
<1>1. EngineInv' /\ EngineInv
  BY InstantiateStep DEF StageInv
<1>2. /\ instState' = [instState EXCEPT ![i] = to]
      /\ task' = MaterializeStage(task, i, to, c)
      /\ context' = [context EXCEPT ![i] = c]
      /\ members' = members /\ closed' = closed /\ instState[i] = "Absent"
  BY DEF Instantiate
<1>3. to \in Stages => StageDef[to].mode = "PARALLEL" /\ Staffable(to, c)
  BY EnteredIsStaffed, StageNames
<1> HIDE DEF to
<1>4. EngineTypeOK /\ EngineTypeOK'
  BY <1>1 DEF EngineInv
<1>5. ASSUME NEW j \in Instances, NEW s \in Stages PROVE StageOK(j, s)'
  <2>1. StageOK(j, s)
    BY DEF StageInv
  <2>2. \A u \in Users : <<j, s, u>> \in Tasks
    BY DEF Tasks
  <2>3. \A u \in Users : task'[<<j, s, u>>] = IF j = i /\ s = to /\ u \in Pool(s, c)
                                              THEN [NoTask EXCEPT !.state = "PENDING"]
                                              ELSE task[<<j, s, u>>]
    BY <1>2, <2>2 DEF MaterializeStage
  <2>4. CASE j # i
    <3>1. instState'[j] = instState[j] /\ context'[j] = context[j]
      BY <1>2, <1>4, <2>4 DEF EngineTypeOK
    <3>2. Kept(j, s)
      BY <1>2, <2>3, <2>4, <3>1 DEF Kept
    <3> QED
      BY <2>1, <3>1, <3>2, KeptStage
  <2>5. CASE j = i
    <3>1. instState'[i] = to /\ context'[i] = c
      BY <1>2, <1>4 DEF EngineTypeOK
    <3>2. ~Entered(i, s)
      <4> SUFFICES ASSUME Entered(i, s) PROVE FALSE
        OBVIOUS
      <4>1. /\ StageDef[s].mode = "PARALLEL"
            /\ \A later \in LaterThan(s) : instState[i] \in {s} \cup later \cup Terminals
        BY <2>1, <2>5 DEF StageOK, GoesForward
      <4>2. PICK later : later \in LaterThan(s)
        BY <4>1, LaterExists
      <4>3. "Absent" \in {s} \cup later \cup Terminals /\ later \subseteq Stages
        BY <1>2, <4>1, <4>2 DEF LaterThan
      <4> QED
        BY <4>3, StageNames DEF Targets
    <3>3. CASE s = to
      BY <1>2, <1>3, <1>4, <2>1, <2>3, <2>5, <3>1, <3>2, <3>3, FreshStage
    <3>4. CASE s # to
      <4>1. \A u \in Users : task'[<<i, s, u>>] = task[<<i, s, u>>]
        BY <2>3, <2>5, <3>4
      <4>2. closed[i][s] = "open"
        BY <2>1, <2>5, <3>2 DEF StageOK, ClosedIsLeft
      <4>3. \A u \in Users : /\ task'[<<i, s, u>>].state = "Absent"
                             /\ task'[<<i, s, u>>].outcome = "none"
                             /\ task'[<<i, s, u>>].marker = "none"
        BY <2>1, <2>5, <3>2, <4>1 DEF Entered, StageOK, RowsAgree
      <4>4. RowsAgree(i, s)' /\ ApproversDiffer(i, s)' /\ MarkersTell(i, s)'
        BY <4>3 DEF RowsAgree, ApproversDiffer, MarkersTell
      <4> QED
        BY <1>2, <2>5, <3>1, <3>4, <4>2, <4>3, <4>4
        DEF StageOK, GoesForward, Entered, ClosedIsLeft, HasWork, EndedRight
    <3> QED
      BY <3>3, <3>4
  <2> QED
    BY <2>4, <2>5
<1> QED
  BY <1>1, <1>5 DEF StageInv

LEMMA CancelKeepsStages ==
  ASSUME StageInv, NEW i \in Instances, CancelInstance(i)
  PROVE  StageInv'
<1>1. EngineInv' /\ EngineInv
  BY CancelStep DEF StageInv
<1>2. EngineTypeOK /\ PendingOnlyInCurrentStage
  BY <1>1 DEF EngineInv
<1>3. /\ instState' = [instState EXCEPT ![i] = "CANCELLED"]
      /\ closed' = closed /\ context' = context /\ instState[i] \in Stages
  BY DEF CancelInstance, Cancellable
<1>4. "CANCELLED" \in Terminals /\ "CANCELLED" \notin Stages
  BY StageNames
<1>5. ASSUME NEW j \in Instances, NEW s \in Stages PROVE StageOK(j, s)'
  <2>1. StageOK(j, s)
    BY DEF StageInv
  <2>2. \A u \in Users : <<j, s, u>> \in Tasks /\ task[<<j, s, u>>] \in TaskRecords
    BY <1>2 DEF Tasks, EngineTypeOK
  <2>3. \A u \in Users :
          task'[<<j, s, u>>] = IF j = i /\ task[<<j, s, u>>].state = "PENDING"
                               THEN [task[<<j, s, u>>] EXCEPT !.state = "SKIPPED"]
                               ELSE task[<<j, s, u>>]
    BY <2>2 DEF CancelInstance
  <2>4. instState'[j] = IF j = i THEN "CANCELLED" ELSE instState[j]
    BY <1>2, <1>3 DEF EngineTypeOK
  <2>5. CASE j # i \/ instState[i] # s
    <3>1. \A u \in Users : j = i => task[<<j, s, u>>].state # "PENDING"
      BY <1>2, <2>5 DEF PendingOnlyInCurrentStage
    <3>2. Kept(j, s)
      BY <1>3, <2>3, <3>1 DEF Kept
    <3>3. j = i => instState'[j] # s /\ instState'[j] \in Terminals
      BY <1>4, <2>4
    <3>4. j # i => instState'[j] = instState[j]
      BY <2>4
    <3> QED
      BY <2>1, <3>2, <3>3, <3>4, KeptStage
  <2>6. CASE j = i /\ instState[i] = s
    <3>1. closed[i][s] = "open"
      BY <2>1, <2>6 DEF StageOK, ClosedIsLeft
    <3>2. ASSUME NEW u \in Users
          PROVE  /\ task'[<<i, s, u>>].state = IF task[<<i, s, u>>].state = "PENDING"
                                               THEN "SKIPPED" ELSE task[<<i, s, u>>].state
                 /\ task'[<<i, s, u>>].outcome = task[<<i, s, u>>].outcome
                 /\ task'[<<i, s, u>>].by = task[<<i, s, u>>].by
                 /\ task'[<<i, s, u>>].marker = task[<<i, s, u>>].marker
      BY <2>2, <2>3, <2>6 DEF TaskRecords
    <3>3. RowsAgree(i, s)'
      <4>1. instState'[i] # s
        BY <1>4, <2>4, <2>6
      <4> QED
        BY <2>1, <2>6, <3>2, <4>1 DEF StageOK, RowsAgree
    <3>4. ApproversDiffer(i, s)' /\ MarkersTell(i, s)'
      BY <1>3, <2>1, <2>6, <3>2 DEF StageOK, ApproversDiffer, MarkersTell
    <3>5. GoesForward(i, s)'
      <4>1. Entered(i, s)' => Entered(i, s)
        BY <3>2 DEF Entered
      <4> QED
        BY <1>4, <2>1, <2>4, <2>6, <4>1 DEF StageOK, GoesForward, LaterThan, Successors
    <3>6. ClosedIsLeft(i, s)' /\ HasWork(i, s)' /\ EndedRight(i, s)'
      BY <1>3, <1>4, <2>4, <2>6, <3>1 DEF ClosedIsLeft, HasWork, EndedRight
    <3> QED
      BY <2>6, <3>3, <3>4, <3>5, <3>6 DEF StageOK
  <2> QED
    BY <2>5, <2>6
<1> QED
  BY <1>1, <1>5 DEF StageInv

\* The rows a decision leaves in its own stage before the stage is closed or kept open.
RowsDecided(f, i, s, u) ==
  /\ f \in [Tasks -> TaskRecords]
  /\ f[<<i, s, u>>].state = "DONE"
  /\ \A w \in Users :
       /\ f[<<i, s, w>>].state = "DONE" <=> f[<<i, s, w>>].outcome # "none"
       /\ f[<<i, s, w>>].state = "DONE" => f[<<i, s, w>>].by \in Users
       /\ f[<<i, s, w>>].state # "SKIPPED" /\ f[<<i, s, w>>].marker = "none"
  /\ \A v, w \in Users :
       /\ f[<<i, s, v>>].outcome = "approve" /\ f[<<i, s, w>>].outcome = "approve"
       /\ f[<<i, s, v>>].by = f[<<i, s, w>>].by
       => v = w

LEMMA DecidedRows ==
  ASSUME StageInv, NEW i \in Instances, NEW s \in Stages, NEW u \in Users, NEW actor \in Users,
         NEW o \in {"approve", "reject"}, Decidable(i, s, u, actor, o), instState[i] = s
  PROVE  RowsDecided(WithOutcome(i, s, u, actor, o), i, s, u)
<1> DEFINE f == WithOutcome(i, s, u, actor, o)
           r == [state |-> "DONE", outcome |-> o, by |-> actor, marker |-> "none"]
<1>1. f \in [Tasks -> TaskRecords]
  BY WithOutcomeType DEF StageInv, EngineInv, EngineTypeOK
<1>2. \A w \in Users : <<i, s, w>> \in Tasks
  BY DEF Tasks
<1>3. f[<<i, s, u>>] = r
  BY <1>2 DEF WithOutcome, StageInv, EngineInv, EngineTypeOK
<1>4. \A w \in Users \ {u} : f[<<i, s, w>>] = task[<<i, s, w>>]
  BY <1>2 DEF WithOutcome, StageInv, EngineInv, EngineTypeOK
<1>5. RowsAgree(i, s) /\ ApproversDiffer(i, s)
  BY DEF StageInv, StageOK
<1>6. o = "approve" => \A w \in Users : task[<<i, s, w>>].outcome = "approve"
                                          => task[<<i, s, w>>].by # actor
  BY DEF Decidable, MayDecide, Approvers, Approvals
<1>7. /\ f[<<i, s, u>>].state = "DONE" /\ f[<<i, s, u>>].outcome = o
      /\ f[<<i, s, u>>].by = actor /\ f[<<i, s, u>>].marker = "none"
  BY <1>3
<1> HIDE DEF f
<1>8. ASSUME NEW w \in Users
      PROVE  /\ f[<<i, s, w>>].state = "DONE" <=> f[<<i, s, w>>].outcome # "none"
             /\ f[<<i, s, w>>].state = "DONE" => f[<<i, s, w>>].by \in Users
             /\ f[<<i, s, w>>].state # "SKIPPED" /\ f[<<i, s, w>>].marker = "none"
  <2>1. CASE w = u
    BY <1>7, <2>1
  <2>2. CASE w # u
    BY <1>4, <1>5, <2>2 DEF RowsAgree
  <2> QED
    BY <2>1, <2>2
<1>9. ASSUME NEW v \in Users, NEW w \in Users,
             f[<<i, s, v>>].outcome = "approve", f[<<i, s, w>>].outcome = "approve",
             f[<<i, s, v>>].by = f[<<i, s, w>>].by
      PROVE  v = w
  <2>1. CASE v # u /\ w # u
    BY <1>4, <1>5, <1>9, <2>1 DEF ApproversDiffer
  <2>2. CASE v = u /\ w # u
    BY <1>4, <1>6, <1>7, <1>9, <2>2
  <2>3. CASE v # u /\ w = u
    BY <1>4, <1>6, <1>7, <1>9, <2>3
  <2> QED
    BY <2>1, <2>2, <2>3
<1> QED
  BY <1>1, <1>7, <1>8, <1>9 DEF f, RowsDecided

\* A verdict over those rows: what it says about the quorum.
LEMMA VerdictIsRight ==
  ASSUME StageInv, NEW i \in Instances, NEW s \in Stages, NEW u \in Users, NEW actor \in Users,
         NEW o \in {"approve", "reject"}, Decidable(i, s, u, actor, o), instState[i] = s
  PROVE  LET f == WithOutcome(i, s, u, actor, o)
             q == QuorumOf(s, context[i])
             a == Cardinality(Approvers(f, i, s))
             n == Cardinality(StageTasks(f, i, s))
             k == Cardinality(Undecideds(f, i, s))
             verdict == StageVerdict(f, i, s)
         IN  /\ verdict = "MET" => q # NoResult /\ Enough(q, a, n)
             /\ verdict = "FAILED" => ~Enough(q, a + k, n)
             /\ verdict = "PENDING" => Undecideds(f, i, s) # {}
<1> DEFINE f == WithOutcome(i, s, u, actor, o)
           q == QuorumOf(s, context[i])
           a == Cardinality(Approvers(f, i, s))
           r == Cardinality(Rejects(f, i, s))
           n == Cardinality(StageTasks(f, i, s))
           k == Cardinality(Undecideds(f, i, s))
           verdict == StageVerdict(f, i, s)
<1>1. RowsDecided(f, i, s, u)
  BY DecidedRows
<1> HIDE DEF f
<1>2. a \in Nat /\ r \in Nat /\ k \in Nat /\ n = a + r + k
  <2>1. Countable(f, i, s)
    BY <1>1 DEF RowsDecided, Countable
  <2> QED
    BY <1>1, <2>1, StageCounts DEF RowsDecided
<1>3. n \in Nat /\ n > 0
  <2>1. u \in StageTasks(f, i, s) /\ StageTasks(f, i, s) \subseteq Users
    BY <1>1 DEF RowsDecided, StageTasks
  <2>2. IsFiniteSet(StageTasks(f, i, s)) /\ n \in Nat
    BY <2>1, UserSetsAreFinite
  <2>3. n # 0
    BY <2>1, <2>2, FS_EmptySet
  <2> QED
    BY <2>2, <2>3
<1>4. q # NoResult => q \in Quora
  <2>1. context[i] \in Contexts
    BY DEF StageInv, EngineInv, EngineTypeOK
  <2>2. Resolve(StageDef[s].quorum, context[i]) \in Quora \cup {NoResult}
    BY <2>1, ConstantsAssumption
  <2> QED
    BY <2>2 DEF QuorumOf
<1>5. verdict = IF q = NoResult THEN "unresolvable_quorum" ELSE QuorumState(q, a, r, n)
  BY DEF StageVerdict
<1> HIDE DEF a, r, n, q, verdict
<1>6. a + r <= n
  BY <1>2
<1>7. verdict = "MET" => q # NoResult /\ Enough(q, a, n)
  BY <1>2, <1>3, <1>4, <1>5, <1>6, MetMeansEnough
<1>8. ASSUME verdict = "FAILED" PROVE ~Enough(q, a + k, n)
  <2>1. ~Enough(q, a + (n - (a + r)), n)
    BY <1>2, <1>3, <1>4, <1>5, <1>6, <1>8, FailedMeansHopeless
  <2>2. n - (a + r) = k
    BY <1>2
  <2> QED
    BY <2>1, <2>2
<1>9. ASSUME verdict = "PENDING" PROVE Undecideds(f, i, s) # {}
  <2> SUFFICES ASSUME Undecideds(f, i, s) = {} PROVE FALSE
    OBVIOUS
  <2>1. k = 0
    BY FS_EmptySet
  <2>2. n = a + r /\ a + r > 0
    BY <1>2, <1>3, <2>1
  <2>3. q \in Quora /\ QuorumState(q, a, r, a + r) = "PENDING"
    BY <1>4, <1>5, <1>9, <2>2
  <2>4. QuorumState(q, a, r, a + r) \in {"MET", "FAILED"}
    BY <1>2, <2>2, <2>3, ExhaustedStageIsDecided
  <2> QED
    BY <2>3, <2>4
<1> QED
  BY <1>7, <1>8, <1>9 DEF f, q, a, n, verdict

\* g has the rows of f in the stage, the open ones retired.
RetiredRows(f, g, i, s, marker) ==
  \A w \in Users :
    g[<<i, s, w>>] = IF f[<<i, s, w>>].state = "PENDING"
                     THEN [f[<<i, s, w>>] EXCEPT !.state = "SKIPPED", !.marker = marker]
                     ELSE f[<<i, s, w>>]

\* The stage a decision closes: its open rows are retired with the marker of its ending.
LEMMA ClosedStage ==
  ASSUME StageInv, NEW i \in Instances, NEW s \in Stages, NEW u \in Users, NEW actor \in Users,
         NEW o \in {"approve", "reject"}, Decidable(i, s, u, actor, o), instState[i] = s,
         NEW f, f = WithOutcome(i, s, u, actor, o),
         NEW v, v = StageVerdict(f, i, s), v # "PENDING", closed'[i][s] = v,
         context'[i] = context[i],
         NEW marker, marker = IF v = "MET" THEN "quorum_skip" ELSE "failed_stage_skip",
         RetiredRows(f, task', i, s, marker), instState'[i] # s,
         \A later \in LaterThan(s) : instState'[i] \in later \cup Terminals
  PROVE  StageOK(i, s)'
<1>1. RowsDecided(f, i, s, u)
  BY DecidedRows
<1>2. ASSUME NEW w \in Users
      PROVE  /\ task'[<<i, s, w>>].state = IF f[<<i, s, w>>].state = "PENDING"
                                           THEN "SKIPPED" ELSE f[<<i, s, w>>].state
             /\ task'[<<i, s, w>>].outcome = f[<<i, s, w>>].outcome
             /\ task'[<<i, s, w>>].by = f[<<i, s, w>>].by
             /\ task'[<<i, s, w>>].marker = IF f[<<i, s, w>>].state = "PENDING"
                                            THEN marker ELSE f[<<i, s, w>>].marker
  <2>1. f[<<i, s, w>>] \in TaskRecords
    BY <1>1 DEF RowsDecided, Tasks
  <2> QED
    BY <2>1 DEF TaskRecords, RetiredRows
<1>3. v \in {"MET", "FAILED", "unresolvable_quorum"}
  BY StageVerdictType
<1>4. RowsAgree(i, s)' /\ ApproversDiffer(i, s)'
  <2>1. RowsAgree(i, s)'
    BY <1>1, <1>2 DEF RowsDecided, RowsAgree
  <2>2. ApproversDiffer(i, s)'
    BY <1>1, <1>2 DEF RowsDecided, ApproversDiffer
  <2> QED
    BY <2>1, <2>2
<1>5. MarkersTell(i, s)'
  BY <1>1, <1>2, <1>3 DEF RowsDecided, MarkersTell
<1>6. Entered(i, s) /\ Entered(i, s)'
  BY <1>1, <1>2 DEF RowsDecided, Entered, Decidable
<1>7. GoesForward(i, s)'
  <2>1. StageDef[s].mode = "PARALLEL"
    BY <1>6 DEF StageInv, StageOK, GoesForward
  <2> QED
    BY <2>1 DEF GoesForward, LaterThan, Successors
<1>8. ClosedIsLeft(i, s)' /\ HasWork(i, s)'
  BY <1>6 DEF ClosedIsLeft, HasWork
<1>9. /\ Approvers(task, i, s)' = Approvers(f, i, s)
      /\ StageTasks(task, i, s)' = StageTasks(f, i, s)
      /\ Skipped(task, i, s)' = Undecideds(f, i, s)
  <2>1. Approvals(task, i, s)' = Approvals(f, i, s)
    BY <1>2 DEF Approvals
  <2>2. Approvers(task, i, s)' = Approvers(f, i, s)
    <3>1. \A w \in Approvals(f, i, s) : task'[<<i, s, w>>].by = f[<<i, s, w>>].by
      BY <1>2 DEF Approvals
    <3> HIDE DEF Approvals
    <3> QED
      BY <2>1, <3>1 DEF Approvers
  <2>3. StageTasks(task, i, s)' = StageTasks(f, i, s)
    BY <1>2 DEF StageTasks
  <2>4. Skipped(task, i, s)' = Undecideds(f, i, s)
    <3>1. \A w \in Users : task'[<<i, s, w>>].state = "SKIPPED"
                             <=> f[<<i, s, w>>].state \in {"PENDING", "SKIPPED"}
      BY <1>1, <1>2 DEF RowsDecided
    <3> QED
      BY <3>1 DEF Skipped, Undecideds
  <2> QED
    BY <2>2, <2>3, <2>4
<1>10. EndedRight(i, s)'
  <2> DEFINE q == QuorumOf(s, context[i])
             a == Cardinality(Approvers(f, i, s))
             n == Cardinality(StageTasks(f, i, s))
             k == Cardinality(Undecideds(f, i, s))
  <2>1. /\ v = "MET" => q # NoResult /\ Enough(q, a, n)
        /\ v = "FAILED" => ~Enough(q, a + k, n)
    BY VerdictIsRight
  <2> QED
    BY <1>9, <2>1 DEF EndedRight
<1> QED
  BY <1>4, <1>5, <1>7, <1>8, <1>10 DEF StageOK

\* The stage a decision leaves open: somebody is left to decide it.
LEMMA OpenStage ==
  ASSUME StageInv, NEW i \in Instances, NEW s \in Stages, NEW u \in Users, NEW actor \in Users,
         NEW o \in {"approve", "reject"}, Decidable(i, s, u, actor, o), instState[i] = s,
         NEW f, f = WithOutcome(i, s, u, actor, o), StageVerdict(f, i, s) = "PENDING",
         task' = f, closed' = closed, context' = context, instState'[i] = s
  PROVE  StageOK(i, s)'
<1>1. RowsDecided(f, i, s, u)
  BY DecidedRows
<1>2. RowsAgree(i, s)' /\ ApproversDiffer(i, s)' /\ MarkersTell(i, s)'
  BY <1>1 DEF RowsDecided, RowsAgree, ApproversDiffer, MarkersTell
<1>3. Entered(i, s)
  BY DEF Entered, Decidable
<1>4. GoesForward(i, s)'
  BY <1>3 DEF StageInv, StageOK, GoesForward, LaterThan, Successors
<1>5. closed[i][s] = "open"
  BY DEF StageInv, StageOK, ClosedIsLeft
<1>6. ClosedIsLeft(i, s)' /\ EndedRight(i, s)'
  BY <1>5 DEF ClosedIsLeft, EndedRight
<1>7. Undecideds(f, i, s) # {}
  BY VerdictIsRight
<1>8. \E w \in Users : f[<<i, s, w>>].state = "PENDING"
  BY <1>1, <1>7 DEF RowsDecided, Undecideds
<1>9. StageVerdict(task, i, s)' = StageVerdict(f, i, s)
  BY DEF StageVerdict, Approvers, Approvals, Rejects, StageTasks
<1>10. HasWork(i, s)'
  BY <1>8, <1>9 DEF HasWork
<1> QED
  BY <1>2, <1>4, <1>6, <1>10 DEF StageOK

\* What closing a stage does to its instance: it moves on to `to' with the task rows g.
MovesOn(i, s, f, marker, to, g) ==
  /\ to \in Stages => StageDef[to].mode = "PARALLEL" /\ Staffable(to, context[i])
  /\ \A x \in Stages : \A later \in LaterThan(x) :
       s \in {x} \cup later => to \in later \cup Terminals
  /\ \A x \in Stages, w \in Users :
       g[<<i, x, w>>] =
         IF x = to /\ w \in Pool(x, context[i]) THEN [NoTask EXCEPT !.state = "PENDING"]
         ELSE IF x = s /\ f[<<i, x, w>>].state = "PENDING"
              THEN [f[<<i, x, w>>] EXCEPT !.state = "SKIPPED", !.marker = marker]
              ELSE f[<<i, x, w>>]

LEMMA ClosingMovesOn ==
  ASSUME EngineTypeOK, NEW i \in Instances, NEW s \in Stages, NEW f,
         NEW v \in {"MET", "FAILED", "unresolvable_quorum"}
  PROVE  MovesOn(i, s, f, IF v = "MET" THEN "quorum_skip" ELSE "failed_stage_skip",
                 AfterVerdict(i, s, f, v).state, AfterVerdict(i, s, f, v).task)
<1>1. \A x \in Stages, w \in Users : <<i, x, w>> \in Tasks
  BY DEF Tasks
<1>2. CASE v = "MET"
  <2> DEFINE to == EnterStage(TransitionTarget(StageDef[s].success, "COMPLETED"), context[i])
             h == Retire(f, i, s, "quorum_skip")
             g == MaterializeStage(h, i, to, context[i])
  <2>1. AfterVerdict(i, s, f, v).state = to /\ AfterVerdict(i, s, f, v).task = g
    BY <1>2 DEF AfterVerdict, Advanced
  <2>2. to \in Stages => StageDef[to].mode = "PARALLEL" /\ Staffable(to, context[i])
    BY EnteredIsStaffed
  <2>3. ASSUME NEW x \in Stages, NEW later \in LaterThan(x), s \in {x} \cup later
        PROVE  to \in later \cup Terminals
    BY <2>3, SuccessLiesLater DEF EngineTypeOK
  <2> HIDE DEF to
  <2>4. ASSUME NEW x \in Stages, NEW w \in Users
        PROVE  g[<<i, x, w>>] =
                 IF x = to /\ w \in Pool(x, context[i]) THEN [NoTask EXCEPT !.state = "PENDING"]
                 ELSE IF x = s /\ f[<<i, x, w>>].state = "PENDING"
                      THEN [f[<<i, x, w>>] EXCEPT !.state = "SKIPPED", !.marker = "quorum_skip"]
                      ELSE f[<<i, x, w>>]
    <3>1. h[<<i, x, w>>] = IF x = s /\ f[<<i, x, w>>].state = "PENDING"
                           THEN [f[<<i, x, w>>] EXCEPT !.state = "SKIPPED",
                                                       !.marker = "quorum_skip"]
                           ELSE f[<<i, x, w>>]
      BY <1>1 DEF Retire
    <3> HIDE DEF h
    <3>2. g[<<i, x, w>>] = IF x = to /\ w \in Pool(x, context[i])
                           THEN [NoTask EXCEPT !.state = "PENDING"] ELSE h[<<i, x, w>>]
      BY <1>1 DEF MaterializeStage
    <3> QED
      BY <3>1, <3>2
  <2> HIDE DEF g
  <2> QED
    BY <1>2, <2>1, <2>2, <2>3, <2>4 DEF MovesOn
<1>3. CASE v # "MET"
  <2> DEFINE to == IF v = "FAILED" THEN TransitionTarget(StageDef[s].reject, "REJECTED")
                   ELSE "NEEDS_ATTENTION"
             g == Retire(f, i, s, "failed_stage_skip")
  <2>1. AfterVerdict(i, s, f, v).state = to /\ AfterVerdict(i, s, f, v).task = g
    BY <1>3 DEF AfterVerdict, Failed
  <2>2. to \in Terminals /\ to \notin Stages
    BY RejectTargetType, StageNames
  <2> HIDE DEF to
  <2>3. ASSUME NEW x \in Stages, NEW w \in Users
        PROVE  g[<<i, x, w>>] = IF x = s /\ f[<<i, x, w>>].state = "PENDING"
                                THEN [f[<<i, x, w>>] EXCEPT !.state = "SKIPPED",
                                                            !.marker = "failed_stage_skip"]
                                ELSE f[<<i, x, w>>]
    BY <1>1 DEF Retire
  <2> HIDE DEF g
  <2> QED
    BY <1>3, <2>1, <2>2, <2>3 DEF MovesOn
<1> QED
  BY <1>2, <1>3

LEMMA DecideKeepsStages ==
  ASSUME StageInv, NEW i \in Instances, NEW s \in Stages, NEW u \in Users, NEW actor \in Users,
         NEW o \in {"approve", "reject"}, Decide(i, s, u, actor, o)
  PROVE  StageInv'
<1> DEFINE f == WithOutcome(i, s, u, actor, o)
           v == StageVerdict(f, i, s)
           to == AfterVerdict(i, s, f, v).state
           g == AfterVerdict(i, s, f, v).task
           marker == IF v = "MET" THEN "quorum_skip" ELSE "failed_stage_skip"
<1>1. /\ EngineInv /\ EngineInv' /\ instState[i] = s
      /\ \A j \in Instances \ {i} : instState'[j] = instState[j]
      /\ \A t \in Tasks : t[1] # i => task'[t] = task[t]
  BY DecideStep DEF StageInv
<1>2. /\ Decidable(i, s, u, actor, o) /\ context' = context
      /\ instState' = [instState EXCEPT ![i] = to] /\ task' = g
      /\ closed' = IF v = "PENDING" THEN closed ELSE [closed EXCEPT ![i][s] = v]
  BY DEF Decide
<1>3. EngineTypeOK /\ EngineTypeOK'
  BY <1>1 DEF EngineInv
<1>4. v \in {"PENDING", "MET", "FAILED", "unresolvable_quorum"}
  BY StageVerdictType
<1>5. instState'[i] = to
  BY <1>2, <1>3 DEF EngineTypeOK
<1>6. \A x \in Stages \ {s}, w \in Users : f[<<i, x, w>>] = task[<<i, x, w>>]
  <2>1. \A x \in Stages \ {s}, w \in Users : <<i, x, w>> \in Tasks /\ <<i, x, w>> # <<i, s, u>>
    BY DEF Tasks
  <2> QED
    BY <1>3, <2>1 DEF WithOutcome, EngineTypeOK
<1>7. ASSUME NEW j \in Instances \ {i}, NEW x \in Stages PROVE StageOK(j, x)'
  <2>1. StageOK(j, x)
    BY DEF StageInv
  <2>2. \A w \in Users : <<j, x, w>> \in Tasks /\ <<j, x, w>>[1] # i
    BY DEF Tasks
  <2>3. closed'[j][x] = closed[j][x]
    BY <1>2, <1>3 DEF EngineTypeOK
  <2>4. Kept(j, x)
    BY <1>1, <1>2, <2>2, <2>3 DEF Kept
  <2>5. instState'[j] = instState[j]
    BY <1>1
  <2> QED
    BY <2>1, <2>4, <2>5, KeptStage
<1>8. CASE v = "PENDING"
  <2>1. to = s /\ g = f
    BY <1>1, <1>8 DEF AfterVerdict
  <2>2. StageOK(i, s)'
    BY <1>1, <1>2, <1>5, <1>8, <2>1, OpenStage
  <2>3. ASSUME NEW x \in Stages \ {s} PROVE StageOK(i, x)'
    <3>1. Kept(i, x)
      BY <1>2, <1>6, <1>8, <2>1 DEF Kept
    <3>2. StageOK(i, x)
      BY DEF StageInv
    <3> QED
      BY <1>1, <1>5, <2>1, <3>1, <3>2, KeptStage
  <2> QED
    BY <1>1, <1>7, <2>2, <2>3 DEF StageInv
<1>9. CASE v # "PENDING"
  <2>1. MovesOn(i, s, f, marker, to, g)
    BY <1>3, <1>4, <1>9, ClosingMovesOn
  <2>2. closed'[i][s] = v /\ \A x \in Stages \ {s} : closed'[i][x] = closed[i][x]
    BY <1>2, <1>3, <1>9 DEF EngineTypeOK
  <2>3. \A x \in Stages : Entered(i, x) =>
          /\ StageDef[x].mode = "PARALLEL"
          /\ \A later \in LaterThan(x) : s \in {x} \cup later
    <3>1. s \notin Terminals
      BY StageNames
    <3> QED
      BY <1>1, <3>1 DEF StageInv, StageOK, GoesForward
  <2> HIDE DEF f, v, to, g, marker
  <2>4. ASSUME NEW x \in Stages, Entered(i, x)
        PROVE  x # to /\ \A later \in LaterThan(x) : to \in later \cup Terminals
    <3>1. \A later \in LaterThan(x) : to \in later \cup Terminals
      BY <2>1, <2>3, <2>4 DEF MovesOn
    <3>2. PICK later : later \in LaterThan(x)
      BY <2>3, <2>4, LaterExists
    <3>3. x \notin later \cup Terminals
      BY <3>2, StageNames DEF LaterThan
    <3> QED
      BY <3>1, <3>2, <3>3
  <2>5. StageOK(i, s)'
    <3>1. Entered(i, s)
      BY <1>2 DEF Entered, Decidable
    <3>2. s # to /\ \A later \in LaterThan(s) : to \in later \cup Terminals
      BY <2>4, <3>1
    <3>3. RetiredRows(f, task', i, s, marker)
      BY <1>2, <2>1, <3>2 DEF MovesOn, RetiredRows
    <3>4. /\ f = WithOutcome(i, s, u, actor, o) /\ v = StageVerdict(f, i, s)
          /\ marker = IF v = "MET" THEN "quorum_skip" ELSE "failed_stage_skip"
      BY DEF f, v, marker
    <3> QED
      BY <1>1, <1>2, <1>5, <1>9, <2>2, <3>2, <3>3, <3>4, ClosedStage
  <2>6. ASSUME NEW x \in Stages \ {s} PROVE StageOK(i, x)'
    <3>1. StageOK(i, x)
      BY DEF StageInv
    <3>2. \A w \in Users : task'[<<i, x, w>>] = IF x = to /\ w \in Pool(x, context[i])
                                                THEN [NoTask EXCEPT !.state = "PENDING"]
                                                ELSE task[<<i, x, w>>]
      BY <1>2, <1>6, <2>1 DEF MovesOn
    <3>3. CASE x = to
      <4>1. /\ ~Entered(i, x) /\ context[i] \in Contexts
            /\ StageDef[x].mode = "PARALLEL" /\ Staffable(x, context[i])
        BY <1>3, <2>1, <2>4, <3>3 DEF MovesOn, EngineTypeOK
      <4> QED
        BY <1>2, <1>3, <1>5, <2>2, <3>1, <3>2, <3>3, <4>1, FreshStage
    <3>4. CASE x # to
      <4>1. Kept(i, x)
        BY <1>2, <2>2, <3>2, <3>4 DEF Kept
      <4> QED
        BY <1>5, <2>4, <3>1, <3>4, <4>1, KeptStage
    <3> QED
      BY <3>3, <3>4
  <2> QED
    BY <1>1, <1>7, <2>5, <2>6 DEF StageInv
<1> QED
  BY <1>8, <1>9

LEMMA StageInvNext == StageInv /\ [EngineNext]_engineVars => StageInv'
<1> SUFFICES ASSUME StageInv, [EngineNext]_engineVars PROVE StageInv'
  OBVIOUS
<1>1. EngineInv' /\ EngineTypeOK
  BY InvNext DEF StageInv, EngineInv
<1>2. ASSUME NEW i \in Instances, NEW e \in Entries, NEW c \in Contexts, Instantiate(i, e, c)
      PROVE  StageInv'
  BY <1>2, InstantiateKeepsStages
<1>3. ASSUME NEW i \in Instances, NEW s \in Stages, NEW u \in Users, NEW actor \in Users,
             NEW o \in {"approve", "reject"}, Decide(i, s, u, actor, o)
      PROVE  StageInv'
  BY <1>3, DecideKeepsStages
<1>4. ASSUME NEW i \in Instances, CancelInstance(i) PROVE StageInv'
  BY <1>4, CancelKeepsStages
<1>5. ASSUME task' = task, closed' = closed, instState' = instState,
             \A j \in Instances, s \in Stages :
               QuorumOf(s, context'[j]) \in {QuorumOf(s, context[j]), NoResult}
      PROVE  StageInv'
  <2>1. ASSUME NEW j \in Instances, NEW s \in Stages PROVE StageOK(j, s)'
    <3>1. Kept(j, s)
      BY <1>5 DEF Kept
    <3>2. StageOK(j, s)
      BY DEF StageInv
    <3> QED
      BY <1>5, <3>1, <3>2, KeptStage
  <2> QED
    BY <1>1, <2>1 DEF StageInv
<1>6. ASSUME NEW i \in Instances, ContextLost(i) PROVE StageInv'
  <2>1. \A j \in Instances : context'[j] = IF j = i THEN NoContext ELSE context[j]
    BY <1>1, <1>6 DEF ContextLost, EngineTypeOK
  <2>2. \A j \in Instances, s \in Stages :
          QuorumOf(s, context'[j]) \in {QuorumOf(s, context[j]), NoResult}
    BY <2>1, LostContextKeepsQuorum
  <2> QED
    BY <1>5, <1>6, <2>2 DEF ContextLost
<1>7. ASSUME NEW r \in Roles, NEW u \in Users, AssignRole(r, u) \/ RevokeRole(r, u)
      PROVE  StageInv'
  BY <1>5, <1>7 DEF AssignRole, RevokeRole
<1>8. CASE UNCHANGED engineVars
  BY <1>5, <1>8 DEF engineVars
<1> QED
  BY <1>2, <1>3, <1>4, <1>6, <1>7, <1>8 DEF EngineNext

LEMMA StageInvHolds == EngineSpec => []StageInv
<1>1. EngineInit => StageInv
  BY StageInvInit
<1>2. StageInv /\ [EngineNext]_engineVars => StageInv'
  BY StageInvNext
<1> QED
  BY <1>1, <1>2, PTL DEF EngineSpec

LEMMA StageInvIsEnough == StageInv => StageEndsAreRight
<1> SUFFICES ASSUME StageInv PROVE StageEndsAreRight
  OBVIOUS
<1>1. EngineTypeOK /\ \A i \in Instances, s \in Stages : StageOK(i, s)
  BY DEF StageInv, EngineInv
<1>2. LiveStageHasWork
  BY <1>1 DEF StageOK, HasWork, LiveStageHasWork
<1>3. AdvancedHadQuorum
  BY <1>1 DEF StageOK, EndedRight, AdvancedHadQuorum
<1>4. FailedWasHopeless
  BY <1>1 DEF StageOK, EndedRight, FailedWasHopeless, Skipped
<1>5. MarkerTellsEnding
  BY <1>1 DEF StageOK, MarkersTell, MarkerTellsEnding
<1> QED
  BY <1>1, <1>2, <1>3, <1>4, <1>5 DEF StageEndsAreRight

-----------------------------------------------------------------------------
\* Every stage of every instance ends as its quorum decides: an instance that waits has an
\* undecided task and an open quorum, a stage advanced has its distinct approvers, one that
\* failed early could not have been saved by the tasks it retired, and the marker of a
\* retired task tells a late decider how the stage ended (engine.decide).
THEOREM StagesEndRight == EngineSpec => []StageEndsAreRight
<1>1. StageInv => StageEndsAreRight
  BY StageInvIsEnough
<1> QED
  BY <1>1, StageInvHolds, PTL

\* A rule that resolves was decided by a branch that matches, or by its default with every
\* discriminator present.
LEMMA ResolvedIsJustified ==
  ASSUME NEW rule, NEW c, Resolve(rule, c) # NoResult
  PROVE  \A k \in DOMAIN rule.branches :
           \/ rule.branches[k].key \in DOMAIN c
           \/ \E j \in DOMAIN rule.branches : Matches(rule.branches[j], c)
<1> SUFFICES ASSUME NEW k \in DOMAIN rule.branches, rule.branches[k].key \notin DOMAIN c,
                    ~ \E j \in DOMAIN rule.branches : Matches(rule.branches[j], c)
             PROVE  FALSE
  OBVIOUS
<1>1. {j \in DOMAIN rule.branches : Matches(rule.branches[j], c)} = {}
  OBVIOUS
<1> QED
  BY <1>1 DEF Resolve

LEMMA MetIsResolved ==
  ASSUME EngineTypeOK, [EngineNext]_engineVars, NEW i \in Instances, NEW s \in Stages,
         closed'[i][s] = "MET", closed[i][s] # "MET"
  PROVE  QuorumOf(s, context[i]) # NoResult
<1>1. ASSUME closed' = closed PROVE FALSE
  BY <1>1
<1>2. PICK j \in Instances, x \in Stages, u \in Users, actor \in Users,
           o \in {"approve", "reject"} : Decide(j, x, u, actor, o)
  BY <1>1 DEF EngineNext, Instantiate, CancelInstance, ContextLost, AssignRole, RevokeRole,
              engineVars
<1> DEFINE f == WithOutcome(j, x, u, actor, o)
           v == StageVerdict(f, j, x)
<1>3. closed' = IF v = "PENDING" THEN closed ELSE [closed EXCEPT ![j][x] = v]
  BY <1>2 DEF Decide
<1> HIDE DEF f, v
<1>4. v = "MET" /\ j = i /\ x = s
  BY <1>3 DEF EngineTypeOK
<1>5. QuorumOf(x, context[j]) = NoResult => v = "unresolvable_quorum"
  BY DEF v, StageVerdict
<1> QED
  BY <1>4, <1>5

\* A missing discriminator never lowers the bar: whatever the rules of a definition, a stage
\* is passed only under a quorum its context really selects (conditions.resolve_conditional).
THEOREM DowngradeIsNeverSilent == EngineSpec => NoSilentDowngrade
<1>1. ASSUME EngineTypeOK, [EngineNext]_engineVars
      PROVE  [\A i \in Instances, s \in Stages :
                closed'[i][s] = "MET" /\ closed[i][s] # "MET" =>
                  \A k \in DOMAIN StageDef[s].quorum.branches :
                     \/ StageDef[s].quorum.branches[k].key \in DOMAIN context[i]
                     \/ \E j \in DOMAIN StageDef[s].quorum.branches :
                           Matches(StageDef[s].quorum.branches[j], context[i])]_engineVars
  <2>1. ASSUME NEW i \in Instances, NEW s \in Stages,
               closed'[i][s] = "MET", closed[i][s] # "MET"
        PROVE  \A k \in DOMAIN StageDef[s].quorum.branches :
                  \/ StageDef[s].quorum.branches[k].key \in DOMAIN context[i]
                  \/ \E j \in DOMAIN StageDef[s].quorum.branches :
                        Matches(StageDef[s].quorum.branches[j], context[i])
    <3>1. Resolve(StageDef[s].quorum, context[i]) # NoResult
      BY <1>1, <2>1, MetIsResolved DEF QuorumOf
    <3> QED
      BY <3>1, ResolvedIsJustified
  <2> QED
    BY <2>1
<1> QED
  BY <1>1, EngineTypeCorrect, PTL DEF EngineSpec, NoSilentDowngrade

-----------------------------------------------------------------------------
(* Change requests.  An approval is an instance of its own, routed by the     *)
(* significance the request still has; every decision in it was an approval   *)
(* its decider signed, and nobody decided in two tiers.                       *)

ApprovalsDiffer ==
  \A d, e \in Dcrs : approval[d] = approval[e] /\ approval[d] # NoInstance => d = e

\* Every decided task of approval i was approved and signed by its candidate.
AllSigned(i) ==
  \A s \in Stages, u \in Users :
    /\ task[<<i, s, u>>].outcome # "reject"
    /\ task[<<i, s, u>>].state = "DONE" =>
         task[<<i, s, u>>].by = u /\ <<i, s, u>> \in signatures

\* An approval is in one of its tiers: the first, or somebody decided there.
InTiers(i, m) ==
  /\ \A tiers \in TierSets(m) : instState[i] \in tiers
  /\ \/ instState[i] = EntryTier(m)
     \/ \E u \in Users : task[<<i, EntryTier(m), u>>].state = "DONE"

SignedBy(d, u) == \E s \in Stages : <<approval[d], s, u>> \in signatures

DcrFits(d) ==
  /\ approval[d] # NoInstance => instState[approval[d]] # "Absent"
  /\ dcrState[d] = "InApproval" <=> ApprovalOpen(d)
  /\ dcrState[d] = "InApproval" =>
       /\ context[approval[d]] = ContextOf(significance[d])
       /\ AllSigned(approval[d]) /\ InTiers(approval[d], significance[d])
  /\ dcrState[d] = "Approved" =>
       /\ \E u \in Users : SignedBy(d, u)
       /\ significance[d] = "MAJOR" => \E u, w \in Users : u # w /\ SignedBy(d, u) /\ SignedBy(d, w)

\* The inductive invariant.
DcrInv == StageInv /\ TypeOK /\ ApprovalsDiffer /\ \A d \in Dcrs : DcrFits(d)

\* Deciding a pending task leaves the other decisions of its stage as they are.
DecisionAdds(f, i, s, u) ==
  /\ \A w \in Users \ {u} : f[<<i, s, w>>] = task[<<i, s, w>>]
  /\ task[<<i, s, u>>].state = "PENDING" /\ task[<<i, s, u>>].outcome = "none"
  /\ StageTasks(f, i, s) = StageTasks(task, i, s)

LEMMA DecidingAdds ==
  ASSUME StageInv, NEW i \in Instances, NEW s \in Stages, NEW u \in Users, NEW actor \in Users,
         NEW o \in {"approve", "reject"}, Decidable(i, s, u, actor, o)
  PROVE  /\ DecisionAdds(WithOutcome(i, s, u, actor, o), i, s, u)
         /\ WithOutcome(i, s, u, actor, o)[<<i, s, u>>] =
              [state |-> "DONE", outcome |-> o, by |-> actor, marker |-> "none"]
         /\ \A x \in Stages \ {s}, w \in Users :
              WithOutcome(i, s, u, actor, o)[<<i, x, w>>] = task[<<i, x, w>>]
<1> DEFINE f == WithOutcome(i, s, u, actor, o)
<1>1. task \in [Tasks -> TaskRecords] /\ \A x \in Stages, w \in Users : <<i, x, w>> \in Tasks
  BY DEF StageInv, EngineInv, EngineTypeOK, Tasks
<1>2. \A x \in Stages, w \in Users :
        f[<<i, x, w>>] = IF x = s /\ w = u
                         THEN [state |-> "DONE", outcome |-> o, by |-> actor, marker |-> "none"]
                         ELSE task[<<i, x, w>>]
  BY <1>1 DEF WithOutcome
<1>3. task[<<i, s, u>>].state = "PENDING" /\ task[<<i, s, u>>].outcome = "none"
  BY DEF Decidable, StageInv, StageOK, RowsAgree
<1> HIDE DEF f
<1>4. StageTasks(f, i, s) = StageTasks(task, i, s)
  <2>1. \A w \in Users : f[<<i, s, w>>].state # "Absent" <=> task[<<i, s, w>>].state # "Absent"
    BY <1>2, <1>3
  <2> QED
    BY <2>1 DEF StageTasks
<1>5. DecisionAdds(f, i, s, u)
  BY <1>2, <1>3, <1>4 DEF DecisionAdds
<1> QED
  BY <1>2, <1>5 DEF f

\* What an open stage counts before the decision.
LEMMA OpenCounts ==
  ASSUME StageInv, NEW i \in Instances, NEW s \in Stages, instState[i] = s,
         QuorumOf(s, context[i]) # NoResult
  PROVE  LET q == QuorumOf(s, context[i])
             a == Cardinality(Approvers(task, i, s))
             r == Cardinality(Rejects(task, i, s))
             n == Cardinality(StageTasks(task, i, s))
         IN  /\ q \in Quora /\ a \in Nat /\ r \in Nat /\ n \in Nat /\ a + r <= n
             /\ QuorumState(q, a, r, n) = "PENDING"
<1> DEFINE q == QuorumOf(s, context[i])
           a == Cardinality(Approvers(task, i, s))
           r == Cardinality(Rejects(task, i, s))
           n == Cardinality(StageTasks(task, i, s))
           k == Cardinality(Undecideds(task, i, s))
<1>1. StageOK(i, s) /\ EngineTypeOK
  BY DEF StageInv, EngineInv
<1>2. Countable(task, i, s)
  BY <1>1 DEF StageOK, RowsAgree, ApproversDiffer, Countable
<1>3. a \in Nat /\ r \in Nat /\ k \in Nat /\ n = a + r + k
  BY <1>1, <1>2, StageCounts DEF EngineTypeOK
<1>4. q \in Quora
  BY <1>1, ConstantsAssumption DEF EngineTypeOK, QuorumOf
<1>5. StageVerdict(task, i, s) \in {"PENDING", "unresolvable_quorum"}
  BY <1>1 DEF StageOK, HasWork
<1>6. StageVerdict(task, i, s) = QuorumState(q, a, r, n)
  BY DEF StageVerdict
<1>7. QuorumState(q, a, r, n) \in Verdicts
  BY VerdictType
<1> QED
  BY <1>3, <1>4, <1>5, <1>6, <1>7 DEF Verdicts

\* A rejection never completes a quorum.
LEMMA RejectionIsNotMet ==
  ASSUME StageInv, NEW i \in Instances, NEW s \in Stages, NEW u \in Users, NEW actor \in Users,
         Decidable(i, s, u, actor, "reject"), instState[i] = s
  PROVE  StageVerdict(WithOutcome(i, s, u, actor, "reject"), i, s) # "MET"
<1> DEFINE f == WithOutcome(i, s, u, actor, "reject")
           q == QuorumOf(s, context[i])
           a == Cardinality(Approvers(f, i, s))
           r == Cardinality(Rejects(task, i, s))
           n == Cardinality(StageTasks(f, i, s))
<1> SUFFICES ASSUME StageVerdict(f, i, s) = "MET" PROVE FALSE
  OBVIOUS
<1>1. q # NoResult /\ Enough(q, a, n)
  BY VerdictIsRight
<1>2. DecisionAdds(f, i, s, u) /\ f[<<i, s, u>>].outcome = "reject"
  <2>1. /\ DecisionAdds(f, i, s, u)
        /\ f[<<i, s, u>>] = [state |-> "DONE", outcome |-> "reject", by |-> actor, marker |-> "none"]
    BY DecidingAdds, ZenonT(40)
  <2> HIDE DEF f
  <2> QED
    BY <2>1
<1> HIDE DEF f
<1>3. Approvals(f, i, s) = Approvals(task, i, s)
  <2>1. \A w \in Users : f[<<i, s, w>>].outcome = "approve" <=> task[<<i, s, w>>].outcome = "approve"
    BY <1>2 DEF DecisionAdds
  <2> QED
    BY <2>1 DEF Approvals
<1>4. Approvers(f, i, s) = Approvers(task, i, s)
  <2>1. \A w \in Approvals(f, i, s) : f[<<i, s, w>>].by = task[<<i, s, w>>].by
    BY <1>2 DEF DecisionAdds, Approvals
  <2> QED
    BY <1>3, <2>1 DEF Approvers
<1>5. StageTasks(f, i, s) = StageTasks(task, i, s)
  BY <1>2 DEF DecisionAdds
<1>6. /\ q \in Quora /\ a \in Nat /\ r \in Nat /\ n \in Nat /\ a + r <= n
      /\ QuorumState(q, a, r, n) = "PENDING"
  BY <1>1, <1>4, <1>5, OpenCounts
<1>7. n > 0
  <2>1. u \in StageTasks(task, i, s) /\ StageTasks(task, i, s) \subseteq Users
    BY <1>2 DEF DecisionAdds, StageTasks
  <2>2. IsFiniteSet(StageTasks(task, i, s))
    BY <2>1, UserSetsAreFinite
  <2>3. n # 0
    BY <1>5, <2>1, <2>2, FS_EmptySet
  <2> QED
    BY <1>6, <2>3
<1> HIDE DEF a, r, n, q
<1> QED
  BY <1>1, <1>6, <1>7, MetMeansEnough

\* Without a rejection a quorum that was open stays in reach.
LEMMA WithoutRejectionInReach ==
  ASSUME NEW q \in Quora, NEW a \in Nat, NEW b \in Nat, NEW n \in Nat, a <= n, b <= n, b > 0,
         QuorumState(q, a, 0, n) = "PENDING"
  PROVE  QuorumState(q, b, 0, n) # "FAILED"
<1>1. Undecided(a, 0, n) = n - a /\ Undecided(b, 0, n) = n - b
  BY DEF Undecided
<1>2. a + (n - a) = n /\ b + (n - b) = n
  OBVIOUS
<1>3. CASE q.type = "ALL"
  BY <1>3 DEF QuorumState, Verdict
<1>4. CASE q.type = "N_OF_M"
  BY <1>1, <1>2, <1>4 DEF QuorumState, Verdict
<1>5. CASE q.type = "PERCENT"
  BY <1>1, <1>2, <1>5 DEF QuorumState, Verdict
<1>6. CASE q.type \notin {"ALL", "N_OF_M", "PERCENT"}
  BY <1>6 DEF QuorumState, Verdict
<1> QED
  BY <1>3, <1>4, <1>5, <1>6

\* An approval never fails the stage of an approval nobody rejected.
LEMMA ApprovalDoesNotFail ==
  ASSUME StageInv, NEW i \in Instances, NEW s \in Stages, NEW u \in Users, NEW actor \in Users,
         Decidable(i, s, u, actor, "approve"), instState[i] = s,
         \A w \in Users : task[<<i, s, w>>].outcome # "reject"
  PROVE  StageVerdict(WithOutcome(i, s, u, actor, "approve"), i, s) # "FAILED"
<1> DEFINE f == WithOutcome(i, s, u, actor, "approve")
           q == QuorumOf(s, context[i])
           a == Cardinality(Approvers(task, i, s))
           b == Cardinality(Approvers(f, i, s))
           n == Cardinality(StageTasks(f, i, s))
<1>1. CASE q = NoResult
  BY <1>1 DEF StageVerdict
<1>2. CASE q # NoResult
  <2>1. DecisionAdds(f, i, s, u) /\ f[<<i, s, u>>].outcome = "approve" /\ f[<<i, s, u>>].by = actor
    <3>1. /\ DecisionAdds(f, i, s, u)
          /\ f[<<i, s, u>>] = [state |-> "DONE", outcome |-> "approve", by |-> actor, marker |-> "none"]
      BY DecidingAdds, ZenonT(40)
    <3> HIDE DEF f
    <3> QED
      BY <3>1
  <2>2. RowsDecided(f, i, s, u)
    BY DecidedRows
  <2>3. StageVerdict(f, i, s) = QuorumState(q, b, Cardinality(Rejects(f, i, s)), n)
    BY <1>2 DEF StageVerdict
  <2> HIDE DEF f
  <2>4. Rejects(f, i, s) = {} /\ Rejects(task, i, s) = {}
    BY <2>1 DEF DecisionAdds, Rejects
  <2>5. Cardinality(Rejects(f, i, s)) = 0 /\ Cardinality(Rejects(task, i, s)) = 0
    BY <2>4, FS_EmptySet
  <2>6. StageTasks(f, i, s) = StageTasks(task, i, s)
    BY <2>1 DEF DecisionAdds
  <2>7. q \in Quora /\ a \in Nat /\ n \in Nat /\ a <= n /\ QuorumState(q, a, 0, n) = "PENDING"
    BY <1>2, <2>5, <2>6, OpenCounts
  <2>8. b \in Nat /\ b <= n
    <3>1. Countable(f, i, s) /\ f \in [Tasks -> TaskRecords]
      BY <2>2 DEF RowsDecided, Countable
    <3>2. /\ b \in Nat /\ Cardinality(Undecideds(f, i, s)) \in Nat
          /\ n = b + Cardinality(Rejects(f, i, s)) + Cardinality(Undecideds(f, i, s))
      BY <3>1, StageCounts
    <3> QED
      BY <2>5, <3>2
  <2>9. b > 0
    <3>1. actor \in Approvers(f, i, s)
      BY <2>1 DEF Approvers, Approvals
    <3>2. Approvers(f, i, s) \subseteq Users
      BY <2>2, ZenonT(40) DEF RowsDecided, Approvers, Approvals
    <3>3. IsFiniteSet(Approvers(f, i, s))
      BY <3>2, UserSetsAreFinite
    <3>4. b # 0
      BY <3>1, <3>3, FS_EmptySet
    <3> QED
      BY <2>8, <3>4
  <2> HIDE DEF a, b, n, q
  <2>10. StageVerdict(f, i, s) # "FAILED"
    BY <2>3, <2>5, <2>7, <2>8, <2>9, WithoutRejectionInReach
  <2> QED
    BY <2>10 DEF f
<1> QED
  BY <1>1, <1>2

\* A refusal ends its instance at once: the rest of decide_dcr_approval aside, what RefuseDcr does
\* to the engine's rows.
Refuses(i, s, u) ==
  LET f == WithOutcome(i, s, u, u, "reject")
      verdict == StageVerdict(f, i, s)
      after == Refused(i, AfterVerdict(i, s, f, verdict))
  IN  /\ Decidable(i, s, u, u, "reject")
      /\ instState' = [instState EXCEPT ![i] = after.state]
      /\ task' = after.task
      /\ closed' = IF verdict = "PENDING" THEN closed ELSE [closed EXCEPT ![i][s] = verdict]
      /\ members' = members /\ context' = context

\* The rows g after a refusal in stage s, from the rows f with the rejection in them.
RowsRefused(f, g, i, s, v) ==
  /\ \A w \in Users :
       g[<<i, s, w>>] =
         IF f[<<i, s, w>>].state = "PENDING"
         THEN IF v = "PENDING" THEN [f[<<i, s, w>>] EXCEPT !.state = "SKIPPED"]
              ELSE [f[<<i, s, w>>] EXCEPT !.state = "SKIPPED", !.marker = "failed_stage_skip"]
         ELSE f[<<i, s, w>>]
  /\ \A j \in Instances, x \in Stages, w \in Users :
       j # i \/ x # s => g[<<j, x, w>>] = task[<<j, x, w>>]

LEMMA RefusalRows ==
  ASSUME StageInv, NEW i \in Instances, NEW s \in Stages, NEW u \in Users, Refuses(i, s, u)
  PROVE  LET f == WithOutcome(i, s, u, u, "reject")
             v == StageVerdict(f, i, s)
         IN  /\ instState[i] = s /\ Decidable(i, s, u, u, "reject")
             /\ v \in {"PENDING", "FAILED", "unresolvable_quorum"}
             /\ task' \in [Tasks -> TaskRecords] /\ RowsRefused(f, task', i, s, v)
             /\ instState' = [instState EXCEPT ![i] = "REJECTED"]
             /\ closed' = IF v = "PENDING" THEN closed ELSE [closed EXCEPT ![i][s] = v]
             /\ members' = members /\ context' = context
<1> DEFINE f == WithOutcome(i, s, u, u, "reject")
           v == StageVerdict(f, i, s)
           g == AfterVerdict(i, s, f, v).task
           h == [t \in Tasks |-> IF t[1] = i /\ g[t].state = "PENDING"
                                 THEN [g[t] EXCEPT !.state = "SKIPPED"] ELSE g[t]]
<1>1. EngineTypeOK /\ PendingOnlyInCurrentStage
  BY DEF StageInv, EngineInv
<1>2. /\ Decidable(i, s, u, u, "reject")
      /\ closed' = IF v = "PENDING" THEN closed ELSE [closed EXCEPT ![i][s] = v]
      /\ members' = members /\ context' = context
  BY DEF Refuses
<1>3. instState' = [instState EXCEPT ![i] = "REJECTED"] /\ task' = h
  BY DEF Refuses, Refused
<1>4. instState[i] = s
  BY <1>1, <1>2 DEF PendingOnlyInCurrentStage, Decidable
<1>5. v \in {"PENDING", "FAILED", "unresolvable_quorum"}
  BY <1>2, <1>4, StageVerdictType, RejectionIsNotMet
<1>6. f \in [Tasks -> TaskRecords]
  BY <1>1, WithOutcomeType DEF EngineTypeOK
<1>7. g = IF v = "PENDING" THEN f ELSE Retire(f, i, s, "failed_stage_skip")
  BY <1>5 DEF AfterVerdict, Failed
<1>8. \A t \in Tasks : t # <<i, s, u>> => f[t] = task[t]
  BY <1>1 DEF WithOutcome, EngineTypeOK
<1> HIDE DEF f, v
<1>9. g \in [Tasks -> TaskRecords]
  BY <1>6, <1>7, RetireType
<1>10. \A t \in Tasks : g[t] = IF v # "PENDING" /\ t[1] = i /\ t[2] = s /\ f[t].state = "PENDING"
                               THEN [f[t] EXCEPT !.state = "SKIPPED", !.marker = "failed_stage_skip"]
                               ELSE f[t]
  BY <1>7 DEF Retire
<1> HIDE DEF g
<1>11. h \in [Tasks -> TaskRecords]
  <2>1. ASSUME NEW t \in Tasks PROVE h[t] \in TaskRecords
    <3>1. g[t] \in TaskRecords
      BY <1>9
    <3> QED
      BY <3>1 DEF TaskRecords
  <2> QED
    BY <2>1
<1>12. ASSUME NEW w \in Users
       PROVE  h[<<i, s, w>>] =
                IF f[<<i, s, w>>].state = "PENDING"
                THEN IF v = "PENDING" THEN [f[<<i, s, w>>] EXCEPT !.state = "SKIPPED"]
                     ELSE [f[<<i, s, w>>] EXCEPT !.state = "SKIPPED", !.marker = "failed_stage_skip"]
                ELSE f[<<i, s, w>>]
  <2>1. <<i, s, w>> \in Tasks /\ f[<<i, s, w>>] \in TaskRecords
    BY <1>6 DEF Tasks
  <2>2. h[<<i, s, w>>] = IF g[<<i, s, w>>].state = "PENDING"
                         THEN [g[<<i, s, w>>] EXCEPT !.state = "SKIPPED"] ELSE g[<<i, s, w>>]
    BY <2>1
  <2> HIDE DEF h
  <2>3. g[<<i, s, w>>] = IF v # "PENDING" /\ f[<<i, s, w>>].state = "PENDING"
                         THEN [f[<<i, s, w>>] EXCEPT !.state = "SKIPPED",
                                                     !.marker = "failed_stage_skip"]
                         ELSE f[<<i, s, w>>]
    BY <1>10, <2>1
  <2>4. CASE v # "PENDING" /\ f[<<i, s, w>>].state = "PENDING"
    <3>1. g[<<i, s, w>>].state = "SKIPPED"
      BY <2>1, <2>3, <2>4 DEF TaskRecords
    <3> QED
      BY <2>2, <2>3, <2>4, <3>1
  <2>5. CASE ~(v # "PENDING" /\ f[<<i, s, w>>].state = "PENDING")
    BY <2>2, <2>3, <2>5
  <2> QED
    BY <2>4, <2>5
<1>13. ASSUME NEW j \in Instances, NEW x \in Stages, NEW w \in Users, j # i \/ x # s
       PROVE  h[<<j, x, w>>] = task[<<j, x, w>>]
  <2>1. <<j, x, w>> \in Tasks /\ <<j, x, w>> # <<i, s, u>>
    BY <1>13 DEF Tasks
  <2>2. g[<<j, x, w>>] = task[<<j, x, w>>]
    BY <1>8, <1>10, <1>13, <2>1
  <2>3. j = i => task[<<j, x, w>>].state # "PENDING"
    BY <1>1, <1>4, <1>13 DEF PendingOnlyInCurrentStage
  <2> QED
    BY <2>1, <2>2, <2>3
<1> HIDE DEF h
<1>14. RowsRefused(f, h, i, s, v)
  BY <1>12, <1>13 DEF RowsRefused
<1> QED
  BY <1>2, <1>3, <1>4, <1>5, <1>11, <1>14 DEF f, v

\* The stage a refusal leaves undecided: its open rows are withdrawn without a marker.
LEMMA WithdrawnStage ==
  ASSUME StageInv, NEW i \in Instances, NEW s \in Stages, NEW u \in Users,
         Decidable(i, s, u, u, "reject"), instState[i] = s,
         NEW f, f = WithOutcome(i, s, u, u, "reject"), RowsRefused(f, task', i, s, "PENDING"),
         closed'[i][s] = closed[i][s], instState'[i] = "REJECTED"
  PROVE  StageOK(i, s)'
<1>1. RowsDecided(f, i, s, u)
  BY DecidedRows
<1>2. ASSUME NEW w \in Users
      PROVE  /\ task'[<<i, s, w>>].state = IF f[<<i, s, w>>].state = "PENDING"
                                           THEN "SKIPPED" ELSE f[<<i, s, w>>].state
             /\ task'[<<i, s, w>>].outcome = f[<<i, s, w>>].outcome
             /\ task'[<<i, s, w>>].by = f[<<i, s, w>>].by
             /\ task'[<<i, s, w>>].marker = f[<<i, s, w>>].marker
  <2>1. f[<<i, s, w>>] \in TaskRecords
    BY <1>1 DEF RowsDecided, Tasks
  <2> QED
    BY <2>1 DEF TaskRecords, RowsRefused
<1>3. "REJECTED" \in Terminals /\ "REJECTED" # s
  BY StageNames
<1>4. RowsAgree(i, s)'
  BY <1>1, <1>2, <1>3 DEF RowsDecided, RowsAgree
<1>5. ApproversDiffer(i, s)'
  BY <1>1, <1>2 DEF RowsDecided, ApproversDiffer
<1>6. MarkersTell(i, s)'
  BY <1>1, <1>2 DEF RowsDecided, MarkersTell
<1>7. Entered(i, s)
  BY DEF Entered, Decidable
<1>8. GoesForward(i, s)'
  BY <1>3, <1>7 DEF StageInv, StageOK, GoesForward, LaterThan, Successors
<1>9. closed[i][s] = "open"
  BY DEF StageInv, StageOK, ClosedIsLeft
<1>10. ClosedIsLeft(i, s)' /\ HasWork(i, s)' /\ EndedRight(i, s)'
  BY <1>3, <1>9 DEF ClosedIsLeft, HasWork, EndedRight
<1> QED
  BY <1>4, <1>5, <1>6, <1>8, <1>10 DEF StageOK

LEMMA RefusalKeepsStages ==
  ASSUME StageInv, NEW i \in Instances, NEW s \in Stages, NEW u \in Users, Refuses(i, s, u)
  PROVE  StageInv'
<1> DEFINE f == WithOutcome(i, s, u, u, "reject")
           v == StageVerdict(f, i, s)
<1>1. /\ instState[i] = s /\ Decidable(i, s, u, u, "reject")
      /\ v \in {"PENDING", "FAILED", "unresolvable_quorum"}
      /\ task' \in [Tasks -> TaskRecords] /\ RowsRefused(f, task', i, s, v)
      /\ instState' = [instState EXCEPT ![i] = "REJECTED"]
      /\ closed' = IF v = "PENDING" THEN closed ELSE [closed EXCEPT ![i][s] = v]
      /\ members' = members /\ context' = context
  BY RefusalRows
<1>2. EngineTypeOK /\ PendingOnlyInCurrentStage /\ "REJECTED" \in Terminals /\ "REJECTED" \notin Stages
  BY StageNames DEF StageInv, EngineInv
<1>3. RowsDecided(f, i, s, u)
  BY <1>1, DecidedRows
<1>4. /\ f = WithOutcome(i, s, u, u, "reject") /\ v = StageVerdict(f, i, s)
  OBVIOUS
<1> HIDE DEF f, v
<1>5. instState'[i] = "REJECTED" /\ \A j \in Instances \ {i} : instState'[j] = instState[j]
  BY <1>1, <1>2 DEF EngineTypeOK
<1>6. EngineTypeOK'
  <2>1. closed' \in [Instances -> [Stages -> Endings]]
    BY <1>1, <1>2 DEF EngineTypeOK, Endings
  <2>2. instState' \in [Instances -> Targets \cup {"Absent"}]
    BY <1>1, <1>2 DEF EngineTypeOK, Targets
  <2> QED
    BY <1>1, <1>2, <2>1, <2>2 DEF EngineTypeOK
<1>7. PendingOnlyInCurrentStage'
  <2> SUFFICES ASSUME NEW j \in Instances, NEW x \in Stages, NEW w \in Users,
                      task'[<<j, x, w>>].state = "PENDING"
               PROVE  instState'[j] = x
    BY DEF PendingOnlyInCurrentStage
  <2>1. CASE j = i /\ x = s
    <3>1. f[<<i, s, w>>] \in TaskRecords
      BY <1>3 DEF RowsDecided, Tasks
    <3>2. task'[<<i, s, w>>].state # "PENDING"
      BY <1>1, <3>1 DEF RowsRefused, TaskRecords
    <3> QED
      BY <2>1, <3>2
  <2>2. CASE j # i \/ x # s
    <3>1. task[<<j, x, w>>].state = "PENDING"
      BY <1>1, <2>2 DEF RowsRefused
    <3>2. instState[j] = x
      BY <1>2, <3>1 DEF PendingOnlyInCurrentStage
    <3> QED
      BY <1>1, <1>5, <2>2, <3>2
  <2> QED
    BY <2>1, <2>2
<1>8. ASSUME NEW j \in Instances, NEW x \in Stages, j # i \/ x # s PROVE StageOK(j, x)'
  <2>1. StageOK(j, x)
    BY DEF StageInv
  <2>2. closed'[j][x] = closed[j][x]
    BY <1>1, <1>2, <1>8 DEF EngineTypeOK
  <2>3. Kept(j, x)
    BY <1>1, <1>8, <2>2 DEF Kept, RowsRefused
  <2>4. j = i => instState'[j] # x /\ instState'[j] \in Terminals
    BY <1>2, <1>5
  <2> QED
    BY <1>5, <2>1, <2>3, <2>4, KeptStage
<1>9. StageOK(i, s)'
  <2>1. CASE v = "PENDING"
    BY <1>1, <1>4, <1>5, <2>1, WithdrawnStage
  <2>2. CASE v # "PENDING"
    <3>1. RetiredRows(f, task', i, s, "failed_stage_skip")
      BY <1>1, <2>2 DEF RowsRefused, RetiredRows
    <3>2. closed'[i][s] = v
      BY <1>1, <1>2, <2>2 DEF EngineTypeOK
    <3>3. instState'[i] # s /\ \A later \in LaterThan(s) : instState'[i] \in later \cup Terminals
      BY <1>2, <1>5
    <3>4. "failed_stage_skip" = IF v = "MET" THEN "quorum_skip" ELSE "failed_stage_skip"
      BY <1>1
    <3>5. context'[i] = context[i]
      BY <1>1
    <3> QED
      BY <1>1, <1>4, <2>2, <3>1, <3>2, <3>3, <3>4, <3>5, ClosedStage
  <2> QED
    BY <2>1, <2>2
<1> QED
  BY <1>6, <1>7, <1>8, <1>9 DEF StageInv, EngineInv

\* What an approval leaves of the decisions of its instance.
DecisionsKept(i, s, u) ==
  \A x \in Stages, w \in Users :
    IF x = s /\ w = u
    THEN /\ task'[<<i, x, w>>].state = "DONE" /\ task'[<<i, x, w>>].outcome = "approve"
         /\ task'[<<i, x, w>>].by = u
    ELSE /\ task'[<<i, x, w>>].outcome = task[<<i, x, w>>].outcome
         /\ task[<<i, x, w>>].state = "DONE" => task'[<<i, x, w>>] = task[<<i, x, w>>]
         /\ task'[<<i, x, w>>].state = "DONE" => task'[<<i, x, w>>] = task[<<i, x, w>>]

\* An approval in an approval nobody rejected waits in its tier, passes it, or needs attention.
LEMMA ApprovalMoves ==
  ASSUME StageInv, NEW i \in Instances, NEW s \in Stages, NEW u \in Users,
         Decide(i, s, u, u, "approve"),
         \A w \in Users : task[<<i, s, w>>].outcome # "reject"
  PROVE  /\ instState[i] = s /\ context' = context
         /\ instState'[i] \in {s, "NEEDS_ATTENTION",
              Landing(TransitionTarget(StageDef[s].success, "COMPLETED"), context[i])}
         /\ DecisionsKept(i, s, u)
         /\ \A j \in Instances \ {i} : instState'[j] = instState[j]
         /\ \A j \in Instances \ {i}, x \in Stages, w \in Users :
              task'[<<j, x, w>>] = task[<<j, x, w>>]
<1> DEFINE f == WithOutcome(i, s, u, u, "approve")
           v == StageVerdict(f, i, s)
           to == AfterVerdict(i, s, f, v).state
           g == AfterVerdict(i, s, f, v).task
           key == TransitionTarget(StageDef[s].success, "COMPLETED")
<1>1. /\ EngineInv /\ instState[i] = s
      /\ \A j \in Instances \ {i} : instState'[j] = instState[j]
      /\ \A t \in Tasks : t[1] # i => task'[t] = task[t]
  BY DecideStep DEF StageInv
<1>2. /\ Decidable(i, s, u, u, "approve") /\ context' = context
      /\ instState' = [instState EXCEPT ![i] = to] /\ task' = g
  BY DEF Decide
<1>3. EngineTypeOK
  BY <1>1 DEF EngineInv
<1>4. v \in {"PENDING", "MET", "unresolvable_quorum"}
  BY <1>1, <1>2, StageVerdictType, ApprovalDoesNotFail
<1>5. instState'[i] = to
  BY <1>2, <1>3 DEF EngineTypeOK
<1>6. to \in {s, "NEEDS_ATTENTION", Landing(key, context[i])}
  <2>1. EnterStage(key, context[i]) \in {"NEEDS_ATTENTION", Landing(key, context[i])}
    BY DEF EnterStage
  <2>2. CASE v = "PENDING"
    BY <1>1, <2>2 DEF AfterVerdict
  <2>3. CASE v = "MET"
    <3> HIDE DEF f, v, key
    <3>1. to = EnterStage(key, context[i])
      BY <2>3 DEF AfterVerdict, Advanced, key
    <3> QED
      BY <2>1, <3>1
  <2>4. CASE v = "unresolvable_quorum"
    BY <2>4 DEF AfterVerdict, Failed
  <2> QED
    BY <1>4, <2>2, <2>3, <2>4
<1>7. /\ DecisionAdds(f, i, s, u)
      /\ f[<<i, s, u>>] = [state |-> "DONE", outcome |-> "approve", by |-> u, marker |-> "none"]
      /\ \A x \in Stages \ {s}, w \in Users : f[<<i, x, w>>] = task[<<i, x, w>>]
  BY <1>2, DecidingAdds, ZenonT(40)
<1>8. f \in [Tasks -> TaskRecords]
  BY <1>3, WithOutcomeType DEF EngineTypeOK
<1>9. v # "PENDING" => MovesOn(i, s, f, IF v = "MET" THEN "quorum_skip" ELSE "failed_stage_skip", to, g)
  BY <1>3, <1>4, ClosingMovesOn
<1>10. v = "PENDING" => g = f
  BY DEF AfterVerdict
<1> HIDE DEF f, v, to, g
<1>11. /\ f[<<i, s, u>>].state = "DONE" /\ f[<<i, s, u>>].outcome = "approve"
       /\ f[<<i, s, u>>].by = u
  BY <1>7
<1>12. ASSUME NEW x \in Stages, Entered(i, x), v # "PENDING" PROVE x # to
  <2>1. /\ StageDef[x].mode = "PARALLEL"
        /\ \A later \in LaterThan(x) : s \in {x} \cup later
    <3>1. s \notin Terminals
      BY StageNames
    <3> QED
      BY <1>1, <1>12, <3>1 DEF StageInv, StageOK, GoesForward
  <2>2. PICK later : later \in LaterThan(x)
    BY <2>1, LaterExists
  <2>3. to \in later \cup Terminals
    BY <1>9, <1>12, <2>1, <2>2 DEF MovesOn
  <2>4. x \notin later \cup Terminals
    BY <2>2, StageNames DEF LaterThan
  <2> QED
    BY <2>3, <2>4
<1>13. Entered(i, s)
  BY <1>2 DEF Entered, Decidable
<1>14. DecisionsKept(i, s, u)
  <2>1. ASSUME NEW x \in Stages, NEW w \in Users, x = s /\ w = u
        PROVE  g[<<i, x, w>>] = f[<<i, x, w>>]
    <3>1. CASE v # "PENDING"
      BY <1>9, <1>11, <1>12, <1>13, <2>1, <3>1 DEF MovesOn
    <3> QED
      BY <1>10, <3>1
  <2>2. ASSUME NEW x \in Stages, NEW w \in Users, ~(x = s /\ w = u)
        PROVE  /\ g[<<i, x, w>>].outcome = task[<<i, x, w>>].outcome
               /\ task[<<i, x, w>>].state = "DONE" => g[<<i, x, w>>] = task[<<i, x, w>>]
               /\ g[<<i, x, w>>].state = "DONE" => g[<<i, x, w>>] = task[<<i, x, w>>]
    <3>1. f[<<i, x, w>>] = task[<<i, x, w>>] /\ task[<<i, x, w>>] \in TaskRecords
      BY <1>3, <1>7, <2>2 DEF DecisionAdds, EngineTypeOK, Tasks
    <3>2. CASE v = "PENDING"
      BY <1>10, <3>1, <3>2
    <3>3. CASE v # "PENDING" /\ x = to /\ w \in Pool(x, context[i])
      <4>1. g[<<i, x, w>>] = [NoTask EXCEPT !.state = "PENDING"]
        BY <1>9, <3>3 DEF MovesOn
      <4>2. g[<<i, x, w>>].state = "PENDING" /\ g[<<i, x, w>>].outcome = "none"
        BY <4>1 DEF NoTask
      <4>3. task[<<i, x, w>>].state = "Absent"
        BY <1>12, <3>3 DEF Entered
      <4>4. task[<<i, x, w>>].outcome = "none"
        BY <4>3 DEF StageInv, StageOK, RowsAgree
      <4> QED
        BY <4>2, <4>3, <4>4
    <3>4. CASE v # "PENDING" /\ ~(x = to /\ w \in Pool(x, context[i]))
      <4>1. PICK m : m = IF v = "MET" THEN "quorum_skip" ELSE "failed_stage_skip"
        OBVIOUS
      <4>2. MovesOn(i, s, f, m, to, g)
        BY <1>9, <3>4, <4>1
      <4>3. g[<<i, x, w>>] = IF x = s /\ f[<<i, x, w>>].state = "PENDING"
                             THEN [f[<<i, x, w>>] EXCEPT !.state = "SKIPPED", !.marker = m]
                             ELSE f[<<i, x, w>>]
        BY <3>4, <4>2 DEF MovesOn
      <4>4. PICK row \in TaskRecords : row = task[<<i, x, w>>] /\ row = f[<<i, x, w>>]
        BY <3>1
      <4>5. g[<<i, x, w>>] = row \/ (/\ row.state = "PENDING"
                                     /\ g[<<i, x, w>>] = [row EXCEPT !.state = "SKIPPED", !.marker = m])
        BY <4>3, <4>4
      <4> QED
        BY <4>4, <4>5 DEF TaskRecords
    <3> QED
      BY <3>2, <3>3, <3>4
  <2> QED
    BY <1>2, <1>11, <2>1, <2>2 DEF DecisionsKept
<1>15. \A j \in Instances \ {i}, x \in Stages, w \in Users :
         task'[<<j, x, w>>] = task[<<j, x, w>>]
  BY <1>1 DEF Tasks
<1> QED
  BY <1>1, <1>2, <1>5, <1>6, <1>14, <1>15

\* The rows of approval i are left alone.
ApprovalKept(i) ==
  /\ instState'[i] = instState[i] /\ context'[i] = context[i]
  /\ \A s \in Stages, u \in Users : task'[<<i, s, u>>] = task[<<i, s, u>>]

LEMMA EntryTierIsStage ==
  ASSUME NEW m \in Significances
  PROVE  EntryTier(m) \in Stages
BY ApprovalGraphAssumption DEF TierSets

LEMMA InTiersAfter ==
  ASSUME NEW i, NEW m, \A tiers \in TierSets(m) : instState'[i] \in tiers,
         \/ instState'[i] = EntryTier(m)
         \/ \E u \in Users : task'[<<i, EntryTier(m), u>>].state = "DONE"
  PROVE  InTiers(i, m)'
BY DEF InTiers, TierSets, EntryTier, NextTier

LEMMA DcrKept ==
  ASSUME TypeOK, NEW d \in Dcrs, DcrFits(d), dcrState'[d] = dcrState[d],
         significance'[d] = significance[d], approval'[d] = approval[d],
         signatures \subseteq signatures', approval[d] # NoInstance => ApprovalKept(approval[d])
  PROVE  DcrFits(d)'
<1> DEFINE i == approval[d]
           m == significance[d]
<1>1. i # NoInstance => instState'[i] # "Absent"
  BY DEF DcrFits, ApprovalKept
<1>2. ApprovalOpen(d)' <=> ApprovalOpen(d)
  BY DEF ApprovalOpen, ApprovalKept
<1>3. ASSUME dcrState[d] = "InApproval"
      PROVE  context'[i] = ContextOf(m) /\ AllSigned(i)' /\ InTiers(i, m)'
  <2>1. i # NoInstance /\ ApprovalKept(i)
    BY <1>3 DEF DcrFits, ApprovalOpen
  <2>2. context[i] = ContextOf(m) /\ AllSigned(i) /\ InTiers(i, m)
    BY <1>3 DEF DcrFits
  <2>3. AllSigned(i)'
    BY <2>1, <2>2 DEF AllSigned, ApprovalKept
  <2>4. EntryTier(m) \in Stages
    BY EntryTierIsStage DEF TypeOK
  <2>5. InTiers(i, m)'
    BY <2>1, <2>2, <2>4, InTiersAfter DEF InTiers, ApprovalKept
  <2> QED
    BY <2>1, <2>2, <2>3, <2>5 DEF ApprovalKept
<1>4. \A u \in Users : SignedBy(d, u) => SignedBy(d, u)'
  BY DEF SignedBy
<1>5. dcrState[d] = "Approved" =>
        /\ \E u \in Users : SignedBy(d, u)'
        /\ m = "MAJOR" => \E u, w \in Users : u # w /\ SignedBy(d, u)' /\ SignedBy(d, w)'
  BY <1>4 DEF DcrFits
<1> QED
  BY <1>1, <1>2, <1>3, <1>5 DEF DcrFits, ContextOf

LEMMA DcrInvInit == Init => DcrInv
<1> SUFFICES ASSUME Init PROVE DcrInv
  OBVIOUS
<1>1. StageInv
  BY StageInvInit DEF Init
<1>2. TypeOK
  BY <1>1 DEF Init, TypeOK, StageInv, EngineInv, DcrStates, Significances
<1>3. ApprovalsDiffer /\ \A d \in Dcrs : DcrFits(d)
  BY DEF Init, ApprovalsDiffer, DcrFits, ApprovalOpen
<1> QED
  BY <1>1, <1>2, <1>3 DEF DcrInv

\* Steps that touch neither the engine nor the approval of a request.
LEMMA OutsideApproval ==
  ASSUME DcrInv, NEW d \in Dcrs, NEW to \in DcrStates \ {"InApproval", "Approved"},
         dcrState[d] # "InApproval", dcrState' = [dcrState EXCEPT ![d] = to],
         significance' \in [Dcrs -> Significances],
         \A e \in Dcrs \ {d} : significance'[e] = significance[e],
         UNCHANGED <<engineVars, approval, signatures>>
  PROVE  DcrInv'
<1>1. StageInv'
  <2>1. [EngineNext]_engineVars
    BY DEF engineVars
  <2> QED
    BY <2>1, StageInvNext DEF DcrInv
<1>2. TypeOK'
  BY <1>1 DEF DcrInv, TypeOK, StageInv, EngineInv
<1>3. ApprovalsDiffer'
  BY DEF DcrInv, ApprovalsDiffer
<1>4. ASSUME NEW e \in Dcrs PROVE DcrFits(e)'
  <2>1. CASE e = d
    <3>1. dcrState'[d] = to
      BY DEF DcrInv, TypeOK
    <3>2. ~ApprovalOpen(d)
      BY DEF DcrInv, DcrFits
    <3>3. ~ApprovalOpen(d)' /\ (approval'[d] # NoInstance => instState'[approval'[d]] # "Absent")
      BY <3>2 DEF ApprovalOpen, engineVars, DcrInv, DcrFits
    <3> QED
      BY <2>1, <3>1, <3>3 DEF DcrFits
  <2>2. CASE e # d
    BY <2>2, DcrKept DEF DcrInv, TypeOK, ApprovalKept, engineVars
  <2> QED
    BY <2>1, <2>2
<1> QED
  BY <1>1, <1>2, <1>3, <1>4 DEF DcrInv

LEMMA RouteKeepsDcr ==
  ASSUME DcrInv, NEW d \in Dcrs, NEW i \in Instances, RouteDcr(d, i),
         NEW m, m = significance[d]
  PROVE  DcrInv'
<1>1. /\ dcrState' = [dcrState EXCEPT ![d] = "InApproval"]
      /\ approval' = [approval EXCEPT ![d] = i]
      /\ significance' = significance /\ signatures' = signatures
      /\ Instantiate(i, ApprovalEntry, ContextOf(m)) /\ instState'[i] # "NEEDS_ATTENTION"
  BY DEF RouteDcr
<1>2. StageInv /\ TypeOK /\ EngineTypeOK /\ m \in Significances
  BY DEF DcrInv, TypeOK
<1>3. /\ ApprovalEntry \in Entries /\ ApprovalEntry \notin Malformed /\ ContextOf(m) \in Contexts
      /\ NoInstance \notin Instances
  BY <1>2, DcrAssumption
<1>4. StageInv'
  BY <1>1, <1>2, <1>3, InstantiateKeepsStages
<1>5. TypeOK'
  BY <1>1, <1>2, <1>4 DEF TypeOK, StageInv, EngineInv, DcrStates
<1>6. /\ instState[i] = "Absent" /\ context' = [context EXCEPT ![i] = ContextOf(m)]
      /\ instState' = [instState EXCEPT ![i] = EnterStage(ApprovalEntry, ContextOf(m))]
      /\ task' = MaterializeStage(task, i, EnterStage(ApprovalEntry, ContextOf(m)), ContextOf(m))
  BY <1>1, <1>3 DEF Instantiate
<1>7. instState'[i] = EntryTier(m) /\ context'[i] = ContextOf(m)
  <2>1. instState'[i] = EnterStage(ApprovalEntry, ContextOf(m)) /\ context'[i] = ContextOf(m)
    BY <1>2, <1>6 DEF EngineTypeOK
  <2>2. EnterStage(ApprovalEntry, ContextOf(m)) \in {"NEEDS_ATTENTION", EntryTier(m)}
    BY DEF EnterStage, EntryTier
  <2> QED
    BY <1>1, <2>1, <2>2
<1>8. EntryTier(m) \in Stages
  BY <1>2, EntryTierIsStage
<1>9. \A e \in Dcrs : approval[e] # i
  BY <1>3, <1>6 DEF DcrInv, DcrFits
<1>10. ApprovalsDiffer'
  BY <1>1, <1>2, <1>9 DEF DcrInv, ApprovalsDiffer, TypeOK
<1>11. ASSUME NEW e \in Dcrs \ {d} PROVE DcrFits(e)'
  <2>1. approval[e] # NoInstance => approval[e] \in Instances \ {i}
    BY <1>2, <1>9 DEF TypeOK
  <2>2. approval[e] # NoInstance => ApprovalKept(approval[e])
    <3> SUFFICES ASSUME NEW j \in Instances \ {i} PROVE ApprovalKept(j)
      BY <2>1
    <3>1. instState'[j] = instState[j] /\ context'[j] = context[j]
      BY <1>2, <1>6 DEF EngineTypeOK
    <3>2. \A s \in Stages, u \in Users : task'[<<j, s, u>>] = task[<<j, s, u>>]
      BY <1>6 DEF MaterializeStage, Tasks
    <3> QED
      BY <3>1, <3>2 DEF ApprovalKept
  <2> QED
    BY <1>1, <1>2, <2>2, DcrKept DEF DcrInv, TypeOK
<1>12. DcrFits(d)'
  <2>1. dcrState'[d] = "InApproval" /\ approval'[d] = i /\ significance'[d] = m
    BY <1>1, <1>2 DEF TypeOK
  <2>2. instState'[i] \in Stages /\ instState'[i] # "Absent" /\ i # NoInstance
    BY <1>3, <1>7, <1>8, StageNames DEF Targets
  <2>3. InTiers(i, m)'
    <3>1. \A tiers \in TierSets(m) : EntryTier(m) \in tiers
      BY DEF TierSets
    <3> QED
      BY <1>7, <3>1, InTiersAfter
  <2>4. AllSigned(i)'
    <3> SUFFICES ASSUME NEW s \in Stages, NEW u \in Users
                 PROVE  task'[<<i, s, u>>].outcome # "reject" /\ task'[<<i, s, u>>].state # "DONE"
      BY DEF AllSigned
    <3>1. ~Entered(i, s)
      <4> SUFFICES ASSUME Entered(i, s) PROVE FALSE
        OBVIOUS
      <4>1. /\ StageDef[s].mode = "PARALLEL"
            /\ \A later \in LaterThan(s) : instState[i] \in {s} \cup later \cup Terminals
        BY <1>2 DEF StageInv, StageOK, GoesForward
      <4>2. PICK later : later \in LaterThan(s)
        BY <4>1, LaterExists
      <4>3. "Absent" \in {s} \cup later \cup Terminals /\ later \subseteq Stages
        BY <1>6, <4>1, <4>2 DEF LaterThan
      <4> QED
        BY <4>3, StageNames DEF Targets
    <3>2. task[<<i, s, u>>].state = "Absent" /\ task[<<i, s, u>>].outcome = "none"
      BY <1>2, <3>1 DEF Entered, StageInv, StageOK, RowsAgree
    <3>3. task'[<<i, s, u>>] \in {task[<<i, s, u>>], [NoTask EXCEPT !.state = "PENDING"]}
      BY <1>6 DEF MaterializeStage, Tasks
    <3>4. PICK fresh : fresh = [NoTask EXCEPT !.state = "PENDING"]
      OBVIOUS
    <3>5. fresh.state = "PENDING" /\ fresh.outcome = "none"
      BY <3>4 DEF NoTask
    <3> QED
      BY <3>2, <3>3, <3>4, <3>5
  <2> QED
    BY <1>7, <2>1, <2>2, <2>3, <2>4 DEF DcrFits, ApprovalOpen, ContextOf
<1> QED
  BY <1>4, <1>5, <1>10, <1>11, <1>12 DEF DcrInv

LEMMA ApproveKeepsDcr ==
  ASSUME DcrInv, NEW d \in Dcrs, NEW s \in Stages, NEW u \in Users, ApproveDcr(d, s, u),
         NEW i, i = approval[d], NEW m, m = significance[d]
  PROVE  DcrInv'
<1>1. /\ dcrState[d] = "InApproval" /\ MayDecideDcr(i, s, u)
      /\ Decide(i, s, u, u, "approve") /\ instState'[i] # "NEEDS_ATTENTION"
      /\ signatures' = signatures \cup {<<i, s, u>>}
      /\ dcrState' = [dcrState EXCEPT ![d] =
                        IF instState'[i] = "COMPLETED" THEN "Approved" ELSE @]
      /\ significance' = significance /\ approval' = approval
  BY DEF ApproveDcr
<1>2. StageInv /\ TypeOK /\ EngineTypeOK /\ m \in Significances /\ DcrFits(d)
  BY DEF DcrInv, TypeOK
<1>3. i \in Instances /\ i # NoInstance /\ instState[i] \in Stages
  BY <1>1, <1>2 DEF DcrFits, ApprovalOpen, TypeOK
<1>4. context[i] = ContextOf(m) /\ AllSigned(i) /\ InTiers(i, m)
  BY <1>1, <1>2 DEF DcrFits
<1>5. StageInv'
  BY <1>1, <1>2, <1>3, DecideKeepsStages
<1>6. /\ instState[i] = s /\ context' = context
      /\ instState'[i] \in {s, "NEEDS_ATTENTION",
           Landing(TransitionTarget(StageDef[s].success, "COMPLETED"), context[i])}
      /\ DecisionsKept(i, s, u)
      /\ \A j \in Instances \ {i} : instState'[j] = instState[j]
      /\ \A j \in Instances \ {i}, x \in Stages, w \in Users :
           task'[<<j, x, w>>] = task[<<j, x, w>>]
  <2>1. \A w \in Users : task[<<i, s, w>>].outcome # "reject"
    BY <1>4 DEF AllSigned
  <2> QED
    BY <1>1, <1>2, <1>3, <2>1, ApprovalMoves
<1>7. instState'[i] \in {s, NextTier(s, m)}
  BY <1>1, <1>4, <1>6 DEF NextTier
<1>8. TypeOK'
  <2>1. dcrState' \in [Dcrs -> DcrStates]
    BY <1>1, <1>2 DEF TypeOK, DcrStates
  <2>2. signatures' \in SUBSET Tasks
    BY <1>1, <1>2, <1>3 DEF TypeOK, Tasks
  <2> QED
    BY <1>1, <1>2, <1>5, <2>1, <2>2 DEF TypeOK, StageInv, EngineInv
<1>9. ApprovalsDiffer'
  BY <1>1 DEF DcrInv, ApprovalsDiffer
<1>10. ASSUME NEW e \in Dcrs \ {d} PROVE DcrFits(e)'
  <2>1. approval[e] # NoInstance => approval[e] \in Instances \ {i}
    BY <1>2, <1>3 DEF TypeOK, DcrInv, ApprovalsDiffer
  <2>2. approval[e] # NoInstance => ApprovalKept(approval[e])
    BY <1>6, <2>1 DEF ApprovalKept
  <2> QED
    BY <1>1, <1>2, <2>2, DcrKept DEF DcrInv, TypeOK
<1>11. \A tiers \in TierSets(m) : s \in tiers /\ NextTier(s, m) \in tiers \cup {"COMPLETED"}
  BY <1>4, <1>6 DEF InTiers, TierSets
<1>12. PICK all : all \in TierSets(m) /\ all \subseteq Stages
  BY <1>2, ApprovalGraphAssumption DEF TierSets
<1>13. SignedBy(d, u)'
  BY <1>1 DEF SignedBy
<1>14. EntryTier(m) \in Stages
  BY <1>2, EntryTierIsStage
<1>15. DcrFits(d)'
  <2>1. approval'[d] = i /\ significance'[d] = m /\ instState'[i] # "Absent"
    <3>1. NextTier(s, m) # "Absent" /\ s # "Absent"
      BY <1>11, <1>12, StageNames DEF Targets
    <3> QED
      BY <1>1, <1>7, <3>1
  <2>2. CASE instState'[i] = "COMPLETED"
    <3>1. dcrState'[d] = "Approved"
      BY <1>1, <1>2, <2>2 DEF TypeOK
    <3>2. ~ApprovalOpen(d)'
      BY <2>1, <2>2, StageNames DEF ApprovalOpen
    <3>3. NextTier(s, m) = "COMPLETED"
      BY <1>7, <2>2, StageNames
    <3>4. ASSUME m = "MAJOR" PROVE \E w \in Users : u # w /\ SignedBy(d, w)'
      <4>1. s # EntryTier(m)
        BY <3>3, <3>4, ApprovalGraphAssumption
      <4>2. PICK w \in Users : task[<<i, EntryTier(m), w>>].state = "DONE"
        BY <1>4, <1>6, <4>1 DEF InTiers
      <4>3. /\ task[<<i, EntryTier(m), w>>].by = w
            /\ <<i, EntryTier(m), w>> \in signatures
        BY <1>4, <1>14, <4>2 DEF AllSigned
      <4>4. w \in DecidedIn(i)
        <5>1. <<i, EntryTier(m), w>> \in Tasks /\ <<i, EntryTier(m), w>>[1] = i
          BY <1>3, <1>14 DEF Tasks
        <5> QED
          BY <4>2, <4>3, <5>1 DEF DecidedIn
      <4>5. u # w
        BY <1>1, <4>4 DEF MayDecideDcr
      <4>6. SignedBy(d, w)'
        BY <1>1, <1>14, <4>3 DEF SignedBy
      <4> QED
        BY <4>5, <4>6
    <3> QED
      BY <1>13, <2>1, <2>2, <3>1, <3>2, <3>4 DEF DcrFits
  <2>3. CASE instState'[i] # "COMPLETED"
    <3>1. dcrState'[d] = "InApproval"
      BY <1>1, <1>2, <2>3 DEF TypeOK
    <3>2. \A tiers \in TierSets(m) : instState'[i] \in tiers
      BY <1>7, <1>11, <2>3
    <3>3. instState'[i] \in Stages
      BY <1>12, <3>2
    <3>4. AllSigned(i)'
      <4> SUFFICES ASSUME NEW x \in Stages, NEW w \in Users
                   PROVE  /\ task'[<<i, x, w>>].outcome # "reject"
                          /\ task'[<<i, x, w>>].state = "DONE" =>
                               task'[<<i, x, w>>].by = w /\ <<i, x, w>> \in signatures'
        BY DEF AllSigned
      <4>1. CASE x = s /\ w = u
        BY <1>1, <1>6, <4>1 DEF DecisionsKept
      <4>2. CASE ~(x = s /\ w = u)
        BY <1>1, <1>4, <1>6, <4>2 DEF DecisionsKept, AllSigned
      <4> QED
        BY <4>1, <4>2
    <3>5. \/ instState'[i] = EntryTier(m)
          \/ \E w \in Users : task'[<<i, EntryTier(m), w>>].state = "DONE"
      <4>1. CASE s = EntryTier(m)
        BY <1>6, <4>1 DEF DecisionsKept
      <4>2. CASE s # EntryTier(m)
        <5>1. PICK w \in Users : task[<<i, EntryTier(m), w>>].state = "DONE"
          BY <1>4, <1>6, <4>2 DEF InTiers
        <5>2. task'[<<i, EntryTier(m), w>>] = task[<<i, EntryTier(m), w>>]
          BY <1>6, <1>14, <4>2, <5>1 DEF DecisionsKept
        <5> QED
          BY <5>1, <5>2
      <4> QED
        BY <4>1, <4>2
    <3>6. InTiers(i, m)'
      BY <3>2, <3>5, InTiersAfter
    <3>7. context'[i] = ContextOf(m)
      BY <1>4, <1>6
    <3> QED
      BY <1>3, <2>1, <3>1, <3>3, <3>4, <3>6, <3>7 DEF DcrFits, ApprovalOpen, ContextOf
  <2> QED
    BY <2>2, <2>3
<1> QED
  BY <1>5, <1>8, <1>9, <1>10, <1>15 DEF DcrInv

LEMMA RefuseKeepsDcr ==
  ASSUME DcrInv, NEW d \in Dcrs, NEW s \in Stages, NEW u \in Users, NEW to \in {"Rejected", "Open"},
         RefuseDcr(d, s, u, to)
  PROVE  DcrInv'
<1> DEFINE i == approval[d]
           f == WithOutcome(i, s, u, u, "reject")
           v == StageVerdict(f, i, s)
<1>1. /\ dcrState[d] = "InApproval" /\ dcrState' = [dcrState EXCEPT ![d] = to]
      /\ significance' = significance /\ approval' = approval /\ signatures' = signatures
  BY DEF RefuseDcr
<1>2. StageInv /\ TypeOK /\ EngineTypeOK /\ DcrFits(d)
  BY DEF DcrInv, TypeOK
<1>3. i \in Instances
  BY <1>1, <1>2 DEF DcrFits, ApprovalOpen, TypeOK
<1>4. Refuses(i, s, u)
  BY DEF RefuseDcr, Refuses
<1>5. StageInv'
  BY <1>2, <1>3, <1>4, RefusalKeepsStages
<1>6. /\ RowsRefused(f, task', i, s, v) /\ context' = context
      /\ instState' = [instState EXCEPT ![i] = "REJECTED"]
  BY <1>2, <1>3, <1>4, RefusalRows
<1> HIDE DEF f, v
<1>7. TypeOK'
  BY <1>1, <1>2, <1>5 DEF TypeOK, StageInv, EngineInv, DcrStates
<1>8. ApprovalsDiffer'
  BY <1>1 DEF DcrInv, ApprovalsDiffer
<1>9. ASSUME NEW e \in Dcrs \ {d} PROVE DcrFits(e)'
  <2>1. approval[e] # NoInstance => approval[e] \in Instances \ {i}
    BY <1>2, <1>3, DcrAssumption DEF TypeOK, DcrInv, ApprovalsDiffer
  <2>2. approval[e] # NoInstance => ApprovalKept(approval[e])
    BY <1>2, <1>6, <2>1 DEF ApprovalKept, RowsRefused, EngineTypeOK
  <2> QED
    BY <1>1, <1>2, <2>2, DcrKept DEF DcrInv, TypeOK
<1>10. DcrFits(d)'
  <2>1. dcrState'[d] = to /\ approval'[d] = i /\ instState'[i] = "REJECTED"
    BY <1>1, <1>2, <1>3, <1>6 DEF TypeOK, EngineTypeOK
  <2>2. "REJECTED" \notin Stages
    BY StageNames
  <2> QED
    BY <2>1, <2>2 DEF DcrFits, ApprovalOpen
<1> QED
  BY <1>5, <1>7, <1>8, <1>9, <1>10 DEF DcrInv

LEMMA DcrInvNext == DcrInv /\ [Next]_vars => DcrInv'
<1> SUFFICES ASSUME DcrInv, [Next]_vars PROVE DcrInv'
  OBVIOUS
<1>1. ASSUME NEW d \in Dcrs, NEW m \in Significances, RaiseDcr(d, m) \/ PatchDcr(d, m)
      PROVE  DcrInv'
  <2>1. /\ dcrState[d] \in {"Absent", "Open"} /\ dcrState' = [dcrState EXCEPT ![d] = "Open"]
        /\ significance' = [significance EXCEPT ![d] = m]
        /\ UNCHANGED <<engineVars, approval, signatures>>
    BY <1>1 DEF RaiseDcr, PatchDcr, Editable, DcrInv, TypeOK
  <2>2. significance \in [Dcrs -> Significances]
    BY DEF DcrInv, TypeOK
  <2> QED
    BY <1>1, <2>1, <2>2, OutsideApproval DEF DcrStates
<1>2. ASSUME NEW d \in Dcrs, AssessDcr(d) \/ CancelDcr(d)
      PROVE  DcrInv'
  <2>1. /\ dcrState[d] # "InApproval" /\ significance' = significance
        /\ \E to \in {"Assessed", "Cancelled"} : dcrState' = [dcrState EXCEPT ![d] = to]
        /\ UNCHANGED <<engineVars, approval, signatures>>
    BY <1>2 DEF AssessDcr, CancelDcr
  <2>2. significance \in [Dcrs -> Significances]
    BY DEF DcrInv, TypeOK
  <2> QED
    BY <2>1, <2>2, OutsideApproval DEF DcrStates
<1>3. ASSUME NEW d \in Dcrs, NEW i \in Instances, RouteDcr(d, i) PROVE DcrInv'
  BY <1>3, RouteKeepsDcr
<1>4. ASSUME NEW d \in Dcrs, NEW s \in Stages, NEW u \in Users, ApproveDcr(d, s, u) PROVE DcrInv'
  BY <1>4, ApproveKeepsDcr
<1>5. ASSUME NEW d \in Dcrs, NEW s \in Stages, NEW u \in Users, NEW to \in {"Rejected", "Open"},
             RefuseDcr(d, s, u, to)
      PROVE  DcrInv'
  BY <1>5, RefuseKeepsDcr
<1>6. ASSUME StageInv', UNCHANGED dcrVars, UNCHANGED <<instState, context, task>>
      PROVE  DcrInv'
  <2>1. TypeOK'
    BY <1>6 DEF dcrVars, DcrInv, TypeOK, StageInv, EngineInv
  <2>2. ApprovalsDiffer'
    BY <1>6 DEF dcrVars, DcrInv, ApprovalsDiffer
  <2>3. ASSUME NEW d \in Dcrs PROVE DcrFits(d)'
    <3>1. TypeOK /\ DcrFits(d) /\ ApprovalKept(approval[d])
      BY <1>6 DEF DcrInv, ApprovalKept
    <3> QED
      BY <1>6, <3>1, DcrKept DEF dcrVars
  <2> QED
    BY <1>6, <2>1, <2>2, <2>3 DEF DcrInv
<1>7. ASSUME NEW r \in Roles, NEW u \in Users, AssignRole(r, u) \/ RevokeRole(r, u),
             UNCHANGED dcrVars
      PROVE  DcrInv'
  <2>1. EngineNext
    BY <1>7 DEF EngineNext
  <2>2. StageInv'
    BY <2>1, StageInvNext DEF DcrInv
  <2> QED
    BY <1>6, <1>7, <2>2 DEF AssignRole, RevokeRole
<1>8. CASE UNCHANGED vars
  <2>1. StageInv'
    BY <1>8, StageInvNext DEF DcrInv, vars, engineVars
  <2> QED
    BY <1>6, <1>8, <2>1 DEF vars, engineVars
<1> QED
  BY <1>1, <1>2, <1>3, <1>4, <1>5, <1>7, <1>8 DEF Next

LEMMA DcrInvIsEnough == DcrInv => DcrIsSound
<1> SUFFICES ASSUME DcrInv PROVE DcrIsSound
  OBVIOUS
<1>1. TypeOK /\ PendingOnlyInCurrentStage
  BY DEF DcrInv, StageInv, EngineInv
<1>2. ApprovalIsOpen
  <2>1. ASSUME NEW d \in Dcrs, ApprovalOpen(d)
        PROVE  \E u \in Users : task[<<approval[d], instState[approval[d]], u>>].state = "PENDING"
    <3>1. approval[d] \in Instances /\ instState[approval[d]] \in Stages
      BY <1>1, <2>1 DEF ApprovalOpen, TypeOK
    <3>2. HasWork(approval[d], instState[approval[d]])
      BY <3>1 DEF DcrInv, StageInv, StageOK
    <3> QED
      BY <3>2 DEF HasWork
  <2> QED
    BY <2>1 DEF ApprovalIsOpen, DcrInv, DcrFits
<1>3. ASSUME NEW d \in Dcrs, dcrState[d] = "Approved"
      PROVE  Signers(d) # {} /\ (significance[d] = "MAJOR" => Cardinality(Signers(d)) >= 2)
  <2>1. ASSUME NEW u \in Users, SignedBy(d, u) PROVE u \in Signers(d)
    <3>1. PICK s \in Stages : <<approval[d], s, u>> \in signatures
      BY <2>1 DEF SignedBy
    <3>2. <<approval[d], s, u>>[1] = approval[d] /\ <<approval[d], s, u>>[3] = u
      OBVIOUS
    <3> QED
      BY <3>1, <3>2 DEF Signers
  <2>2. Signers(d) # {}
    BY <1>3, <2>1 DEF DcrInv, DcrFits
  <2>3. ASSUME significance[d] = "MAJOR" PROVE Cardinality(Signers(d)) >= 2
    <3>1. PICK u \in Users, w \in Users : u # w /\ u \in Signers(d) /\ w \in Signers(d)
      BY <1>3, <2>1, <2>3 DEF DcrInv, DcrFits
    <3>2. Signers(d) \subseteq Users
      BY <1>1 DEF Signers, TypeOK, Tasks
    <3>3. IsFiniteSet(Signers(d)) /\ Cardinality(Signers(d)) \in Nat
      BY <3>2, UserSetsAreFinite
    <3>4. {u} \subseteq Signers(d) /\ {w} \subseteq Signers(d) /\ {u, w} \subseteq Signers(d)
      BY <3>1
    <3>5. Cardinality({u}) = 1 /\ Cardinality({w}) = 1
      BY FS_Singleton
    <3>6. {u, w} = {u} \cup {w} /\ {u} \cap {w} = {} /\ {u} \subseteq Users /\ {w} \subseteq Users
      BY <3>1
    <3>7. Cardinality({u, w}) = 2
      <4>1. PICK S, T : S = {u} /\ T = {w}
        OBVIOUS
      <4>2. S \subseteq Users /\ T \subseteq Users /\ S \cap T = {} /\ S \cup T = {u, w}
        BY <3>6, <4>1
      <4>3. Cardinality(S \cup T) = Cardinality(S) + Cardinality(T)
        BY <4>2, DisjointUnion
      <4> QED
        BY <3>5, <4>1, <4>2, <4>3
    <3>8. Cardinality({u, w}) <= Cardinality(Signers(d))
      BY <3>3, <3>4, FS_Subset
    <3> QED
      BY <3>3, <3>7, <3>8
  <2> QED
    BY <2>2, <2>3
<1> QED
  BY <1>1, <1>2, <1>3 DEF DcrIsSound, ApprovedWasSigned

\* For any requests, roles, tiers and quora of the dcr_approval definition, and whoever joins or
\* leaves a role on the way: a request in approval keeps one open approval with a pending task, a
\* request that is not can be routed again, and an approved MAJOR change was signed by two people.
\* (Not that its task can be decided: ApprovalCanBeDecided is refuted.)
THEOREM DcrsStaySound == Spec => []DcrIsSound
<1>1. DcrInv => DcrIsSound
  BY DcrInvIsEnough
<1> QED
  BY <1>1, DcrInvInit, DcrInvNext, PTL DEF Spec
=============================================================================
