--------------------------- MODULE WorkflowEngine ---------------------------
(***************************************************************************)
(* The declarative multi-stage workflow engine: instances walk a graph of   *)
(* stages, each stage hands one task to every member of its pool, and the   *)
(* quorum over the decided tasks advances or fails the stage.               *)
(*                                                                         *)
(* Every decision locks the workflow_instance row and re-reads instance and *)
(* task, so a decision is one atomic step.  A retry of a decision that is   *)
(* answered from the recorded outcome changes nothing and is a stutter.     *)
(***************************************************************************)
EXTENDS WorkflowQuorum, Sequences, FiniteSets

CONSTANTS
  Users, NoUser,   \* app_user rows; no decider yet
  Roles,           \* role names a stage can be assigned to
  Instances,       \* workflow_instance rows
  Stages,          \* stage keys, over all effective definitions
  StageDef,        \* workflow_stage rows: see ConstantsAssumption
  Entries,         \* the entry stage of each effective definition
  Malformed,       \* those whose definition carries an unknown signature meaning
  Contexts,        \* instance contexts: functions from keys to values
  NoContext,       \* the context without a key
  NoResult         \* None: a rule that cannot be resolved

Terminals == {"COMPLETED", "REJECTED", "NEEDS_ATTENTION", "CANCELLED"}
Targets   == Stages \cup Terminals
Modes     == {"PARALLEL", "ROUTER"}

(* A conditional: branches "key == value" in order, then a default.         *)
Matches(branch, c) == branch.key \in DOMAIN c /\ c[branch.key] = branch.value

\* Mutant: an absent discriminator falls through to the default branch.
ResolveFailOpen(rule, c) ==
  LET hits == {k \in DOMAIN rule.branches : Matches(rule.branches[k], c)}
  IN  IF hits # {}
      THEN rule.branches[CHOOSE k \in hits : \A j \in hits : k <= j].result
      ELSE rule.default

Resolve(rule, c) ==
  LET hits == {k \in DOMAIN rule.branches : Matches(rule.branches[k], c)}
  IN  IF hits # {}
      THEN rule.branches[CHOOSE k \in hits : \A j \in hits : k <= j].result
      ELSE IF \E k \in DOMAIN rule.branches : rule.branches[k].key \notin DOMAIN c
           THEN NoResult
           ELSE rule.default

Successors(from) ==
  {s \in Stages : \E p \in from : \/ s = StageDef[p].success
                                 \/ \E c \in Contexts : s = Resolve(StageDef[p].route, c)}

(* No stage that hands out tasks leads back to itself, as in every seeded   *)
(* definition: a stage is entered once, and its rows are one entry's rows.   *)
ASSUME StageGraphAssumption ==
  \A s \in Stages : StageDef[s].mode = "PARALLEL" =>
     \E later \in SUBSET (Stages \ {s}) : Successors(later \cup {s}) \subseteq later

ASSUME ConstantsAssumption ==
  /\ IsFiniteSet(Users) /\ NoUser \notin Users
  /\ IsFiniteSet(Stages) /\ Stages \cap (Terminals \cup {"Absent"}) = {}
  /\ Entries \subseteq Stages /\ Malformed \subseteq Entries
  /\ NoContext \in Contexts /\ DOMAIN NoContext = {}
  /\ NoResult \notin Quora /\ NoResult \notin Targets
  /\ \A s \in Stages :
        /\ StageDef[s].mode \in Modes /\ StageDef[s].role \in Roles
        /\ StageDef[s].success \in Targets \cup {NoResult}
        /\ StageDef[s].reject \in Terminals \cup {NoResult}
        /\ \A c \in Contexts :
              /\ Resolve(StageDef[s].quorum, c) \in Quora \cup {NoResult}
              /\ Resolve(StageDef[s].route, c) \in Targets \cup {NoResult}
              /\ \A k \in StageDef[s].context_users \cap DOMAIN c : c[k] \in Users

VARIABLES
  members,    \* role_assignment: the users of each role
  instState,  \* workflow_instance.current_state
  context,    \* workflow_instance.context
  task,       \* task and task_outcome rows of (instance, stage, candidate)
  closed      \* how a stage ended, as STAGE_ADVANCED / STAGE_FAILED record it

engineVars == <<members, instState, context, task, closed>>

Tasks == Instances \X Stages \X Users
TaskRecords ==
  [state: {"Absent", "PENDING", "DONE", "SKIPPED"}, outcome: {"none", "approve", "reject"},
   by: Users \cup {NoUser}, marker: {"none", "quorum_skip", "failed_stage_skip"}]
NoTask == [state |-> "Absent", outcome |-> "none", by |-> NoUser, marker |-> "none"]
Endings == {"open", "MET", "FAILED", "unresolvable_quorum"}

EngineInit ==
  /\ members = [r \in Roles |-> {}]
  /\ instState = [i \in Instances |-> "Absent"]
  /\ context = [i \in Instances |-> NoContext]
  /\ task = [t \in Tasks |-> NoTask]
  /\ closed = [i \in Instances |-> [s \in Stages |-> "open"]]

(***************************************************************************)
(* Entering a stage.  ROUTER stages have no tasks and are walked through;   *)
(* a walk that has not left them after as many hops as there are stages is  *)
(* a cycle.                                                                 *)
(***************************************************************************)
IsRouter(key) == key \in Stages /\ StageDef[key].mode = "ROUTER"

Hop(key, c) ==
  LET next == Resolve(StageDef[key].route, c)
  IN  IF next = NoResult THEN "NEEDS_ATTENTION" ELSE next

Landing(key, c) ==
  LET walk[n \in 0..Cardinality(Stages)] ==
        IF n = 0 THEN key
        ELSE IF IsRouter(walk[n - 1]) THEN Hop(walk[n - 1], c) ELSE walk[n - 1]
      end == walk[Cardinality(Stages)]
  IN  IF end \in Targets /\ ~IsRouter(end) THEN end ELSE "NEEDS_ATTENTION"

QuorumOf(s, c) == Resolve(StageDef[s].quorum, c)

Pool(s, c) ==
  members[StageDef[s].role] \cup {c[k] : k \in StageDef[s].context_users \cap DOMAIN c}

Staffable(s, c) ==
  /\ QuorumOf(s, c) # NoResult
  /\ Pool(s, c) # {}
  /\ Cardinality(Pool(s, c)) >= RequiredApprovals(QuorumOf(s, c), Cardinality(Pool(s, c)))

(* The state entering `key' leads to: a stage whose tasks can be handed out, *)
(* a terminal state, or NEEDS_ATTENTION.                                    *)
EnterStage(key, c) ==
  LET end == Landing(key, c)
  IN  IF end \in Stages /\ ~Staffable(end, c) THEN "NEEDS_ATTENTION" ELSE end

MaterializeStage(f, i, s, c) ==
  [t \in Tasks |->
     IF t[1] = i /\ t[2] = s /\ t[3] \in Pool(s, c)
     THEN [NoTask EXCEPT !.state = "PENDING"] ELSE f[t]]

Instantiate(i, entry, c) ==
  /\ instState[i] = "Absent"
  /\ context' = [context EXCEPT ![i] = c]
  /\ LET to == IF entry \in Malformed THEN "NEEDS_ATTENTION" ELSE EnterStage(entry, c)
     IN  /\ instState' = [instState EXCEPT ![i] = to]
         /\ task' = MaterializeStage(task, i, to, c)
  /\ UNCHANGED <<members, closed>>

(***************************************************************************)
(* Deciding a task.  f stands for the task rows a count is taken over.      *)
(***************************************************************************)
StageTasks(f, i, s) == {u \in Users : f[<<i, s, u>>].state # "Absent"}
Approvals(f, i, s)  == {u \in Users : f[<<i, s, u>>].outcome = "approve"}
Rejects(f, i, s)    == {u \in Users : f[<<i, s, u>>].outcome = "reject"}
Approvers(f, i, s)  == {f[<<i, s, u>>].by : u \in Approvals(f, i, s)}

StageVerdict(f, i, s) ==
  LET q == QuorumOf(s, context[i])
  IN  IF q = NoResult THEN "unresolvable_quorum"
      ELSE QuorumState(q, Cardinality(Approvers(f, i, s)), Cardinality(Rejects(f, i, s)),
                       Cardinality(StageTasks(f, i, s)))

WithOutcome(i, s, u, actor, outcome) ==
  [task EXCEPT ![<<i, s, u>>] =
     [state |-> "DONE", outcome |-> outcome, by |-> actor, marker |-> "none"]]

\* Mutant: the open siblings of a closed stage are left to be decided.
RetireNone(f, i, s, marker) == f

Retire(f, i, s, marker) ==
  [t \in Tasks |->
     IF t[1] = i /\ t[2] = s /\ f[t].state = "PENDING"
     THEN [f[t] EXCEPT !.state = "SKIPPED", !.marker = marker] ELSE f[t]]

TransitionTarget(edge, fallback) == IF edge = NoResult THEN fallback ELSE edge

(* What a decision leaves behind: the instance's state and the task rows.    *)
Advanced(i, s, f) ==
  LET to == EnterStage(TransitionTarget(StageDef[s].success, "COMPLETED"), context[i])
  IN  [state |-> to,
       task |-> MaterializeStage(Retire(f, i, s, "quorum_skip"), i, to, context[i])]

Failed(i, s, f, to) == [state |-> to, task |-> Retire(f, i, s, "failed_stage_skip")]

AfterVerdict(i, s, f, verdict) ==
  CASE verdict = "MET" -> Advanced(i, s, f)
    [] verdict = "FAILED" -> Failed(i, s, f, TransitionTarget(StageDef[s].reject, "REJECTED"))
    [] verdict = "unresolvable_quorum" -> Failed(i, s, f, "NEEDS_ATTENTION")
    [] OTHER -> [state |-> instState[i], task |-> f]

MayDecide(i, s, actor, outcome) ==
  outcome = "approve" => actor \notin Approvers(task, i, s)

Decidable(i, s, u, actor, outcome) ==
  task[<<i, s, u>>].state = "PENDING" /\ MayDecide(i, s, actor, outcome)

Decide(i, s, u, actor, outcome) ==
  /\ Decidable(i, s, u, actor, outcome)
  /\ LET f == WithOutcome(i, s, u, actor, outcome)
         verdict == StageVerdict(f, i, s)
         after == AfterVerdict(i, s, f, verdict)
     IN  /\ instState' = [instState EXCEPT ![i] = after.state]
         /\ task' = after.task
         /\ closed' = IF verdict = "PENDING" THEN closed
                      ELSE [closed EXCEPT ![i][s] = verdict]
  /\ UNCHANGED <<members, context>>

(***************************************************************************)
(* What happens around the engine.                                         *)
(***************************************************************************)
\* Mutant: the sweep cancels from the instance state it read before the row lock.
CancellableUnchecked(i) == instState[i] # "Absent"

Cancellable(i) == instState[i] \in Stages

(* The acknowledgement sweep withdraws an obligation; the engine does not   *)
(* tell instances by their subject, so any open one may be withdrawn.       *)
CancelInstance(i) ==
  /\ Cancellable(i)
  /\ instState' = [instState EXCEPT ![i] = "CANCELLED"]
  /\ task' = [t \in Tasks |-> IF t[1] = i /\ task[t].state = "PENDING"
                              THEN [task[t] EXCEPT !.state = "SKIPPED"] ELSE task[t]]
  /\ UNCHANGED <<members, context, closed>>

AssignRole(r, u) ==
  /\ members' = [members EXCEPT ![r] = @ \cup {u}]
  /\ UNCHANGED <<instState, context, task, closed>>

RevokeRole(r, u) ==
  /\ members' = [members EXCEPT ![r] = @ \ {u}]
  /\ UNCHANGED <<instState, context, task, closed>>

(* The JSON of an instance's context is lost outside the program, and the    *)
(* quorum of the current stage depends on it.                               *)
ContextLost(i) ==
  /\ instState[i] \in Stages
  /\ QuorumOf(instState[i], NoContext) # QuorumOf(instState[i], context[i])
  /\ context' = [context EXCEPT ![i] = NoContext]
  /\ UNCHANGED <<members, instState, task, closed>>

EngineNext ==
  \/ \E i \in Instances, e \in Entries, c \in Contexts : Instantiate(i, e, c)
  \/ \E i \in Instances, s \in Stages, u, actor \in Users, o \in {"approve", "reject"} :
        Decide(i, s, u, actor, o)
  \/ \E i \in Instances : CancelInstance(i) \/ ContextLost(i)
  \/ \E r \in Roles, u \in Users : AssignRole(r, u) \/ RevokeRole(r, u)

EngineSpec == EngineInit /\ [][EngineNext]_engineVars

(***************************************************************************)
(* Properties.                                                             *)
(***************************************************************************)
\* The rows of instances, tasks and stage events hold the values their columns allow.
EngineTypeOK ==
  /\ members \in [Roles -> SUBSET Users]
  /\ instState \in [Instances -> Targets \cup {"Absent"}]
  /\ context \in [Instances -> Contexts]
  /\ task \in [Tasks -> TaskRecords]
  /\ closed \in [Instances -> [Stages -> Endings]]

\* A task can be decided only while its stage is the current one: closing a stage
\* leaves no sibling whose decision would close it a second time.
PendingOnlyInCurrentStage ==
  \A i \in Instances, s \in Stages, u \in Users :
     task[<<i, s, u>>].state = "PENDING" => instState[i] = s

\* A stage an instance waits in has a task left to decide, and its quorum is still
\* open: no instance waits for a decision nobody can make.
LiveStageHasWork ==
  \A i \in Instances : instState[i] \in Stages =>
     /\ \E u \in Users : task[<<i, instState[i], u>>].state = "PENDING"
     /\ StageVerdict(task, i, instState[i]) \in {"PENDING", "unresolvable_quorum"}

(* What a quorum asks for, from docs/10 section 2.4: a count of distinct     *)
(* approvers out of the stage's tasks.                                      *)
Enough(q, approvals, resolved) ==
  CASE q.type = "ALL" -> approvals = resolved
    [] q.type = "ANY" -> approvals >= 1
    [] q.type = "N_OF_M" -> approvals >= q.n
    [] q.type = "PERCENT" -> 100 * approvals >= q.n * resolved

\* A stage is passed only with its quorum of distinct approvers.
AdvancedHadQuorum ==
  \A i \in Instances, s \in Stages :
     LET q == QuorumOf(s, context[i])
     IN  closed[i][s] = "MET" /\ q # NoResult =>
           Enough(q, Cardinality(Approvers(task, i, s)), Cardinality(StageTasks(task, i, s)))

\* A stage fails early only when the decisions it cuts off could not have saved it.
FailedWasHopeless ==
  \A i \in Instances, s \in Stages :
     LET q == QuorumOf(s, context[i])
         open == {u \in Users : task[<<i, s, u>>].state = "SKIPPED"}
     IN  closed[i][s] = "FAILED" /\ q # NoResult =>
           ~Enough(q, Cardinality(Approvers(task, i, s)) + Cardinality(open),
                   Cardinality(StageTasks(task, i, s)))

\* Audit U38: the answer a late decider is given (already satisfied, or failed) is
\* the way the stage really ended.
MarkerTellsEnding ==
  \A i \in Instances, s \in Stages, u \in Users :
     /\ task[<<i, s, u>>].marker = "quorum_skip" => closed[i][s] = "MET"
     /\ task[<<i, s, u>>].marker = "failed_stage_skip" =>
          closed[i][s] \in {"FAILED", "unresolvable_quorum"}

\* A missing discriminator never lowers the bar: no conditional stage is entered or
\* passed under a context that lacks the key its quorum is chosen by.
NoSilentDowngrade ==
  [][\A i \in Instances, s \in Stages :
        closed'[i][s] = "MET" /\ closed[i][s] # "MET" =>
          \A k \in DOMAIN StageDef[s].quorum.branches :
             \/ StageDef[s].quorum.branches[k].key \in DOMAIN context[i]
             \/ \E j \in DOMAIN StageDef[s].quorum.branches :
                   Matches(StageDef[s].quorum.branches[j], context[i])]_engineVars

\* A finished instance stays as it is, tasks included.
TerminalIsFinal ==
  [][\A i \in Instances : instState[i] \in Terminals =>
        /\ instState'[i] = instState[i]
        /\ \A s \in Stages, u \in Users : task'[<<i, s, u>>] = task[<<i, s, u>>]]_engineVars

\* A stage ends exactly when its quorum is decided and as it was decided, its retired tasks
\* say so, and until then somebody is left to decide it.
StageEndsAreRight ==
  /\ EngineTypeOK
  /\ LiveStageHasWork /\ AdvancedHadQuorum /\ FailedWasHopeless /\ MarkerTellsEnding
=============================================================================
