-------------------------- MODULE MCWorkflowEngine --------------------------
(* A small set of workflow definitions for TLC.                             *)
EXTENDS WorkflowEngine, TLC

Flat(r)          == [branches |-> <<>>, default |-> r]
When(k, v, r, d) == [branches |-> <<[key |-> k, value |-> v, result |-> r]>>, default |-> d]
Q(type, n)       == [type |-> type, n |-> n]

Parallel(role, quorum, success) ==
  [mode |-> "PARALLEL", role |-> role, context_users |-> {}, quorum |-> quorum,
   route |-> Flat(NoResult), success |-> success, reject |-> NoResult]
Router(route) ==
  [mode |-> "ROUTER", role |-> "owners", context_users |-> {}, quorum |-> Flat(NoResult),
   route |-> route, success |-> NoResult, reject |-> NoResult]

MCStages == {"route", "major_proc", "major_qms", "minor_qms", "gate", "loop", "review",
             "sealed"}

(* route: the graph of dcr_approval (migration 0043), a router on the        *)
(* change's significance with two tiers for a MAJOR change and one for a     *)
(* MINOR one, here with the quorum kinds the seeded definition does not use. *)
(* gate: a quorum chosen by severity, as the engine's own tests define it.  *)
(* loop: a router that routes to itself.  review: assigned by the context.  *)
(* sealed: a definition with an unknown signature meaning.                  *)
MCStageDef ==
  [s \in MCStages |->
     CASE s = "route" -> Router(When("significance", "MAJOR", "major_proc", "minor_qms"))
       [] s = "major_proc" -> Parallel("owners", Flat(Q("N_OF_M", 2)), "major_qms")
       [] s = "major_qms" -> Parallel("managers", Flat(Q("ALL", 1)), NoResult)
       [] s = "minor_qms" -> Parallel("managers", Flat(Q("ANY", 1)), NoResult)
       [] s = "gate" -> Parallel("owners", When("severity", "Critical", Q("PERCENT", 60),
                                                Q("ANY", 1)), NoResult)
       [] s = "loop" -> Router(Flat("loop"))
       [] s = "review" -> [Parallel("managers", Flat(Q("ANY", 1)), NoResult)
                             EXCEPT !.context_users = {"owner"}]
       [] s = "sealed" -> Parallel("owners", Flat(Q("ANY", 1)), NoResult)]
MCEntries == {"route", "gate", "loop", "review", "sealed"}
MCMalformed == {"sealed"}
MCRoles == {"owners", "managers"}
MCNoContext == [k \in {} |-> k]
MCContexts ==
  {MCNoContext} \cup [{"significance"} -> {"MAJOR", "MINOR"}]
    \cup [{"severity"} -> {"Critical", "Minor"}] \cup [{"owner"} -> Users]

Interchangeable == Permutations(Users)
=============================================================================
