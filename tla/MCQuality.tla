------------------------------ MODULE MCQuality ------------------------------
(* Change requests, CAPAs and internal audits, one at a time: area says which *)
(* one is at work while the variables of the others keep their initial values. *)
EXTENDS ChangeRequest, Capa, InternalAudit, TLC

(* The dcr_approval definition, as migration 0043 seeds it.                  *)
Flat(r) == [branches |-> <<>>, default |-> r]
Stage(role, success) ==
  [mode |-> "PARALLEL", role |-> role, context_users |-> {},
   quorum |-> Flat([type |-> "ANY", n |-> 1]),
   route |-> Flat(NoResult), success |-> success, reject |-> NoResult]

MCStages == {"route_by_significance", "major_proc", "major_qms", "minor_qms"}
MCStageDef ==
  [s \in MCStages |->
     CASE s = "route_by_significance" ->
            [mode |-> "ROUTER", role |-> "Process Owner", context_users |-> {},
             quorum |-> Flat(NoResult),
             route |-> [branches |-> <<[key |-> "change_significance", value |-> "MAJOR",
                                        result |-> "major_proc"]>>,
                        default |-> "minor_qms"],
             success |-> NoResult, reject |-> NoResult]
       [] s = "major_proc" -> Stage("Process Owner", "major_qms")
       [] OTHER -> Stage("QMS Owner", NoResult)]
MCEntry == "route_by_significance"
MCEntries == {MCEntry}
MCMalformed == {}
MCRoles == {"Process Owner", "QMS Owner"}
MCNoContext == [k \in {} |-> k]
MCContexts == {MCNoContext} \cup [{"change_significance"} -> Significances]

Interchangeable == Permutations(Users) \cup Permutations(Instances) \cup Permutations(People)

VARIABLE area
qualityVars == <<area, vars, capaVars, internalAuditVars>>

QualityInit ==
  /\ area \in {"change requests", "capa", "audit"}
  /\ Init /\ CapaInit /\ AuditsInit

QualityNext ==
  /\ UNCHANGED area
  /\ \/ area = "change requests" /\ Next /\ UNCHANGED <<capaVars, internalAuditVars>>
     \/ area = "capa" /\ CapaNext /\ UNCHANGED <<vars, internalAuditVars>>
     \/ area = "audit" /\ AuditsNext /\ UNCHANGED <<vars, capaVars>>

QualitySpec == QualityInit /\ [][QualityNext]_qualityVars
=============================================================================
