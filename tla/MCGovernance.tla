---------------------------- MODULE MCGovernance ----------------------------
(* Three questions about the vault and what is built on it, one at a time:    *)
(* two change requests without the leadership gate, one with it, and the      *)
(* periodic review of a document.                                             *)
EXTENDS ChangeImplementation, PeriodicReview

VARIABLE focus
allVars == <<focus, governanceVars, reviewVars>>

GovernanceInit ==
  /\ focus \in {"requests", "gate", "review"}
  /\ ChangeInit /\ ReviewInit
  /\ focus # "gate" => ~gateOn

(* One request for a release, without a date of its own: nothing gates a       *)
(* retirement.                                                                 *)
OneRequest ==
  /\ change'[1].from = 0 /\ change'[1].type # "RETIRE"
  /\ \A c \in Changes : c > 1 => change'[c].state = "Absent"

GovernanceNext ==
  /\ UNCHANGED focus
  /\ \/ focus = "requests" /\ UNCHANGED <<gateVars, reviewVars>> /\ ChangeNext
     \/ focus = "gate" /\ UNCHANGED reviewVars /\ ChangeNext /\ OneRequest
     \/ focus = "review" /\ UNCHANGED <<changeVars, gateVars>> /\ ReviewNext

(* The fairness of ChangeFairSpec and ReviewFairSpec, while theirs is the     *)
(* focus.                                                                     *)
GovernanceFairSpec ==
  /\ GovernanceInit /\ [][GovernanceNext]_allVars
  /\ WF_now(focus # "review" /\ Clock)
  /\ WF_due(focus # "review" /\ SweepScan)
  /\ SF_due(focus # "review" /\ \E d \in Docs, v \in Versions : GatedCutover(d, v))
  /\ WF_sweeping(focus = "review" /\ \E s \in ReviewSweeps : ReviewSweepRead(s))
  /\ WF_sweeping(focus = "review" /\ \E s \in ReviewSweeps : ReviewSweepWrite(s))
  /\ SF_sweeping(focus = "review" /\ \E s \in ReviewSweeps : ReviewSweepCommit(s))
=============================================================================
