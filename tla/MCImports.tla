------------------------------ MODULE MCImports ------------------------------
(* The three phases of an import, one at a time: stage says which one runs   *)
(* while the variables of the others keep one of their initial values.       *)
EXTENDS ImportPipeline, ImportReview, ImportCommit

VARIABLE stage
importVars == <<stage, pipelineVars, reviewVars, commitVars>>

ImportsInit ==
  /\ stage \in {"pipeline", "review", "commit"}
  /\ PipelineInit /\ CommitInit /\ ReviewInit
  /\ stage # "review" => Cardinality(nodes) = NFiles /\ \A f \in Files : docCode[f] = 0

(* A task is delivered again to two workers of one run, or to one worker of   *)
(* two runs; without a second delivery both runs have a worker each.          *)
DeliveriesAreFew ==
  \/ redelivered' = 0
  \/ Cardinality({r \in Runs : status'[r] # "absent"}) < 2
  \/ Cardinality({w \in Workers : worker'[w] # NoWork}) < 2

ImportsNext ==
  /\ UNCHANGED stage
  /\ \/ stage = "pipeline" /\ PipelineNext /\ DeliveriesAreFew
          /\ UNCHANGED <<reviewVars, commitVars>>
     \/ stage = "review" /\ ReviewNext /\ UNCHANGED <<pipelineVars, commitVars>>
     \/ stage = "commit" /\ CommitNext /\ UNCHANGED <<pipelineVars, reviewVars>>

ImportsSpec == ImportsInit /\ [][ImportsNext]_importVars

(* The fairness of PipelineFairSpec and CommitFairSpec, while theirs is the stage. *)
ImportsFairSpec ==
  /\ ImportsSpec
  /\ WF_pipelineVars(stage = "pipeline" /\ TimePasses)
  /\ WF_pipelineVars(stage = "pipeline" /\ ReaperRuns)
  /\ SF_pipelineVars(stage = "pipeline" /\ StageEnds)
  /\ \A w \in Committers : WF_commitVars(stage = "commit" /\ CommitterStep(w))

\* While the commit runs: a run being committed always comes to rest.
CommitStageComesToRest == stage = "commit" => CommitComesToRest
=============================================================================
