---------------------------- MODULE MCOperations ----------------------------
(* The background jobs, one at a time: job says which one runs while the      *)
(* variables of the others keep their initial values.                         *)
EXTENDS EmailOutbox, Mirror, Acknowledgements, TaskTimers

(* Reminders two days and a day and a half before the due date, escalations   *)
(* a day and a half and two days after it.                                    *)
MCOffsets == [s \in TimerSteps |->
  CASE s = "remind_1" -> [days |-> 2, rest |-> 0]
    [] s = "remind_2" -> [days |-> 1, rest |-> 1]
    [] s = "overdue" -> [days |-> 0, rest |-> 0]
    [] s = "escalate_1" -> [days |-> 1, rest |-> 1]
    [] s = "escalate_2" -> [days |-> 2, rest |-> 0]]

VARIABLE job
operationVars == <<job, vars, mirrorVars, ackVars, timerVars>>

OperationsInit ==
  /\ job \in {"outbox", "mirror", "acknowledgements", "timers"}
  /\ Init /\ MirrorInit /\ AckInit /\ TimersInit

OperationsNext ==
  /\ UNCHANGED job
  /\ \/ job = "outbox" /\ Next /\ UNCHANGED <<mirrorVars, ackVars, timerVars>>
     \/ job = "mirror" /\ MirrorNext /\ UNCHANGED <<vars, ackVars, timerVars>>
     \/ job = "acknowledgements" /\ AckNext /\ UNCHANGED <<vars, mirrorVars, timerVars>>
     \/ job = "timers" /\ TimersNext /\ UNCHANGED <<vars, mirrorVars, ackVars>>

OperationsSpec == OperationsInit /\ [][OperationsNext]_operationVars

(* The fairness of FairSpec, MirrorFairSpec, AckFairSpec and TimersFairSpec,  *)
(* while theirs is the job.                                                    *)
OperationsFairSpec ==
  /\ OperationsSpec
  /\ WF_vars(job = "outbox" /\ Tick)
  /\ \A w \in Drains : WF_vars(job = "outbox" /\ Step(w))
  /\ \A e \in Emails : SF_vars(job = "outbox" /\ \E w \in Drains : Take(w, e))
  /\ WF_mirrorVars(job = "mirror" /\ Scan(FALSE))
  /\ WF_mirrorVars(job = "mirror" /\ PassStep)
  /\ WF_ackVars(job = "acknowledgements" /\ \E s \in Sweepers : SweepList(s))
  /\ WF_ackVars(job = "acknowledgements" /\ \E s \in Sweepers : SweepGoesOn(s))
  /\ WF_timerVars(job = "timers" /\ TimePassing)
  /\ WF_timerVars(job = "timers" /\ \E w \in Sweeps : StartSweep(w))
  /\ SF_timerVars(job = "timers" /\ \E w \in Sweeps : ProcessTaskTimers(w))

\* While the mirror's job runs: the hourly scan brings the mirror to the Effective versions.
MirrorJobConverges == job = "mirror" => MirrorConverges
=============================================================================
