----------------------------- MODULE EmailOutbox -----------------------------
(***************************************************************************)
(* The notification-email outbox: rows enqueued beside in-app notifications *)
(* and drained by a periodic task.  Beat starts a drain every two minutes    *)
(* and nothing keeps two drains apart, so they overlap.  A drain freezes its *)
(* clock when it starts, claims one due row at a time, and commits before it *)
(* talks to the mail server; a worker may die at any point, and nothing      *)
(* limits how long a drain lasts: it may outlast the leases it takes.        *)
(***************************************************************************)
EXTENDS Integers, FiniteSets

CONSTANTS
  NumEmails,    \* notification_email rows, numbered in order of created_at
  Drains,       \* workers that may be running drain_once
  NoEmail,      \* a drain between two rows
  NoTime,       \* next_attempt_at IS NULL
  MaxAttempts,  \* settings.notification_max_send_attempts
  RetryBase,    \* settings.notification_retry_base_seconds, in ticks
  Limit,        \* the most rows one drain handles
  MaxRun,       \* bound: the most ticks one drain lasts
  MaxSend,      \* bound: the most ticks one exchange with the mail server lasts
  QuietWait,    \* ticks until the recipient's quiet hours end
  MaxRequeues   \* bound: how often the administrator requeues

ASSUME OutboxAssumption ==
  /\ NumEmails \in Nat /\ MaxAttempts \in Nat \ {0} /\ RetryBase \in Nat \ {0}
  /\ Limit \in Nat \ {0} /\ MaxRun \in Nat /\ MaxSend \in Nat /\ QuietWait \in Nat /\ MaxRequeues \in Nat
  /\ NoEmail \notin 1..NumEmails /\ NoTime \notin Int /\ IsFiniteSet(Drains)

Emails == 1..NumEmails

(* _backoff: the base, doubled for every attempt after the first.            *)
Backoff(n) == RetryBase * 2^(n - 1)

(* Doubling never makes the wait shorter than the base.                      *)
ASSUME BackoffAssumption ==
  \A n \in 1..MaxAttempts : Backoff(n) \in Int /\ Backoff(n) >= RetryBase

VARIABLES
  status,     \* notification_email.status, "Absent" before the row exists
  attempts,   \* notification_email.attempts
  wait,       \* next_attempt_at minus the present moment, no lower than -MaxRun
  drain,      \* what each worker is doing
  delivered,  \* history: copies the mail server accepted
  alarms,     \* history: system.email_delivery_failed notifications raised
  requeues,   \* history: requeue-failed requests
  orgOn,      \* email delivery is switched on and SMTP is configured
  reachable   \* the recipient is active and has not opted out of email

vars == <<status, attempts, wait, drain, delivered, alarms, requeues, orgOn, reachable>>
rowVars == <<status, attempts, wait>>
history == <<delivered, alarms, requeues>>
settings == <<orgOn, reachable>>

Idle == [pc |-> "idle", age |-> 0, left |-> 0, row |-> NoEmail, busy |-> 0]

Init ==
  /\ status = [e \in Emails |-> "Absent"]
  /\ attempts = [e \in Emails |-> 0]
  /\ wait = [e \in Emails |-> NoTime]
  /\ drain = [w \in Drains |-> Idle]
  /\ delivered = [e \in Emails |-> 0]
  /\ alarms = [e \in Emails |-> 0]
  /\ requeues = 0
  /\ orgOn = TRUE
  /\ reachable = [e \in Emails |-> TRUE]

(* An immediate email, held back until the recipient's quiet hours are over. *)
Enqueue(e, quiet) ==
  /\ status[e] = "Absent" /\ \A f \in Emails : f < e => status[f] # "Absent"
  /\ orgOn /\ reachable[e]
  /\ status' = [status EXCEPT ![e] = "PENDING"]
  /\ wait' = [wait EXCEPT ![e] = IF quiet THEN QuietWait ELSE NoTime]
  /\ UNCHANGED <<attempts, drain, history, settings>>

(***************************************************************************)
(* The drain.                                                              *)
(***************************************************************************)
StartDrain(w) ==
  /\ drain[w].pc = "idle"
  /\ drain' = [drain EXCEPT ![w] = [@ EXCEPT !.pc = "claiming", !.left = Limit]]
  /\ UNCHANGED <<rowVars, history, settings>>

Pending(e) == status[e] = "PENDING"

\* Mutant: rows never attempted are not due.
DueOnlyDated(w, e) == wait[e] # NoTime /\ wait[e] <= 0 - drain[w].age

(* next_attempt_at is NULL or not after the moment the drain started.        *)
Due(w, e) == wait[e] = NoTime \/ wait[e] <= 0 - drain[w].age

(* Rows the claim query selects; every other running drain may hold the lock *)
(* of one of them, and SKIP LOCKED passes over it.                           *)
Selectable(w) == {e \in Emails : Pending(e) /\ Due(w, e)}
Lockers(w) == {x \in Drains \ {w} : drain[x].pc # "idle"}

(* The oldest row that nobody has locked.                                    *)
Claims(w, e) ==
  /\ drain[w].pc = "claiming" /\ drain[w].left > 0
  /\ e \in Selectable(w)
  /\ Cardinality({f \in Selectable(w) : f < e}) <= Cardinality(Lockers(w))

FindsNothing(w) == Cardinality(Selectable(w)) <= Cardinality(Lockers(w))

StillEligible(e) == orgOn /\ reachable[e]

NextRow(w) ==
  [pc |-> "claiming", age |-> drain[w].age, left |-> drain[w].left - 1, row |-> NoEmail,
   busy |-> 0]

Suppress(w, e) ==
  /\ Claims(w, e) /\ ~StillEligible(e)
  /\ status' = [status EXCEPT ![e] = "SUPPRESSED"]
  /\ drain' = [drain EXCEPT ![w] = NextRow(w)]
  /\ UNCHANGED <<attempts, wait, history, settings>>

StatusOnceExhausted(e) == "FAILED"

Exhausted(e) == attempts[e] >= MaxAttempts

Exhaust(w, e) ==
  /\ Claims(w, e) /\ StillEligible(e) /\ Exhausted(e)
  /\ status' = [status EXCEPT ![e] = StatusOnceExhausted(e)]
  /\ drain' = [drain EXCEPT ![w] = [@ EXCEPT !.pc = "alarming", !.row = e]]
  /\ UNCHANGED <<attempts, wait, history, settings>>

(* The alarm is best-effort: an exception rolls it back and is swallowed.    *)
RaiseAlarm(w, raised) ==
  /\ drain[w].pc = "alarming"
  /\ alarms' = [alarms EXCEPT ![drain[w].row] = @ + raised]
  /\ drain' = [drain EXCEPT ![w] = NextRow(w)]
  /\ UNCHANGED <<rowVars, delivered, requeues, settings>>

\* Mutant: the lease lasts no longer than the moment it is taken.
LeaseUntilNow(w, e) == 0 - drain[w].age

(* now + _backoff(row.attempts), seen from the present: the drain's clock is *)
(* as old as the drain.                                                      *)
LeaseUntil(w, e) == Backoff(attempts[e] + 1) - drain[w].age

\* Mutant: the attempt is counted only when the server has answered.
CountedLater(n) == n

Counted(n) == n + 1

(* Count the attempt and lease the row, commit, then send.                   *)
Lease(w, e) ==
  /\ Claims(w, e) /\ StillEligible(e) /\ ~Exhausted(e)
  /\ attempts' = [attempts EXCEPT ![e] = Counted(@)]
  /\ wait' = [wait EXCEPT ![e] = LeaseUntil(w, e)]
  /\ drain' = [drain EXCEPT ![w] = [@ EXCEPT !.pc = "sending", !.row = e]]
  /\ UNCHANGED <<status, history, settings>>

SendOk(w) ==
  /\ drain[w].pc = "sending"
  /\ delivered' = [delivered EXCEPT ![drain[w].row] = @ + 1]
  /\ drain' = [drain EXCEPT ![w].pc = "sent"]
  /\ UNCHANGED <<rowVars, alarms, requeues, settings>>

(* An exception, a timeout for instance: the server may have accepted a copy *)
(* (copies = 1) or not.  Only last_error is written.                         *)
SendFails(w, copies) ==
  /\ drain[w].pc = "sending"
  /\ delivered' = [delivered EXCEPT ![drain[w].row] = @ + copies]
  /\ drain' = [drain EXCEPT ![w] = NextRow(w)]
  /\ UNCHANGED <<rowVars, alarms, requeues, settings>>

(* An UPDATE by primary key: whatever the row's status is by now.            *)
MarkSent(w) ==
  /\ drain[w].pc = "sent"
  /\ status' = [status EXCEPT ![drain[w].row] = "SENT"]
  /\ drain' = [drain EXCEPT ![w] = NextRow(w)]
  /\ UNCHANGED <<attempts, wait, history, settings>>

EndDrain(w) ==
  /\ drain[w].pc = "claiming"
  /\ drain[w].left = 0 \/ FindsNothing(w)
  /\ drain' = [drain EXCEPT ![w] = Idle]
  /\ UNCHANGED <<rowVars, history, settings>>

(* The worker dies; its open transaction, if any, is rolled back.            *)
Crash(w) ==
  /\ drain[w].pc # "idle"
  /\ drain' = [drain EXCEPT ![w] = Idle]
  /\ UNCHANGED <<rowVars, history, settings>>

(***************************************************************************)
(* The administrator, the recipients and the clock.                        *)
(***************************************************************************)

Requeued == {e \in Emails : status[e] = "FAILED"}

Requeue ==
  /\ orgOn /\ requeues < MaxRequeues
  /\ status' = [e \in Emails |-> IF e \in Requeued THEN "PENDING" ELSE status[e]]
  /\ attempts' = [e \in Emails |-> IF e \in Requeued THEN 0 ELSE attempts[e]]
  /\ wait' = [e \in Emails |-> IF e \in Requeued THEN NoTime ELSE wait[e]]
  /\ requeues' = requeues + 1
  /\ UNCHANGED <<drain, delivered, alarms, settings>>

SwitchDelivery ==
  /\ orgOn' = ~orgOn
  /\ UNCHANGED <<rowVars, drain, history, reachable>>

SwitchRecipient(e) ==
  /\ reachable' = [reachable EXCEPT ![e] = ~@]
  /\ UNCHANGED <<rowVars, drain, history, orgOn>>

Later(t) == IF t = NoTime \/ t = 0 - MaxRun THEN t ELSE t - 1

(* A running drain grows older, and so does the exchange it is waiting for.  *)
Older(d) ==
  [pc |-> d.pc, age |-> IF d.pc = "idle" THEN 0 ELSE d.age + 1, left |-> d.left,
   row |-> d.row, busy |-> IF d.pc = "sending" THEN d.busy + 1 ELSE d.busy]

(* Time passes while no drain and no exchange exceeds its bound.             *)
Tick ==
  /\ \A w \in Drains : Older(drain[w]).age <= MaxRun /\ Older(drain[w]).busy <= MaxSend
  /\ wait' = [e \in Emails |-> Later(wait[e])]
  /\ drain' = [w \in Drains |-> Older(drain[w])]
  /\ UNCHANGED <<status, attempts, history, settings>>

Take(w, e) == Suppress(w, e) \/ Exhaust(w, e) \/ Lease(w, e)

Step(w) ==
  \/ StartDrain(w)
  \/ \E e \in Emails : Take(w, e)
  \/ \E n \in {0, 1} : RaiseAlarm(w, n)
  \/ SendOk(w)
  \/ \E n \in {0, 1} : SendFails(w, n)
  \/ MarkSent(w)
  \/ EndDrain(w)

Next ==
  \/ \E e \in Emails, quiet \in BOOLEAN : Enqueue(e, quiet)
  \/ \E w \in Drains : Step(w)
  \/ \E w \in Drains : Crash(w)
  \/ Requeue
  \/ SwitchDelivery
  \/ \E e \in Emails : SwitchRecipient(e)
  \/ Tick

Spec == Init /\ [][Next]_vars

(* Time passes, Beat starts drains and a worker that lives goes on working.  *)
(* Workers may die again and again, but not for ever just before they claim  *)
(* the same due row.                                                         *)
DrainFairness ==
  /\ WF_vars(Tick)
  /\ \A w \in Drains : WF_vars(Step(w))
  /\ \A e \in Emails : SF_vars(\E w \in Drains : Take(w, e))

FairSpec == Spec /\ DrainFairness

(***************************************************************************)
(* Properties.                                                             *)
(***************************************************************************)
DrainRecords ==
  [pc : {"idle", "claiming", "alarming", "sending", "sent"}, age : 0..MaxRun,
   left : 0..Limit, row : Emails \cup {NoEmail}, busy : 0..MaxSend]

\* Rows, workers and histories hold the values their columns and code allow.
TypeOK ==
  /\ status \in [Emails -> {"Absent", "PENDING", "SENT", "FAILED", "SUPPRESSED"}]
  /\ attempts \in [Emails -> 0..MaxAttempts]
  /\ wait \in [Emails -> Int \cup {NoTime}]
  /\ drain \in [Drains -> DrainRecords]
  /\ \A w \in Drains : drain[w].pc \in {"alarming", "sending", "sent"} => drain[w].row # NoEmail
  /\ delivered \in [Emails -> Nat] /\ alarms \in [Emails -> Nat]
  /\ requeues \in 0..MaxRequeues
  /\ orgOn \in BOOLEAN /\ reachable \in [Emails -> BOOLEAN]

\* However drains overlap, crash after sending or lose the server's answer, and however
\* often failed rows are requeued, a recipient gets at most MaxAttempts copies of an
\* email per enqueue or requeue: the attempt is counted before the send.
SendsAreBounded == \A e \in Emails : delivered[e] <= MaxAttempts * (1 + requeues)

Sending(w, e) == drain[w].pc \in {"sending", "sent"} /\ drain[w].row = e

Apart(w, x) ==
  \/ drain[w].age - drain[x].age >= RetryBase
  \/ drain[x].age - drain[w].age >= RetryBase

\* Until an administrator requeues, two drains are sending one row at once only if one of
\* them started at least the base wait after the other: however slow the first one is, its
\* lease keeps away every drain that started too soon.  A drain that has run longer than the
\* lease is joined by the next one, although the comment in drain.py speaks of skipping it.
SendersAreApart ==
  requeues = 0 =>
    \A e \in Emails, w, x \in Drains :
       w # x /\ Sending(w, e) /\ Sending(x, e) => Apart(w, x)

\* The administrators are told at most once that an email could not be delivered, and
\* once more after each requeue, although the alarm is raised in a second transaction
\* and the worker may die between the two.
OneAlarmPerFailure == \A e \in Emails : alarms[e] <= 1 + requeues

\* No step of any drain, however late, and no requeue takes an email out of SENT: a
\* delivered email is never queued again.
SentIsFinal == [][\A e \in Emails : status[e] = "SENT" => status'[e] = "SENT"]_vars

\* Every queued email is eventually sent, given up or suppressed, even if the workers
\* keep dying after the send: no row is retried for ever or left in the queue.
EveryEmailSettles == \A e \in Emails : Pending(e) ~> ~Pending(e)

\* Copies and alarms are bounded by the attempts and requeues, and a delivered email stays
\* delivered, through overlapping drains and workers that die at any step.
OutboxIsSound == [](TypeOK /\ SendsAreBounded /\ OneAlarmPerFailure) /\ SentIsFinal
=============================================================================
