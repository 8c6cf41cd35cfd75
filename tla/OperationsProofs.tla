-------------------------- MODULE OperationsProofs --------------------------
(***************************************************************************)
(* Proofs about what Beat keeps going in the background: the email outbox,    *)
(* for any number of emails, workers, attempts and any backoff, the           *)
(* acknowledgement sweep, for any number of users, versions and workers, the  *)
(* timers of a task, for any calendar, offsets and sweeps, and the mirror,    *)
(* for any number of builds, kept rows, faults and changes to the disk.       *)
(***************************************************************************)
EXTENDS EmailOutbox, Mirror, Acknowledgements, TaskTimers, FiniteSetTheorems, SequenceTheorems,
        WellFoundedInduction, TLAPS

Busy == {"alarming", "sending", "sent"}

(* A drain that is handling a row knows which, and counts it.                *)
Handling(d) == d.pc \in Busy => d.row \in Emails /\ d.left >= 1

(* TypeOK, strengthened: the row a drain is handling is still part of its    *)
(* limit, so that NextRow never counts below zero.                           *)
Types ==
  /\ TypeOK
  /\ \A w \in Drains : Handling(drain[w])

LEMMA NextRowType ==
  ASSUME Types, NEW w \in Drains, drain[w].left >= 1
  PROVE  /\ NextRow(w) \in DrainRecords /\ Handling(NextRow(w))
         /\ NextRow(w).pc = "claiming" /\ NextRow(w).age = drain[w].age
<1>1. drain[w] \in DrainRecords
  BY DEF Types, TypeOK
<1>2. drain[w].left \in 0..Limit
  BY <1>1 DEF DrainRecords
<1>3. drain[w].left - 1 \in 0..Limit
  BY <1>2, OutboxAssumption
<1> QED
  BY <1>1, <1>3, OutboxAssumption DEF NextRow, DrainRecords, Handling, Busy

LEMMA HandlingType ==
  ASSUME Types, NEW w \in Drains, NEW e \in Emails, NEW pc \in Busy, drain[w].left >= 1
  PROVE  /\ [drain[w] EXCEPT !.pc = pc, !.row = e] \in DrainRecords
         /\ Handling([drain[w] EXCEPT !.pc = pc, !.row = e])
<1>1. drain[w] \in DrainRecords
  BY DEF Types, TypeOK
<1> QED
  BY <1>1, OutboxAssumption DEF DrainRecords, Handling, Busy

(* One drain's record is replaced by a well-typed one.                       *)
LEMMA DrainUpdate ==
  ASSUME Types, NEW w \in Drains, NEW d \in DrainRecords, Handling(d),
         drain' = [drain EXCEPT ![w] = d]
  PROVE  /\ drain' \in [Drains -> DrainRecords]
         /\ \A x \in Drains : Handling(drain'[x])
         /\ drain'[w] = d
         /\ \A x \in Drains \ {w} : drain'[x] = drain[x]
BY DEF Types, TypeOK

LEMMA IdleType == Idle \in DrainRecords /\ Handling(Idle) /\ Idle.pc = "idle"
BY OutboxAssumption DEF Idle, DrainRecords, Handling, Busy

(***************************************************************************)
(* Type correctness.                                                       *)
(***************************************************************************)
LEMMA InitTypes ==
  ASSUME Init
  PROVE  Types
BY IdleType, OutboxAssumption DEF Init, Types, TypeOK, Handling, Busy, Emails

LEMMA ClaimsFacts ==
  ASSUME NEW w \in Drains, NEW e \in Emails, Claims(w, e)
  PROVE  drain[w].pc = "claiming" /\ drain[w].left > 0 /\ Pending(e) /\ Due(w, e)
BY DEF Claims, Selectable

(* What the steps of one drain do to the drain's record.                     *)
LEMMA StepDrain ==
  ASSUME Types, NEW w \in Drains, Step(w) \/ Crash(w)
  PROVE  /\ drain' \in [Drains -> DrainRecords]
         /\ \A x \in Drains : Handling(drain'[x])
         /\ \A x \in Drains \ {w} : drain'[x] = drain[x]
<1>0. drain[w] \in DrainRecords /\ Handling(drain[w]) /\ drain \in [Drains -> DrainRecords]
  BY DEF Types, TypeOK
<1>1. ASSUME NEW d \in DrainRecords, Handling(d), drain' = [drain EXCEPT ![w] = d]
      PROVE  /\ drain' \in [Drains -> DrainRecords]
             /\ \A x \in Drains : Handling(drain'[x])
             /\ \A x \in Drains \ {w} : drain'[x] = drain[x]
  BY <1>1, DrainUpdate
<1>2. CASE StartDrain(w)
  <2>0. Limit \in 0..Limit
    BY OutboxAssumption
  <2>1. [drain[w] EXCEPT !.pc = "claiming", !.left = Limit] \in DrainRecords
    BY <1>0, <2>0 DEF DrainRecords
  <2>2. Handling([drain[w] EXCEPT !.pc = "claiming", !.left = Limit])
    BY <1>0 DEF DrainRecords, Handling, Busy
  <2>3. drain' = [drain EXCEPT ![w] = [drain[w] EXCEPT !.pc = "claiming", !.left = Limit]]
    BY <1>2, Zenon DEF StartDrain
  <2> QED
    BY <1>1, <2>1, <2>2, <2>3
<1>3. ASSUME NEW e \in Emails, Suppress(w, e)
      PROVE  drain' = [drain EXCEPT ![w] = NextRow(w)] /\ drain[w].left >= 1
  BY <1>0, <1>3, ClaimsFacts DEF Suppress, DrainRecords
<1>4. ASSUME NEW e \in Emails, Exhaust(w, e)
      PROVE  /\ drain' = [drain EXCEPT ![w] = [drain[w] EXCEPT !.pc = "alarming", !.row = e]]
             /\ drain[w].left >= 1
  BY <1>0, <1>4, ClaimsFacts DEF Exhaust, DrainRecords
<1>5. ASSUME NEW e \in Emails, Lease(w, e)
      PROVE  /\ drain' = [drain EXCEPT ![w] = [drain[w] EXCEPT !.pc = "sending", !.row = e]]
             /\ drain[w].left >= 1
  BY <1>0, <1>5, ClaimsFacts DEF Lease, DrainRecords
<1>6. ASSUME NEW n \in {0, 1}, RaiseAlarm(w, n) \/ SendFails(w, n)
      PROVE  drain' = [drain EXCEPT ![w] = NextRow(w)] /\ drain[w].left >= 1
  BY <1>0, <1>6 DEF RaiseAlarm, SendFails, Handling, Busy
<1>7. CASE MarkSent(w)
  <2>1. drain' = [drain EXCEPT ![w] = NextRow(w)] /\ drain[w].left >= 1
    BY <1>0, <1>7 DEF MarkSent, Handling, Busy
  <2> QED
    BY <1>1, <2>1, NextRowType
<1>8. CASE SendOk(w)
  <2>1. drain[w].row \in Emails /\ drain[w].left >= 1
    BY <1>0, <1>8 DEF SendOk, Handling, Busy
  <2>2. drain' = [drain EXCEPT ![w] = [drain[w] EXCEPT !.pc = "sent", !.row = drain[w].row]]
    BY <1>0, <1>8 DEF SendOk, DrainRecords
  <2> QED
    BY <1>1, <2>1, <2>2, HandlingType DEF Busy
<1>9. CASE EndDrain(w) \/ Crash(w)
  BY <1>1, <1>9, IdleType DEF EndDrain, Crash
<1>10. CASE \E e \in Emails : Suppress(w, e)
  BY <1>1, <1>3, <1>10, NextRowType
<1>11. CASE \E e \in Emails : Exhaust(w, e)
  BY <1>1, <1>4, <1>11, HandlingType DEF Busy
<1>12. CASE \E e \in Emails : Lease(w, e)
  BY <1>1, <1>5, <1>12, HandlingType DEF Busy
<1>13. CASE \E n \in {0, 1} : RaiseAlarm(w, n) \/ SendFails(w, n)
  BY <1>1, <1>6, <1>13, NextRowType
<1> QED
  BY <1>2, <1>7, <1>8, <1>9, <1>10, <1>11, <1>12, <1>13 DEF Step, Take

(* The row columns and the history after any step but one of the clock.      *)
LEMMA StepRows ==
  ASSUME Types, NEW w \in Drains, Step(w) \/ Crash(w)
  PROVE  /\ status' \in [Emails -> {"Absent", "PENDING", "SENT", "FAILED", "SUPPRESSED"}]
         /\ attempts' \in [Emails -> 0..MaxAttempts]
         /\ wait' \in [Emails -> Int \cup {NoTime}]
         /\ delivered' \in [Emails -> Nat] /\ alarms' \in [Emails -> Nat]
         /\ requeues' = requeues /\ orgOn' = orgOn /\ reachable' = reachable
<1> USE DEF Types, TypeOK, history, settings, rowVars
<1>1. drain[w].pc \in Busy => drain[w].row \in Emails
  BY DEF Handling
<1>2. CASE StartDrain(w) \/ EndDrain(w) \/ Crash(w)
  BY <1>2 DEF StartDrain, EndDrain, Crash
<1>3. ASSUME NEW e \in Emails, Suppress(w, e) \/ Exhaust(w, e)
      PROVE  /\ status' \in [Emails -> {"Absent", "PENDING", "SENT", "FAILED", "SUPPRESSED"}]
             /\ UNCHANGED <<attempts, wait, history, settings>>
  BY <1>3 DEF Suppress, Exhaust, StatusOnceExhausted
<1>4. ASSUME NEW e \in Emails, Lease(w, e)
      PROVE  /\ attempts' \in [Emails -> 0..MaxAttempts]
             /\ wait' \in [Emails -> Int \cup {NoTime}]
             /\ UNCHANGED <<status, history, settings>>
  <2>1. attempts[e] \in 0..MaxAttempts /\ attempts[e] < MaxAttempts
    BY <1>4, OutboxAssumption DEF Lease, Exhausted
  <2>2. attempts[e] + 1 \in 1..MaxAttempts /\ attempts[e] + 1 \in 0..MaxAttempts
    BY <2>1, OutboxAssumption
  <2>3. drain[w].age \in Int
    BY DEF DrainRecords
  <2>4. LeaseUntil(w, e) \in Int
    BY <2>2, <2>3, BackoffAssumption DEF LeaseUntil
  <2> QED
    BY <1>4, <2>2, <2>4 DEF Lease, Counted
<1>5. ASSUME NEW n \in {0, 1}, RaiseAlarm(w, n)
      PROVE  alarms' \in [Emails -> Nat] /\ UNCHANGED <<rowVars, delivered, requeues, settings>>
  BY <1>1, <1>5 DEF RaiseAlarm, Busy
<1>6. ASSUME NEW n \in {0, 1}, SendFails(w, n)
      PROVE  delivered' \in [Emails -> Nat] /\ UNCHANGED <<rowVars, alarms, requeues, settings>>
  BY <1>1, <1>6 DEF SendFails, Busy
<1>7. CASE SendOk(w)
  BY <1>1, <1>7 DEF SendOk, Busy
<1>8. CASE MarkSent(w)
  BY <1>1, <1>8 DEF MarkSent, Busy
<1>9. CASE \E e \in Emails : Take(w, e)
  BY <1>3, <1>4, <1>9 DEF Take
<1>10. CASE \E n \in {0, 1} : RaiseAlarm(w, n)
  BY <1>5, <1>10
<1>11. CASE \E n \in {0, 1} : SendFails(w, n)
  BY <1>6, <1>11
<1> QED
  BY <1>2, <1>7, <1>8, <1>9, <1>10, <1>11 DEF Step

LEMMA OlderType ==
  ASSUME NEW d \in DrainRecords, Older(d).age <= MaxRun, Older(d).busy <= MaxSend
  PROVE  /\ Older(d) \in DrainRecords /\ Older(d).pc = d.pc /\ Older(d).row = d.row
         /\ Older(d).left = d.left
         /\ d.pc # "idle" => Older(d).age = d.age + 1
BY OutboxAssumption DEF Older, DrainRecords

LEMMA TickTypes ==
  ASSUME Types, Tick
  PROVE  Types'
<1>1. ASSUME NEW w \in Drains
      PROVE  drain'[w] \in DrainRecords /\ Handling(drain'[w])
  <2>1. drain[w] \in DrainRecords /\ Handling(drain[w]) /\ drain'[w] = Older(drain[w])
    BY DEF Types, TypeOK, Tick
  <2> QED
    BY <2>1, OlderType DEF Tick, Handling
<1>2. drain' \in [Drains -> DrainRecords]
  BY <1>1 DEF Tick
<1>3. wait' \in [Emails -> Int \cup {NoTime}]
  BY OutboxAssumption DEF Types, TypeOK, Tick, Later
<1>4. \A w \in Drains : drain'[w].pc \in Busy => drain'[w].row # NoEmail
  BY <1>1, OutboxAssumption DEF Handling, Emails
<1> QED
  BY <1>1, <1>2, <1>3, <1>4 DEF Types, TypeOK, Tick, history, settings, Busy

LEMMA NextTypes ==
  ASSUME Types, [Next]_vars
  PROVE  Types'
<1>1. CASE \E w \in Drains : Step(w) \/ Crash(w)
  <2>1. PICK w \in Drains : Step(w) \/ Crash(w)
    BY <1>1
  <2>2. \A x \in Drains : drain'[x].pc \in Busy => drain'[x].row # NoEmail
    BY <2>1, StepDrain, OutboxAssumption DEF Handling, Emails
  <2> QED
    BY <2>1, <2>2, StepDrain, StepRows DEF Types, TypeOK, Busy
<1>2. CASE \E e \in Emails, quiet \in BOOLEAN : Enqueue(e, quiet)
  BY <1>2, OutboxAssumption DEF Enqueue, Types, TypeOK, history, settings
<1>3. CASE Requeue
  BY <1>3, OutboxAssumption DEF Requeue, Types, TypeOK, settings
<1>4. CASE SwitchDelivery \/ \E e \in Emails : SwitchRecipient(e)
  BY <1>4 DEF SwitchDelivery, SwitchRecipient, Types, TypeOK, rowVars, history
<1>5. CASE Tick
  BY <1>5, TickTypes
<1>6. CASE UNCHANGED vars
  BY <1>6 DEF vars, Types, TypeOK
<1> QED
  BY <1>1, <1>2, <1>3, <1>4, <1>5, <1>6 DEF Next

\* Every column, worker record and counter of the outbox keeps its type in every
\* reachable state: in particular no row is attempted more than MaxAttempts times
\* between two requeues and no drain handles more than Limit rows.
THEOREM OutboxTypeCorrect == Spec => []TypeOK
<1>1. Init => Types
  BY InitTypes
<1>2. Types /\ [Next]_vars => Types'
  BY NextTypes
<1>3. Types => TypeOK
  BY DEF Types
<1> QED
  BY <1>1, <1>2, <1>3, PTL DEF Spec

(***************************************************************************)
(* A lease keeps away whoever started too soon.                            *)
(***************************************************************************)
(* A row being sent is leased until the base wait after its sender started   *)
(* at least, and whoever else is sending it started at another time.         *)
LeaseHeld(w, e) ==
  Sending(w, e) =>
     /\ status[e] # "Absent"
     /\ wait[e] \in Int /\ wait[e] >= RetryBase - drain[w].age
     /\ \A x \in Drains \ {w} : Sending(x, e) => Apart(w, x)

Leased == requeues = 0 => \A e \in Emails, w \in Drains : LeaseHeld(w, e)

LEMMA ApartBothWays == ASSUME NEW w, NEW x, Apart(w, x) PROVE Apart(x, w)
BY DEF Apart

(* Who claims a row started at least the base wait after whoever sends it.   *)
LEMMA ClaimerIsApart ==
  ASSUME Types, Leased, requeues = 0, NEW w \in Drains, NEW x \in Drains, NEW e \in Emails,
         Sending(w, e), Claims(x, e)
  PROVE  drain[w].age - drain[x].age >= RetryBase
<1>1. drain[w].age \in 0..MaxRun /\ drain[x].age \in 0..MaxRun
  BY DEF Types, TypeOK, DrainRecords
<1>2. wait[e] \in Int /\ wait[e] >= RetryBase - drain[w].age
  BY DEF Leased, LeaseHeld
<1>3. Due(x, e)
  BY ClaimsFacts
<1> QED
  BY <1>1, <1>2, <1>3, OutboxAssumption DEF Due

(* A step that neither starts a send nor touches a lease keeps the leases.   *)
LEMMA FewerSenders ==
  ASSUME Types, Leased, NEW w \in Drains, requeues' = requeues, wait' = wait,
         \A e \in Emails : status[e] # "Absent" => status'[e] # "Absent",
         \A x \in Drains \ {w} : drain'[x] = drain[x],
         \A e \in Emails : Sending(w, e)' => Sending(w, e) /\ drain'[w].age = drain[w].age
  PROVE  Leased'
<1>1. SUFFICES ASSUME requeues = 0, NEW e \in Emails, NEW y \in Drains, Sending(y, e)'
               PROVE  /\ status'[e] # "Absent"
                      /\ wait'[e] \in Int /\ wait'[e] >= RetryBase - drain'[y].age
                      /\ \A x \in Drains \ {y} : Sending(x, e)' => Apart(y, x)'
  BY DEF Leased, LeaseHeld
<1>2. \A x \in Drains : Sending(x, e)' => Sending(x, e) /\ drain'[x].age = drain[x].age
  BY DEF Sending
<1>3. LeaseHeld(y, e) /\ Sending(y, e) /\ drain'[y].age = drain[y].age
  BY <1>1, <1>2 DEF Leased
<1> QED
  BY <1>2, <1>3 DEF LeaseHeld, Apart

LEMMA LeaseLeased ==
  ASSUME Types, Leased, NEW w \in Drains, NEW e \in Emails, Lease(w, e)
  PROVE  Leased'
<1>1. drain' = [drain EXCEPT ![w] = [drain[w] EXCEPT !.pc = "sending", !.row = e]]
  BY Zenon DEF Lease
<1>2. drain \in [Drains -> DrainRecords] /\ wait \in [Emails -> Int \cup {NoTime}]
  BY DEF Types, TypeOK
<1>3. /\ drain'[w].pc = "sending" /\ drain'[w].row = e /\ drain'[w].age = drain[w].age
      /\ \A x \in Drains \ {w} : drain'[x] = drain[x]
  BY <1>1, <1>2 DEF DrainRecords
<1>4. status' = status /\ wait' = [wait EXCEPT ![e] = LeaseUntil(w, e)] /\ Pending(e)
      /\ requeues' = requeues
  BY ClaimsFacts DEF Lease, history
<1>5. LeaseUntil(w, e) \in Int /\ LeaseUntil(w, e) >= RetryBase - drain[w].age
  <2>1. attempts[e] \in 0..MaxAttempts /\ attempts[e] < MaxAttempts /\ drain[w].age \in 0..MaxRun
    BY OutboxAssumption DEF Types, TypeOK, Lease, Exhausted, DrainRecords
  <2>2. attempts[e] + 1 \in 1..MaxAttempts
    BY <2>1, OutboxAssumption
  <2>3. Backoff(attempts[e] + 1) \in Int /\ Backoff(attempts[e] + 1) >= RetryBase
    BY <2>2, BackoffAssumption
  <2> QED
    BY <2>1, <2>3, OutboxAssumption DEF LeaseUntil
<1>6. SUFFICES ASSUME requeues = 0, NEW f \in Emails, NEW y \in Drains, Sending(y, f)'
               PROVE  /\ status'[f] # "Absent"
                      /\ wait'[f] \in Int /\ wait'[f] >= RetryBase - drain'[y].age
                      /\ \A x \in Drains \ {y} : Sending(x, f)' => Apart(y, x)'
  BY <1>4 DEF Leased, LeaseHeld
<1>7. \A x \in Drains \ {w} : Sending(x, e) => drain[x].age - drain[w].age >= RetryBase
  BY <1>6, ClaimerIsApart DEF Lease
<1>8. \A x \in Drains : drain'[x].age = drain[x].age
  BY <1>3
<1>9. \A x \in Drains \ {w}, g \in Emails : Sending(x, g)' <=> Sending(x, g)
  BY <1>3 DEF Sending
<1>10. CASE y = w
  <2>1. f = e
    BY <1>3, <1>6, <1>10 DEF Sending
  <2>2. \A x \in Drains \ {w} : Sending(x, e)' => Apart(w, x)'
    BY <1>7, <1>8, <1>9 DEF Apart
  <2> QED
    BY <1>2, <1>3, <1>4, <1>5, <1>10, <2>1, <2>2 DEF Pending
<1>11. CASE y # w
  <2>1. Sending(y, f) /\ LeaseHeld(y, f)
    BY <1>6, <1>9, <1>11 DEF Leased
  <2>2. CASE f = e
    <3>1. drain[y].age - drain[w].age >= RetryBase
      BY <1>7, <1>11, <2>1, <2>2
    <3>2. drain[y].age \in Int /\ drain[w].age \in Int
      BY <1>2, OutboxAssumption DEF DrainRecords
    <3>3. wait'[f] = LeaseUntil(w, e)
      BY <1>2, <1>4, <2>2
    <3>4. wait'[f] >= RetryBase - drain'[y].age
      BY <1>5, <1>8, <3>1, <3>2, <3>3, OutboxAssumption
    <3>5. \A x \in Drains \ {y} : Sending(x, f)' => Apart(y, x)'
      <4> SUFFICES ASSUME NEW x \in Drains \ {y}, Sending(x, f)' PROVE Apart(y, x)'
        OBVIOUS
      <4>1. CASE x = w
        BY <1>8, <3>1, <4>1 DEF Apart
      <4>2. CASE x # w
        BY <1>8, <1>9, <2>1, <4>2 DEF LeaseHeld, Apart
      <4> QED
        BY <4>1, <4>2
    <3> QED
      BY <1>4, <1>5, <2>2, <3>3, <3>4, <3>5 DEF Pending
  <2>3. CASE f # e
    <3>1. \A x \in Drains : Sending(x, f)' => Sending(x, f)
      BY <1>3, <1>9, <2>3 DEF Sending
    <3> QED
      BY <1>2, <1>4, <1>8, <2>1, <2>3, <3>1 DEF LeaseHeld, Apart
  <2> QED
    BY <2>2, <2>3
<1> QED
  BY <1>10, <1>11

LEMMA StepLeased ==
  ASSUME Types, Leased, NEW w \in Drains, Step(w) \/ Crash(w)
  PROVE  Leased'
<1>0. drain[w] \in DrainRecords /\ Handling(drain[w]) /\ drain \in [Drains -> DrainRecords]
      /\ status \in [Emails -> {"Absent", "PENDING", "SENT", "FAILED", "SUPPRESSED"}]
  BY DEF Types, TypeOK
<1>1. \A x \in Drains \ {w} : drain'[x] = drain[x]
  BY StepDrain
<1>2. CASE StartDrain(w)
  <2>1. drain' = [drain EXCEPT ![w] = [drain[w] EXCEPT !.pc = "claiming", !.left = Limit]]
    BY <1>2, Zenon DEF StartDrain
  <2>2. drain'[w].pc = "claiming"
    BY <1>0, <2>1 DEF DrainRecords
  <2>3. \A e \in Emails : ~Sending(w, e)'
    BY <2>2 DEF Sending
  <2> QED
    BY <1>1, <1>2, <2>3, FewerSenders DEF StartDrain, rowVars, history
<1>3. CASE EndDrain(w) \/ Crash(w)
  <2>1. drain'[w].pc = "idle"
    BY <1>0, <1>3, IdleType DEF EndDrain, Crash
  <2>2. \A e \in Emails : ~Sending(w, e)'
    BY <2>1 DEF Sending
  <2> QED
    BY <1>1, <1>3, <2>2, FewerSenders DEF EndDrain, Crash, rowVars, history
<1>4. CASE \E e \in Emails : Suppress(w, e)
  <2>1. PICK e \in Emails : Suppress(w, e)
    BY <1>4
  <2>2. drain'[w].pc = "claiming"
    BY <1>0, <2>1 DEF Suppress, NextRow
  <2>3. \A f \in Emails : ~Sending(w, f)'
    BY <2>2 DEF Sending
  <2>4. /\ \A f \in Emails : status[f] # "Absent" => status'[f] # "Absent"
        /\ wait' = wait /\ requeues' = requeues
    BY <1>0, <2>1 DEF Suppress, history
  <2> QED
    BY <1>1, <2>3, <2>4, FewerSenders
<1>5. CASE \E e \in Emails : Exhaust(w, e)
  <2>1. PICK e \in Emails : Exhaust(w, e)
    BY <1>5
  <2>2. drain' = [drain EXCEPT ![w] = [drain[w] EXCEPT !.pc = "alarming", !.row = e]]
    BY <2>1, Zenon DEF Exhaust
  <2>3. drain'[w].pc = "alarming"
    BY <1>0, <2>2 DEF DrainRecords
  <2>4. \A f \in Emails : ~Sending(w, f)'
    BY <2>3 DEF Sending
  <2>5. /\ \A f \in Emails : status[f] # "Absent" => status'[f] # "Absent"
        /\ wait' = wait /\ requeues' = requeues
    BY <1>0, <2>1 DEF Exhaust, StatusOnceExhausted, history
  <2> QED
    BY <1>1, <2>4, <2>5, FewerSenders
<1>6. CASE \E e \in Emails : Lease(w, e)
  BY <1>6, LeaseLeased
<1>7. CASE \E n \in {0, 1} : RaiseAlarm(w, n) \/ SendFails(w, n)
  <2>1. drain'[w].pc = "claiming"
    BY <1>0, <1>7 DEF RaiseAlarm, SendFails, NextRow
  <2>2. \A e \in Emails : ~Sending(w, e)'
    BY <2>1 DEF Sending
  <2> QED
    BY <1>1, <1>7, <2>2, FewerSenders DEF RaiseAlarm, SendFails, rowVars
<1>8. CASE SendOk(w)
  <2>1. drain' = [drain EXCEPT ![w] = [drain[w] EXCEPT !.pc = "sent"]]
    BY <1>0, <1>8 DEF SendOk, DrainRecords
  <2>2. drain'[w].row = drain[w].row /\ drain'[w].age = drain[w].age
    BY <1>0, <2>1 DEF DrainRecords
  <2>3. \A e \in Emails : Sending(w, e)' => Sending(w, e)
    BY <1>8, <2>2 DEF Sending, SendOk
  <2> QED
    BY <1>1, <1>8, <2>2, <2>3, FewerSenders DEF SendOk, rowVars
<1>9. CASE MarkSent(w)
  <2>1. drain'[w].pc = "claiming"
    BY <1>0, <1>9 DEF MarkSent, NextRow
  <2>2. \A f \in Emails : ~Sending(w, f)'
    BY <2>1 DEF Sending
  <2>3. /\ \A f \in Emails : status[f] # "Absent" => status'[f] # "Absent"
        /\ wait' = wait /\ requeues' = requeues
    BY <1>0, <1>9 DEF MarkSent, history
  <2> QED
    BY <1>1, <2>2, <2>3, FewerSenders
<1> QED
  BY <1>2, <1>3, <1>4, <1>5, <1>6, <1>7, <1>8, <1>9 DEF Step, Take

LEMMA TickLeased ==
  ASSUME Types, Leased, Tick
  PROVE  Leased'
<1>1. SUFFICES ASSUME requeues = 0, NEW e \in Emails, NEW w \in Drains, Sending(w, e)'
               PROVE  /\ status'[e] # "Absent"
                      /\ wait'[e] \in Int /\ wait'[e] >= RetryBase - drain'[w].age
                      /\ \A x \in Drains \ {w} : Sending(x, e)' => Apart(w, x)'
  BY DEF Leased, LeaseHeld, Tick, history
<1>2. ASSUME NEW x \in Drains, Sending(x, e)'
      PROVE  /\ Sending(x, e) /\ drain'[x].age = drain[x].age + 1
             /\ drain[x].age \in 0..MaxRun /\ drain'[x].age <= MaxRun
  <2>1. drain[x] \in DrainRecords /\ drain'[x] = Older(drain[x]) /\ drain'[x].age <= MaxRun
        /\ Older(drain[x]).busy <= MaxSend
    BY DEF Types, TypeOK, Tick
  <2>2. /\ drain'[x].pc = drain[x].pc /\ drain'[x].row = drain[x].row
        /\ drain[x].pc # "idle" => drain'[x].age = drain[x].age + 1
    BY <2>1, OlderType
  <2> QED
    BY <1>2, <2>1, <2>2 DEF Sending, DrainRecords
<1>3. LeaseHeld(w, e) /\ Sending(w, e)
  BY <1>1, <1>2 DEF Leased
<1>4. wait'[e] = wait[e] - 1 /\ wait[e] \in Int
  <2>1. wait'[e] = Later(wait[e])
    BY DEF Tick
  <2>2. wait[e] \in Int /\ wait[e] > 0 - MaxRun
    BY <1>1, <1>2, <1>3, OutboxAssumption DEF LeaseHeld
  <2> QED
    BY <2>1, <2>2, OutboxAssumption DEF Later
<1>5. status'[e] # "Absent" /\ wait'[e] \in Int /\ wait'[e] >= RetryBase - drain'[w].age
  BY <1>1, <1>2, <1>3, <1>4, OutboxAssumption DEF LeaseHeld, Tick
<1>6. ASSUME NEW x \in Drains \ {w}, Sending(x, e)' PROVE Apart(w, x)'
  <2>1. Apart(w, x)
    BY <1>2, <1>3, <1>6 DEF LeaseHeld
  <2>2. /\ drain'[x].age = drain[x].age + 1 /\ drain[x].age \in 0..MaxRun
        /\ drain'[w].age = drain[w].age + 1 /\ drain[w].age \in 0..MaxRun
    BY <1>1, <1>2, <1>6
  <2>3. /\ drain'[w].age - drain'[x].age = drain[w].age - drain[x].age
        /\ drain'[x].age - drain'[w].age = drain[x].age - drain[w].age
    BY <2>2, OutboxAssumption
  <2> QED
    BY <2>1, <2>3 DEF Apart
<1> QED
  BY <1>5, <1>6

LEMMA NextLeased ==
  ASSUME Types, Leased, [Next]_vars
  PROVE  Leased'
<1>1. CASE \E w \in Drains : Step(w) \/ Crash(w)
  BY <1>1, StepLeased
<1>2. CASE \E e \in Emails, quiet \in BOOLEAN : Enqueue(e, quiet)
  <2>1. PICK e \in Emails, quiet \in BOOLEAN : Enqueue(e, quiet)
    BY <1>2
  <2>2. /\ drain' = drain /\ requeues' = requeues /\ status[e] = "Absent"
        /\ \A f \in Emails \ {e} : status'[f] = status[f] /\ wait'[f] = wait[f]
    BY <2>1 DEF Enqueue, Types, TypeOK, history
  <2>3. SUFFICES ASSUME requeues = 0, NEW f \in Emails, NEW w \in Drains, Sending(w, f)'
                 PROVE  LeaseHeld(w, f)'
    BY <2>2 DEF Leased, LeaseHeld
  <2>4. Sending(w, f) /\ LeaseHeld(w, f)
    BY <2>2, <2>3 DEF Leased, Sending
  <2>5. f # e
    BY <2>2, <2>4 DEF LeaseHeld
  <2> QED
    BY <2>2, <2>4, <2>5 DEF LeaseHeld, Sending, Apart
<1>3. CASE Requeue
  BY <1>3 DEF Requeue, Leased, Types, TypeOK
<1>4. CASE SwitchDelivery \/ \E e \in Emails : SwitchRecipient(e)
  BY <1>4 DEF SwitchDelivery, SwitchRecipient, Leased, LeaseHeld, Sending, Apart, rowVars, history
<1>5. CASE Tick
  BY <1>5, TickLeased
<1>6. CASE UNCHANGED vars
  BY <1>6 DEF vars, Leased, LeaseHeld, Sending, Apart, history, rowVars
<1> QED
  BY <1>1, <1>2, <1>3, <1>4, <1>5, <1>6 DEF Next

\* For any number of rows, drains and attempts, and however long a drain lasts: until an
\* administrator requeues, drain_once sends a row another drain is sending only if the two
\* drains started at least the base wait apart.
THEOREM SendersStayApart == Spec => []SendersAreApart
<1>1. Init => Types /\ Leased
  <2>1. Init => Leased
    BY IdleType DEF Init, Leased, LeaseHeld, Sending
  <2> QED
    BY <2>1, InitTypes
<1>2. Types /\ Leased /\ [Next]_vars => Types' /\ Leased'
  BY NextTypes, NextLeased
<1>3. Leased => SendersAreApart
  BY DEF Leased, LeaseHeld, SendersAreApart
<1> QED
  BY <1>1, <1>2, <1>3, PTL DEF Spec

(***************************************************************************)
(* A sent email stays sent.                                                *)
(***************************************************************************)
LEMMA SentStays ==
  ASSUME Types, [Next]_vars, NEW e \in Emails, status[e] = "SENT"
  PROVE  status'[e] = "SENT"
<1>0. status \in [Emails -> {"Absent", "PENDING", "SENT", "FAILED", "SUPPRESSED"}]
  BY DEF Types, TypeOK
<1>1. ASSUME NEW w \in Drains, Step(w) \/ Crash(w)
      PROVE  status'[e] = "SENT"
  <2>1. ASSUME NEW f \in Emails, Take(w, f)
        PROVE  status'[e] = "SENT"
    <3>1. f # e
      BY <2>1, ClaimsFacts DEF Take, Suppress, Exhaust, Lease, Pending
    <3> QED
      BY <1>0, <2>1, <3>1 DEF Take, Suppress, Exhaust, Lease
  <2>2. CASE MarkSent(w)
    BY <1>0, <2>2 DEF MarkSent
  <2>3. CASE StartDrain(w) \/ EndDrain(w) \/ Crash(w) \/ SendOk(w)
    BY <2>3 DEF StartDrain, EndDrain, Crash, SendOk, rowVars
  <2>4. CASE \E n \in {0, 1} : RaiseAlarm(w, n) \/ SendFails(w, n)
    BY <2>4 DEF RaiseAlarm, SendFails, rowVars
  <2> QED
    BY <1>1, <2>1, <2>2, <2>3, <2>4 DEF Step
<1>2. CASE \E f \in Emails, quiet \in BOOLEAN : Enqueue(f, quiet)
  BY <1>0, <1>2 DEF Enqueue
<1>3. CASE Requeue
  BY <1>3 DEF Requeue, Requeued
<1>4. CASE SwitchDelivery \/ Tick \/ \E f \in Emails : SwitchRecipient(f)
  BY <1>4 DEF SwitchDelivery, SwitchRecipient, Tick, rowVars
<1>5. CASE UNCHANGED vars
  BY <1>5 DEF vars
<1> QED
  BY <1>1, <1>2, <1>3, <1>4, <1>5 DEF Next

\* A row that drain_once marked SENT is never queued, failed or suppressed afterwards,
\* whatever late drains, requeues and settings do, for any values of the constants.
THEOREM SentStaysSent == Spec => SentIsFinal
<1>1. Init => Types
  BY InitTypes
<1>2. Types /\ [Next]_vars => Types'
  BY NextTypes
<1>3. Types /\ [Next]_vars => [\A e \in Emails : status[e] = "SENT" => status'[e] = "SENT"]_vars
  BY SentStays
<1> QED
  BY <1>1, <1>2, <1>3, PTL DEF Spec, SentIsFinal

-----------------------------------------------------------------------------
(* Copies and alarms, counted.                                               *)

Senders(e) == {w \in Drains : drain[w].pc = "sending" /\ drain[w].row = e}
Alarmers(e) == {w \in Drains : drain[w].pc = "alarming" /\ drain[w].row = e}

\* Every copy the server has accepted, or may yet accept, was counted as an attempt of this or
\* an earlier round.
CopiesFit(e) == delivered[e] + Cardinality(Senders(e)) <= attempts[e] + MaxAttempts * requeues

\* Every alarm raised, or about to be, belongs to a row that was given up once more than it
\* was requeued.
AlarmsFit(e) ==
  alarms[e] + Cardinality(Alarmers(e))
     <= requeues + (IF status[e] \in {"Absent", "PENDING"} THEN 0 ELSE 1)

CountInv == Types /\ \A e \in Emails : CopiesFit(e) /\ AlarmsFit(e)

\* A set of workers that differs at one worker only differs in size by that worker.
LEMMA CountAtOne ==
  ASSUME NEW w \in Drains, NEW S \in SUBSET Drains, NEW T \in SUBSET Drains,
         \A x \in Drains \ {w} : x \in S <=> x \in T
  PROVE  /\ Cardinality(S) \in Nat /\ Cardinality(T) \in Nat
         /\ (w \in S <=> w \in T) => Cardinality(S) = Cardinality(T)
         /\ w \notin S /\ w \in T => Cardinality(T) = Cardinality(S) + 1
         /\ w \in S /\ w \notin T => Cardinality(S) = Cardinality(T) + 1
<1>1. IsFiniteSet(S) /\ IsFiniteSet(T)
  BY OutboxAssumption, FS_Subset
<1>2. Cardinality(S) \in Nat /\ Cardinality(T) \in Nat
  BY <1>1, FS_CardinalityType
<1>3. (w \in S <=> w \in T) => S = T
  OBVIOUS
<1>4. CASE w \notin S /\ w \in T
  <2>1. T = S \cup {w}
    BY <1>4
  <2> QED
    BY <1>1, <1>2, <1>4, <2>1, FS_AddElement
<1>5. CASE w \in S /\ w \notin T
  <2>1. S = T \cup {w}
    BY <1>5
  <2> QED
    BY <1>1, <1>2, <1>5, <2>1, FS_AddElement
<1> QED
  BY <1>2, <1>3, <1>4, <1>5

LEMMA CountTypes ==
  ASSUME Types, NEW e \in Emails
  PROVE  /\ Cardinality(Senders(e)) \in Nat /\ Cardinality(Alarmers(e)) \in Nat
         /\ delivered[e] \in Nat /\ alarms[e] \in Nat /\ attempts[e] \in Nat
         /\ requeues \in Nat /\ MaxAttempts * requeues \in Nat
<1>1. Senders(e) \in SUBSET Drains /\ Alarmers(e) \in SUBSET Drains
  BY DEF Senders, Alarmers
<1>2. IsFiniteSet(Senders(e)) /\ IsFiniteSet(Alarmers(e))
  BY <1>1, OutboxAssumption, FS_Subset
<1>3. Cardinality(Senders(e)) \in Nat /\ Cardinality(Alarmers(e)) \in Nat
  BY <1>2, FS_CardinalityType
<1> QED
  BY <1>3, OutboxAssumption DEF Types, TypeOK

\* The counts of an email no worker takes up, gives up, sends or reports stay what they were.
LEMMA CountsStay ==
  ASSUME CountInv, NEW e \in Emails, requeues' = requeues, delivered'[e] = delivered[e],
         alarms'[e] = alarms[e], attempts'[e] = attempts[e],
         status'[e] = status[e] \/ status'[e] \notin {"Absent", "PENDING"} \/ status[e] = "Absent",
         \A w \in Drains : w \in Senders(e)' => w \in Senders(e),
         \A w \in Drains : w \in Alarmers(e)' => w \in Alarmers(e)
  PROVE  CopiesFit(e)' /\ AlarmsFit(e)'
<1>1. Senders(e)' \subseteq Senders(e) /\ Alarmers(e)' \subseteq Alarmers(e)
  BY DEF Senders, Alarmers
<1>2. IsFiniteSet(Senders(e)) /\ IsFiniteSet(Alarmers(e))
  <2>1. Senders(e) \subseteq Drains /\ Alarmers(e) \subseteq Drains
    BY DEF Senders, Alarmers
  <2> QED
    BY <2>1, OutboxAssumption, FS_Subset
<1>3. /\ Cardinality(Senders(e)') <= Cardinality(Senders(e)) /\ Cardinality(Senders(e)') \in Nat
      /\ Cardinality(Alarmers(e)') <= Cardinality(Alarmers(e)) /\ Cardinality(Alarmers(e)') \in Nat
  BY <1>1, <1>2, FS_Subset, FS_CardinalityType
<1>4. CopiesFit(e) /\ AlarmsFit(e) /\ Types
  BY DEF CountInv
<1>5. CopiesFit(e)'
  BY <1>3, <1>4, CountTypes DEF CopiesFit
<1>6. AlarmsFit(e)'
  BY <1>3, <1>4, CountTypes DEF AlarmsFit
<1> QED
  BY <1>5, <1>6

\* The counts of an email after a step of one drain.
LEMMA CountsAfter ==
  ASSUME NEW w \in Drains, \A x \in Drains \ {w} : drain'[x] = drain[x], NEW e \in Emails
  PROVE  /\ Cardinality(Senders(e)') \in Nat /\ Cardinality(Alarmers(e)') \in Nat
         /\ (w \in Senders(e) <=> w \in Senders(e)') => Cardinality(Senders(e)') = Cardinality(Senders(e))
         /\ w \notin Senders(e) /\ w \in Senders(e)' => Cardinality(Senders(e)') = Cardinality(Senders(e)) + 1
         /\ w \in Senders(e) /\ w \notin Senders(e)' => Cardinality(Senders(e)) = Cardinality(Senders(e)') + 1
         /\ (w \in Alarmers(e) <=> w \in Alarmers(e)') => Cardinality(Alarmers(e)') = Cardinality(Alarmers(e))
         /\ w \notin Alarmers(e) /\ w \in Alarmers(e)' => Cardinality(Alarmers(e)') = Cardinality(Alarmers(e)) + 1
         /\ w \in Alarmers(e) /\ w \notin Alarmers(e)' => Cardinality(Alarmers(e)) = Cardinality(Alarmers(e)') + 1
<1>1. /\ Senders(e) \in SUBSET Drains /\ Senders(e)' \in SUBSET Drains
      /\ \A x \in Drains \ {w} : x \in Senders(e) <=> x \in Senders(e)'
  BY DEF Senders
<1>2. /\ Alarmers(e) \in SUBSET Drains /\ Alarmers(e)' \in SUBSET Drains
      /\ \A x \in Drains \ {w} : x \in Alarmers(e) <=> x \in Alarmers(e)'
  BY DEF Alarmers
<1> QED
  BY <1>1, <1>2, CountAtOne

\* A drain that is neither sending nor raising an alarm after its step raises no count.
LEMMA QuietDrainCounts ==
  ASSUME CountInv, NEW w \in Drains, \A x \in Drains \ {w} : drain'[x] = drain[x],
         drain'[w].pc \notin {"sending", "alarming"}, NEW e \in Emails,
         requeues' = requeues, delivered'[e] = delivered[e], alarms'[e] = alarms[e],
         attempts'[e] = attempts[e],
         status'[e] = status[e] \/ status'[e] \notin {"Absent", "PENDING"}
  PROVE  CopiesFit(e)' /\ AlarmsFit(e)'
<1>1. /\ \A x \in Drains : x \in Senders(e)' => x \in Senders(e)
      /\ \A x \in Drains : x \in Alarmers(e)' => x \in Alarmers(e)
  BY DEF Senders, Alarmers
<1> QED
  BY <1>1, CountsStay

LEMMA LeaseCounts ==
  ASSUME CountInv, NEW w \in Drains, NEW f \in Emails, Lease(w, f), NEW e \in Emails,
         \A x \in Drains \ {w} : drain'[x] = drain[x]
  PROVE  CopiesFit(e)' /\ AlarmsFit(e)'
<1>0. drain[w].pc = "claiming" /\ Types /\ CopiesFit(e) /\ AlarmsFit(e)
  BY ClaimsFacts DEF Lease, CountInv
<1>1. drain'[w].pc = "sending" /\ drain'[w].row = f
  <2>1. drain[w] \in DrainRecords /\ drain'[w] = [drain[w] EXCEPT !.pc = "sending", !.row = f]
    BY <1>0 DEF Lease, Types, TypeOK
  <2> QED
    BY <2>1 DEF DrainRecords
<1>2. /\ requeues' = requeues /\ delivered' = delivered /\ alarms' = alarms /\ status' = status
      /\ attempts'[e] = IF e = f THEN attempts[e] + 1 ELSE attempts[e]
  BY <1>0 DEF Lease, history, Counted, Types, TypeOK
<1>3. w \notin Senders(e) /\ w \notin Alarmers(e) /\ w \notin Alarmers(e)'
  BY <1>0, <1>1 DEF Senders, Alarmers
<1>4. w \in Senders(e)' <=> e = f
  BY <1>1 DEF Senders
<1>5. CopiesFit(e)'
  BY <1>0, <1>2, <1>3, <1>4, CountsAfter, CountTypes DEF CopiesFit
<1>6. AlarmsFit(e)'
  BY <1>0, <1>2, <1>3, CountsAfter, CountTypes DEF AlarmsFit
<1> QED
  BY <1>5, <1>6

LEMMA ExhaustCounts ==
  ASSUME CountInv, NEW w \in Drains, NEW f \in Emails, Exhaust(w, f), NEW e \in Emails,
         \A x \in Drains \ {w} : drain'[x] = drain[x]
  PROVE  CopiesFit(e)' /\ AlarmsFit(e)'
<1>0. drain[w].pc = "claiming" /\ Pending(f) /\ Types /\ CopiesFit(e) /\ AlarmsFit(e)
  BY ClaimsFacts DEF Exhaust, CountInv
<1>1. drain'[w].pc = "alarming" /\ drain'[w].row = f
  <2>1. drain[w] \in DrainRecords /\ drain'[w] = [drain[w] EXCEPT !.pc = "alarming", !.row = f]
    BY <1>0 DEF Exhaust, Types, TypeOK
  <2> QED
    BY <2>1 DEF DrainRecords
<1>2. /\ requeues' = requeues /\ delivered' = delivered /\ alarms' = alarms /\ attempts' = attempts
      /\ status'[e] = IF e = f THEN "FAILED" ELSE status[e]
  BY <1>0 DEF Exhaust, history, StatusOnceExhausted, Types, TypeOK
<1>3. w \notin Alarmers(e) /\ w \notin Senders(e) /\ w \notin Senders(e)'
  BY <1>0, <1>1 DEF Senders, Alarmers
<1>4. w \in Alarmers(e)' <=> e = f
  BY <1>1 DEF Alarmers
<1>5. CopiesFit(e)'
  BY <1>0, <1>2, <1>3, CountsAfter, CountTypes DEF CopiesFit
<1>6. AlarmsFit(e)'
  BY <1>0, <1>2, <1>3, <1>4, CountsAfter, CountTypes DEF AlarmsFit, Pending
<1> QED
  BY <1>5, <1>6

\* A send that ends turns its sender into a copy, or into nothing.
LEMMA SendCounts ==
  ASSUME CountInv, NEW w \in Drains, NEW n \in {0, 1}, drain[w].pc = "sending",
         \A x \in Drains \ {w} : drain'[x] = drain[x], drain'[w].pc \notin {"sending", "alarming"},
         delivered' = [delivered EXCEPT ![drain[w].row] = @ + n],
         UNCHANGED <<rowVars, alarms, requeues>>, NEW e \in Emails
  PROVE  CopiesFit(e)' /\ AlarmsFit(e)'
<1>0. Types /\ CopiesFit(e) /\ AlarmsFit(e)
  BY DEF CountInv
<1>1. drain[w].row \in Emails
  BY <1>0 DEF Types, Handling, Busy
<1>2. delivered'[e] = IF e = drain[w].row THEN delivered[e] + n ELSE delivered[e]
  BY <1>0, <1>1 DEF Types, TypeOK
<1>3. /\ w \in Senders(e) <=> e = drain[w].row
      /\ w \notin Senders(e)' /\ w \notin Alarmers(e) /\ w \notin Alarmers(e)'
  BY DEF Senders, Alarmers
<1>4. attempts' = attempts /\ status' = status /\ requeues' = requeues /\ alarms' = alarms
  BY DEF rowVars
<1>5. CopiesFit(e)'
  BY <1>0, <1>2, <1>3, <1>4, CountsAfter, CountTypes DEF CopiesFit
<1>6. AlarmsFit(e)'
  BY <1>0, <1>3, <1>4, CountsAfter, CountTypes DEF AlarmsFit
<1> QED
  BY <1>5, <1>6

LEMMA AlarmCounts ==
  ASSUME CountInv, NEW w \in Drains, NEW n \in {0, 1}, RaiseAlarm(w, n),
         \A x \in Drains \ {w} : drain'[x] = drain[x], drain'[w].pc \notin {"sending", "alarming"},
         NEW e \in Emails
  PROVE  CopiesFit(e)' /\ AlarmsFit(e)'
<1>0. Types /\ CopiesFit(e) /\ AlarmsFit(e) /\ drain[w].pc = "alarming"
  BY DEF CountInv, RaiseAlarm
<1>1. drain[w].row \in Emails
  BY <1>0 DEF Types, Handling, Busy
<1>2. alarms'[e] = IF e = drain[w].row THEN alarms[e] + n ELSE alarms[e]
  BY <1>0, <1>1 DEF RaiseAlarm, Types, TypeOK
<1>3. /\ w \in Alarmers(e) <=> e = drain[w].row
      /\ w \notin Alarmers(e)' /\ w \notin Senders(e) /\ w \notin Senders(e)'
  BY <1>0 DEF Senders, Alarmers
<1>4. attempts' = attempts /\ status' = status /\ requeues' = requeues /\ delivered' = delivered
  BY DEF RaiseAlarm, rowVars
<1>5. CopiesFit(e)'
  BY <1>0, <1>3, <1>4, CountsAfter, CountTypes DEF CopiesFit
<1>6. AlarmsFit(e)'
  BY <1>0, <1>2, <1>3, <1>4, CountsAfter, CountTypes DEF AlarmsFit
<1> QED
  BY <1>5, <1>6

LEMMA StepCounts ==
  ASSUME CountInv, NEW w \in Drains, Step(w) \/ Crash(w), NEW e \in Emails
  PROVE  CopiesFit(e)' /\ AlarmsFit(e)'
<1>0. /\ Types /\ drain[w] \in DrainRecords /\ Handling(drain[w])
      /\ drain \in [Drains -> DrainRecords]
      /\ status \in [Emails -> {"Absent", "PENDING", "SENT", "FAILED", "SUPPRESSED"}]
  BY DEF CountInv, Types, TypeOK
<1>1. \A x \in Drains \ {w} : drain'[x] = drain[x]
  BY <1>0, StepDrain
<1>2. ASSUME drain' = [drain EXCEPT ![w] = NextRow(w)], drain[w].left >= 1
      PROVE  drain'[w].pc \notin {"sending", "alarming"}
  <2>1. drain'[w] = NextRow(w)
    BY <1>0, <1>2
  <2> QED
    BY <1>0, <1>2, <2>1, NextRowType
<1>3. ASSUME drain' = [drain EXCEPT ![w] = Idle]
      PROVE  drain'[w].pc \notin {"sending", "alarming"}
  BY <1>0, <1>3, IdleType
<1>4. CASE StartDrain(w)
  <2>1. drain'[w].pc = "claiming"
    BY <1>0, <1>4 DEF StartDrain, DrainRecords
  <2> QED
    BY <1>1, <1>4, <2>1, QuietDrainCounts DEF StartDrain, rowVars, history
<1>5. CASE EndDrain(w) \/ Crash(w)
  BY <1>1, <1>3, <1>5, QuietDrainCounts DEF EndDrain, Crash, rowVars, history
<1>6. ASSUME NEW f \in Emails, Suppress(w, f) PROVE CopiesFit(e)' /\ AlarmsFit(e)'
  <2>1. drain[w].left \in Nat /\ drain[w].left > 0
    BY <1>0, <1>6, ClaimsFacts, OutboxAssumption DEF Suppress, DrainRecords
  <2>2. drain'[w].pc \notin {"sending", "alarming"}
    BY <1>2, <1>6, <2>1 DEF Suppress
  <2>3. status'[e] = status[e] \/ status'[e] = "SUPPRESSED"
    BY <1>0, <1>6 DEF Suppress
  <2> QED
    BY <1>1, <1>6, <2>2, <2>3, QuietDrainCounts DEF Suppress, history
<1>7. CASE \E f \in Emails : Lease(w, f)
  BY <1>1, <1>7, LeaseCounts
<1>8. CASE \E f \in Emails : Exhaust(w, f)
  BY <1>1, <1>8, ExhaustCounts
<1>9. ASSUME NEW n \in {0, 1}, RaiseAlarm(w, n) PROVE CopiesFit(e)' /\ AlarmsFit(e)'
  <2>1. drain'[w].pc \notin {"sending", "alarming"}
    BY <1>0, <1>2, <1>9 DEF RaiseAlarm, Handling, Busy
  <2> QED
    BY <1>1, <1>9, <2>1, AlarmCounts
<1>10. CASE SendOk(w)
  <2>1. drain'[w].pc = "sent"
    BY <1>0, <1>10 DEF SendOk, DrainRecords
  <2> QED
    BY <1>1, <1>10, <2>1, SendCounts DEF SendOk
<1>11. ASSUME NEW n \in {0, 1}, SendFails(w, n) PROVE CopiesFit(e)' /\ AlarmsFit(e)'
  <2>1. drain'[w].pc \notin {"sending", "alarming"}
    BY <1>0, <1>2, <1>11 DEF SendFails, Handling, Busy
  <2> QED
    BY <1>1, <1>11, <2>1, SendCounts DEF SendFails
<1>12. CASE MarkSent(w)
  <2>1. drain'[w].pc \notin {"sending", "alarming"}
    BY <1>0, <1>2, <1>12 DEF MarkSent, Handling, Busy
  <2>2. status'[e] = status[e] \/ status'[e] = "SENT"
    BY <1>0, <1>12 DEF MarkSent
  <2> QED
    BY <1>1, <1>12, <2>1, <2>2, QuietDrainCounts DEF MarkSent, history
<1> QED
  BY <1>4, <1>5, <1>6, <1>7, <1>8, <1>9, <1>10, <1>11, <1>12 DEF Step, Take

\* A requeue starts a new round of attempts and of alarms.
LEMMA RequeueCounts ==
  ASSUME CountInv, Requeue, NEW e \in Emails
  PROVE  CopiesFit(e)' /\ AlarmsFit(e)'
<1>0. /\ Types /\ CopiesFit(e) /\ AlarmsFit(e)
      /\ attempts[e] \in 0..MaxAttempts /\ MaxAttempts \in Nat /\ requeues \in Nat
  BY OutboxAssumption DEF CountInv, Types, TypeOK
<1>1. /\ attempts'[e] \in {0, attempts[e]} /\ requeues' = requeues + 1
      /\ delivered' = delivered /\ alarms' = alarms
      /\ status'[e] = IF status[e] = "FAILED" THEN "PENDING" ELSE status[e]
  BY DEF Requeue, Requeued
<1>2. Senders(e)' = Senders(e) /\ Alarmers(e)' = Alarmers(e)
  BY DEF Requeue, Senders, Alarmers
<1>3. MaxAttempts * (requeues + 1) = MaxAttempts * requeues + MaxAttempts
  BY <1>0
<1>4. CopiesFit(e)'
  BY <1>0, <1>1, <1>2, <1>3, CountTypes DEF CopiesFit
<1>5. AlarmsFit(e)'
  BY <1>0, <1>1, <1>2, CountTypes DEF AlarmsFit
<1> QED
  BY <1>4, <1>5

LEMMA NextCounts ==
  ASSUME CountInv, [Next]_vars
  PROVE  CountInv'
<1>0. Types /\ Types'
  BY NextTypes DEF CountInv
<1>1. ASSUME NEW e \in Emails PROVE CopiesFit(e)' /\ AlarmsFit(e)'
  <2>1. CASE \E w \in Drains : Step(w) \/ Crash(w)
    BY <2>1, StepCounts
  <2>2. CASE Requeue
    BY <2>2, RequeueCounts
  <2>3. CASE \E f \in Emails, quiet \in BOOLEAN : Enqueue(f, quiet)
    <3>1. status'[e] = status[e] \/ status[e] = "Absent"
      BY <1>0, <2>3 DEF Enqueue, Types, TypeOK
    <3> QED
      BY <2>3, <3>1, CountsStay DEF Enqueue, history, Senders, Alarmers
  <2>4. CASE SwitchDelivery \/ (\E f \in Emails : SwitchRecipient(f)) \/ UNCHANGED vars
    BY <2>4, CountsStay
    DEF SwitchDelivery, SwitchRecipient, vars, rowVars, history, Senders, Alarmers
  <2>5. CASE Tick
    <3>1. \A w \in Drains : drain'[w].pc = drain[w].pc /\ drain'[w].row = drain[w].row
      BY <2>5 DEF Tick, Older
    <3> QED
      BY <2>5, <3>1, CountsStay DEF Tick, history, Senders, Alarmers
  <2> QED
    BY <2>1, <2>2, <2>3, <2>4, <2>5 DEF Next
<1> QED
  BY <1>0, <1>1 DEF CountInv

\* For any number of workers, however they overlap, outlive their leases, die after sending or
\* lose the server's answer: a recipient gets at most MaxAttempts copies per enqueue or requeue,
\* the administrators one alarm per failure, and a delivered email stays delivered.
THEOREM OutboxStaysSound == Spec => OutboxIsSound
<1>1. Init => CountInv
  <2> SUFFICES ASSUME Init PROVE CountInv
    OBVIOUS
  <2>1. Types
    BY InitTypes
  <2>2. ASSUME NEW e \in Emails PROVE CopiesFit(e) /\ AlarmsFit(e)
    <3>1. Senders(e) = {} /\ Alarmers(e) = {}
      BY IdleType DEF Init, Senders, Alarmers
    <3>2. Cardinality(Senders(e)) = 0 /\ Cardinality(Alarmers(e)) = 0
      BY <3>1, FS_EmptySet
    <3>3. delivered[e] = 0 /\ alarms[e] = 0 /\ attempts[e] = 0 /\ requeues = 0 /\ status[e] = "Absent"
      BY DEF Init
    <3> QED
      BY <3>2, <3>3, OutboxAssumption DEF CopiesFit, AlarmsFit
  <2> QED
    BY <2>1, <2>2 DEF CountInv
<1>2. CountInv => TypeOK /\ SendsAreBounded /\ OneAlarmPerFailure
  <2> SUFFICES ASSUME CountInv PROVE TypeOK /\ SendsAreBounded /\ OneAlarmPerFailure
    OBVIOUS
  <2>1. Types /\ requeues \in Nat /\ MaxAttempts \in Nat
    BY OutboxAssumption DEF CountInv, Types, TypeOK
  <2>2. MaxAttempts * (1 + requeues) = MaxAttempts + MaxAttempts * requeues
    BY <2>1
  <2>3. ASSUME NEW e \in Emails
        PROVE  delivered[e] <= MaxAttempts * (1 + requeues) /\ alarms[e] <= 1 + requeues
    <3>1. attempts[e] \in 0..MaxAttempts /\ CopiesFit(e) /\ AlarmsFit(e)
      BY <2>1 DEF CountInv, Types, TypeOK
    <3> QED
      BY <2>1, <2>2, <3>1, CountTypes DEF CopiesFit, AlarmsFit
  <2> QED
    BY <2>1, <2>3 DEF Types, SendsAreBounded, OneAlarmPerFailure
<1> QED
  BY <1>1, <1>2, NextCounts, SentStaysSent, PTL DEF Spec, OutboxIsSound

(***************************************************************************)
(* Acknowledgements.                                                       *)
(***************************************************************************)
\* A user's obligations q: pinned to versions that governed, at most one of them open, and
\* the completed ones matched by the acknowledgement rows, one to one.
DutiesFit(u, q) ==
  /\ q \in Seq(Duties)
  /\ \A i \in DOMAIN q : q[i].pin \in governed
  /\ \A i, j \in DOMAIN q : IsOpen(q[i]) /\ IsOpen(q[j]) => i = j
  /\ \A i, j \in DOMAIN q :
       q[i].state = "COMPLETED" /\ q[j].state = "COMPLETED" /\ q[i].pin = q[j].pin => i = j
  /\ \A v \in Seqs :
       <<u, v>> \in acks <=> \E i \in DOMAIN q : q[i].state = "COMPLETED" /\ q[i].pin = v

\* What a sweep that has read the open tasks knows of them: it has all that are still open,
\* and never two of one user.
OpenKnown(known) ==
  /\ OpenPairs \subseteq known
  /\ \A p \in known : \E u \in Users : \E i \in DOMAIN duty[u] : p = <<u, i>>
  /\ \A p, q \in known : p[1] = q[1] => p = q

SweepFields == {"pc", "gov", "boundary", "audience", "satisfied", "open"}

SweepFits(x) ==
  /\ DOMAIN x = SweepFields
  /\ x.pc \in {"idle", "listed", "read", "planned", "ineligible"}
  /\ x.pc \in {"listed", "read", "planned"} => x.gov \in governed
  /\ x.pc \in {"read", "planned"} => x.audience \subseteq Users
  /\ x.pc = "planned" => OpenKnown(x.open)

DutyInv ==
  /\ governed \subseteq Seqs /\ governing \in governed \cup {0}
  /\ required \in BOOLEAN /\ audience \subseteq Users
  /\ definition \in {"ok", "missing", "malformed"}
  /\ acks \subseteq Users \X governed
  /\ DOMAIN duty = Users /\ \A u \in Users : DutiesFit(u, duty[u])
  /\ DOMAIN sweep = Sweepers /\ \A s \in Sweepers : SweepFits(sweep[s])
  /\ \A s, t \in Sweepers : sweep[s].pc # "idle" /\ sweep[t].pc # "idle" => s = t

LEMMA SmallSets ==
  ASSUME NEW S, \A x, y \in S : x = y
  PROVE  Cardinality(S) = IF S = {} THEN 0 ELSE 1
<1>1. CASE S = {}
  BY <1>1, FS_EmptySet
<1>2. CASE S # {}
  <2>1. PICK x : x \in S
    BY <1>2
  <2>2. S = {x}
    BY <2>1
  <2>3. Cardinality({x}) = 1
    BY FS_Singleton
  <2> QED
    BY <1>2, <2>2, <2>3
<1> QED
  BY <1>1, <1>2

LEMMA DutyFields ==
  ASSUME NEW d \in Duties
  PROVE  /\ d.pin \in Seqs /\ d.state \in {"PENDING", "COMPLETED", "CANCELLED"}
         /\ d = [pin |-> d.pin, state |-> d.state]
BY DEF Duties

LEMMA SeqFacts ==
  ASSUME NEW q \in Seq(Duties)
  PROVE  /\ Len(q) \in Nat /\ DOMAIN q = 1..Len(q)
         /\ \A i \in DOMAIN q : q[i] \in Duties
  OBVIOUS

\* Pruning changes open rows only, and those to cancelled.
PrunedAs(q, r) ==
  /\ r \in Seq(Duties) /\ DOMAIN r = DOMAIN q
  /\ \A i \in DOMAIN q : r[i] = q[i] \/ (IsOpen(q[i]) /\ r[i] = [pin |-> q[i].pin, state |-> "CANCELLED"])

LEMMA CancelledRow ==
  ASSUME NEW d \in Duties
  PROVE  /\ Cancelled(d) \in Duties
         /\ IsOpen(d) => Cancelled(d) = [pin |-> d.pin, state |-> "CANCELLED"]
         /\ ~IsOpen(d) => Cancelled(d) = d
<1>1. CASE IsOpen(d)
  <2>1. Cancelled(d) = [d EXCEPT !.state = "CANCELLED"]
    BY <1>1 DEF Cancelled
  <2>2. d = [pin |-> d.pin, state |-> d.state] /\ d.pin \in Seqs
    BY DutyFields
  <2>3. [d EXCEPT !.state = "CANCELLED"] = [pin |-> d.pin, state |-> "CANCELLED"]
    BY <2>2
  <2>4. [pin |-> d.pin, state |-> "CANCELLED"] \in Duties
    BY <2>2 DEF Duties
  <2> QED
    BY <1>1, <2>1, <2>3, <2>4
<1>2. CASE ~IsOpen(d)
  BY <1>2 DEF Cancelled
<1> QED
  BY <1>1, <1>2

LEMMA PruneOne ==
  ASSUME NEW u \in Users, duty[u] \in Seq(Duties), NEW S
  PROVE  /\ PrunedAs(duty[u], Pruned(S)[u])
         /\ \A i \in DOMAIN duty[u] : Pruned(S)[u][i] =
              IF <<u, i>> \in S THEN Cancelled(duty[u][i]) ELSE duty[u][i]
<1> DEFINE q == duty[u]
           e(i) == IF <<u, i>> \in S THEN Cancelled(q[i]) ELSE q[i]
           r == [i \in DOMAIN q |-> e(i)]
<1>1. Pruned(S)[u] = r
  BY DEF Pruned
<1>2. \A i \in DOMAIN q : e(i) \in Duties
  BY SeqFacts, CancelledRow
<1>3. DOMAIN q = 1..Len(q) /\ Len(q) \in Nat
  BY SeqFacts
<1>4. r \in Seq(Duties)
  <2>1. PICK n \in Nat : DOMAIN q = 1..n
    BY <1>3
  <2>2. r \in [1..n -> Duties]
    BY <1>2, <2>1
  <2> HIDE DEF r
  <2> QED
    BY <2>1, <2>2
<1>5. DOMAIN r = DOMAIN q /\ \A i \in DOMAIN q : r[i] = e(i)
  OBVIOUS
<1>6. ASSUME NEW i \in DOMAIN q
      PROVE  r[i] = q[i] \/ (IsOpen(q[i]) /\ r[i] = [pin |-> q[i].pin, state |-> "CANCELLED"])
  <2>1. q[i] \in Duties
    BY SeqFacts
  <2> QED
    BY <1>5, <2>1, CancelledRow
<1> HIDE DEF r
<1> QED
  BY <1>1, <1>4, <1>5, <1>6 DEF PrunedAs

\* Pruning keeps a user's obligations in order.
LEMMA PruneKeeps ==
  ASSUME NEW u \in Users, NEW q, NEW r, DutiesFit(u, q), PrunedAs(q, r)
  PROVE  /\ DutiesFit(u, r)
         /\ \A i \in DOMAIN q : IsOpen(r[i]) => r[i] = q[i]
         /\ \A i \in DOMAIN q : q[i].state = "COMPLETED" <=> r[i].state = "COMPLETED"
<1>1. \A i \in DOMAIN q : /\ r[i].pin = q[i].pin
                          /\ IsOpen(r[i]) => r[i] = q[i]
                          /\ q[i].state = "COMPLETED" <=> r[i].state = "COMPLETED"
  BY DEF PrunedAs, IsOpen
<1> QED
  BY <1>1 DEF DutiesFit, PrunedAs

\* Minting adds one open row to a user who has none.
NoneOpen(q) == \A i \in DOMAIN q : ~IsOpen(q[i])
MintedAs(q, v, r) == r = Append(q, [pin |-> v, state |-> "PENDING"])

LEMMA MintKeeps ==
  ASSUME NEW u \in Users, NEW q, NEW v \in Seqs, DutiesFit(u, q), v \in governed,
         NoneOpen(q), NEW r, MintedAs(q, v, r)
  PROVE  /\ DutiesFit(u, r)
         /\ DOMAIN q \subseteq DOMAIN r /\ \A i \in DOMAIN q : r[i] = q[i]
<1>1. PICK d : d = [pin |-> v, state |-> "PENDING"]
  OBVIOUS
<1>2. d \in Duties /\ d.pin = v /\ d.state = "PENDING"
  BY <1>1 DEF Duties
<1>3. q \in Seq(Duties)
  BY DEF DutiesFit
<1>4. PICK n \in Nat : n = Len(q) /\ DOMAIN q = 1..n
  BY <1>3, SeqFacts
<1>5. /\ r \in Seq(Duties) /\ Len(r) = n + 1 /\ DOMAIN r = 1..(n + 1)
      /\ \A i \in 1..n : r[i] = q[i]
      /\ r[n + 1] = d
  BY <1>1, <1>2, <1>3, <1>4, AppendProperties DEF MintedAs
<1>6. 1..(n + 1) = (1..n) \cup {n + 1} /\ n + 1 \notin 1..n
  BY <1>4
<1>7. \A i \in DOMAIN r : (i \in DOMAIN q /\ r[i] = q[i]) \/ (i = n + 1 /\ r[i] = d)
  BY <1>4, <1>5, <1>6
<1>8. \A i \in DOMAIN q : i \in DOMAIN r /\ r[i] = q[i]
  BY <1>4, <1>5, <1>6
<1>9. \A i \in DOMAIN r : r[i].pin \in governed
  BY <1>2, <1>7 DEF DutiesFit
<1>10. \A i \in DOMAIN r : IsOpen(r[i]) => i = n + 1
  BY <1>7 DEF NoneOpen
<1>11. \A i \in DOMAIN r : r[i].state = "COMPLETED" => i \in DOMAIN q /\ r[i] = q[i]
  BY <1>2, <1>7
<1>12. \A i, j \in DOMAIN r :
         r[i].state = "COMPLETED" /\ r[j].state = "COMPLETED" /\ r[i].pin = r[j].pin => i = j
  BY <1>11 DEF DutiesFit
<1>13. ASSUME NEW x \in Seqs
       PROVE  <<u, x>> \in acks <=> \E i \in DOMAIN r : r[i].state = "COMPLETED" /\ r[i].pin = x
  BY <1>8, <1>11 DEF DutiesFit
<1> QED
  BY <1>5, <1>8, <1>9, <1>10, <1>12, <1>13 DEF DutiesFit

\* Nobody is asked anything new: rows are only completed or left.
AsksNothing ==
  /\ governed \subseteq governed'
  /\ DOMAIN duty' = Users
  /\ \A u \in Users : DOMAIN duty'[u] = DOMAIN duty[u]
  /\ \A u \in Users : \A i \in DOMAIN duty[u] : IsOpen(duty'[u][i]) => IsOpen(duty[u][i])

LEMMA SweepKept ==
  ASSUME DutyInv, AsksNothing, NEW x, SweepFits(x)
  PROVE  SweepFits(x)'
<1>1. OpenPairs' \subseteq OpenPairs
  <2>1. ASSUME NEW u \in Users PROVE OpenDuties(u)' \subseteq OpenDuties(u)
    BY DEF AsksNothing, OpenDuties, IsOpen
  <2>2. ASSUME NEW p \in OpenPairs' PROVE p \in OpenPairs
    <3>1. PICK u \in Users : p \in {u} \X OpenDuties(u)'
      BY <2>2 DEF OpenPairs
    <3> QED
      BY <2>1, <3>1 DEF OpenPairs
  <2> QED
    BY <2>2
<1>2. OpenKnown(x.open) => OpenKnown(x.open)'
  BY <1>1 DEF OpenKnown, AsksNothing
<1> QED
  BY <1>2 DEF SweepFits, SweepFields, AsksNothing

\* The sweeps stay in order when one of them goes on as x and nothing new is asked.
LEMMA SweepMoves ==
  ASSUME DutyInv, AsksNothing, NEW s \in Sweepers, NEW x, sweep' = [sweep EXCEPT ![s] = x],
         SweepFits(x)', sweep[s].pc = "idle" => LockFree
  PROVE  /\ DOMAIN sweep' = Sweepers /\ \A t \in Sweepers : SweepFits(sweep[t])'
         /\ \A t, r \in Sweepers : sweep'[t].pc # "idle" /\ sweep'[r].pc # "idle" => t = r
<1>1. DOMAIN sweep' = Sweepers /\ \A t \in Sweepers : sweep'[t] = IF t = s THEN x ELSE sweep[t]
  BY DEF DutyInv
<1>2. ASSUME NEW t \in Sweepers PROVE SweepFits(sweep[t])'
  <2>1. PICK y : y = sweep'[t]
    OBVIOUS
  <2>2. SweepFits(y)'
    <3>1. CASE t = s
      BY <1>1, <2>1, <3>1
    <3>2. CASE t # s
      <4>1. SweepFits(y)
        BY <1>1, <2>1, <3>2 DEF DutyInv
      <4> QED
        BY <4>1, SweepKept
    <3> QED
      BY <3>1, <3>2
  <2> QED
    BY <2>1, <2>2 DEF SweepFits, OpenKnown
<1>3. ASSUME NEW t \in Sweepers, t # s PROVE sweep'[t].pc # "idle" => sweep[t].pc # "idle" /\ sweep[s].pc = "idle"
  BY <1>1, <1>3 DEF DutyInv
<1>4. ASSUME NEW t \in Sweepers, t # s PROVE sweep'[t].pc = "idle"
  BY <1>3, <1>4 DEF LockFree
<1> QED
  BY <1>1, <1>2, <1>4

LEMMA SweepsStay ==
  ASSUME DutyInv, AsksNothing, UNCHANGED sweep
  PROVE  /\ DOMAIN sweep' = Sweepers /\ \A t \in Sweepers : SweepFits(sweep[t])'
         /\ \A t, r \in Sweepers : sweep'[t].pc # "idle" /\ sweep'[r].pc # "idle" => t = r
<1>1. ASSUME NEW t \in Sweepers PROVE SweepFits(sweep[t])'
  <2>1. PICK y : y = sweep[t]
    OBVIOUS
  <2>2. SweepFits(y)'
    BY <2>1, SweepKept DEF DutyInv
  <2>3. sweep'[t] = y
    BY <2>1
  <2> QED
    BY <2>2, <2>3 DEF SweepFits, OpenKnown
<1> QED
  BY <1>1 DEF DutyInv

LEMMA DutiesStay ==
  ASSUME DutyInv, UNCHANGED <<duty, acks>>, governed \subseteq governed'
  PROVE  /\ AsksNothing /\ DOMAIN duty' = Users /\ \A u \in Users : DutiesFit(u, duty[u])'
BY DEF DutyInv, AsksNothing, DutiesFit, IsOpen

DocumentStep ==
  \/ \E v \in Seqs : TakesEffect(v)
  \/ Withdrawn
  \/ SwitchRequired
  \/ \E u \in Users : ChangeAudience(u)
  \/ \E d \in {"ok", "missing", "malformed"} : ChangeDefinition(d)

LEMMA DocumentKeeps ==
  ASSUME DutyInv, DocumentStep
  PROVE  DutyInv'
<1>1. UNCHANGED <<duty, acks, sweep>> /\ governed \subseteq governed'
  BY DEF DocumentStep, TakesEffect, Withdrawn, SwitchRequired, ChangeAudience, ChangeDefinition
<1>2. /\ governed' \subseteq Seqs /\ governing' \in governed' \cup {0}
      /\ audience' \subseteq Users
      /\ definition' \in {"ok", "missing", "malformed"}
  BY DEF DutyInv, DocumentStep, TakesEffect, Withdrawn, SwitchRequired, ChangeAudience, ChangeDefinition
<1>3. required' \in BOOLEAN
  <2>1. required' = required \/ required' = ~required
    BY DEF DocumentStep, TakesEffect, Withdrawn, SwitchRequired, ChangeAudience, ChangeDefinition
  <2> QED
    BY <2>1 DEF DutyInv
<1>4. acks' \subseteq Users \X governed'
  BY <1>1 DEF DutyInv
<1> QED
  BY <1>1, <1>2, <1>3, <1>4, DutiesStay, SweepsStay DEF DutyInv

LEMMA NoSweepFits ==
  /\ DOMAIN NoSweep = SweepFields /\ NoSweep.pc = "idle"
  /\ SweepFits(NoSweep)'
<1>1. DOMAIN NoSweep = SweepFields /\ NoSweep.pc = "idle"
  BY DEF NoSweep, SweepFields
<1>2. PICK y : y = NoSweep
  OBVIOUS
<1>3. SweepFits(y)'
  BY <1>1, <1>2 DEF SweepFits, SweepFields
<1> QED
  BY <1>1, <1>2, <1>3 DEF SweepFits, OpenKnown, NoSweep

\* A sweep that only reads.
LEMMA ReadingKeeps ==
  ASSUME DutyInv, NEW s \in Sweepers, SweepList(s) \/ SweepRead(s) \/ SweepOpen(s) \/ SweeperDies(s)
  PROVE  DutyInv'
<1>1. UNCHANGED <<documentVars, duty, acks>>
  BY DEF SweepList, SweepRead, SweepOpen, SweeperDies
<1>2. UNCHANGED <<governed, governing, required, audience, definition, duty, acks>>
  BY <1>1 DEF documentVars
<1>3. AsksNothing /\ DOMAIN duty' = Users /\ \A u \in Users : DutiesFit(u, duty[u])'
  BY <1>2, DutiesStay
<1>4. ASSUME NEW x, sweep' = [sweep EXCEPT ![s] = x], SweepFits(x)', sweep[s].pc = "idle" => LockFree
      PROVE  DutyInv'
  BY <1>2, <1>3, <1>4, SweepMoves DEF DutyInv
<1>5. PICK old : old = sweep[s] /\ DOMAIN old = SweepFields
  BY DEF DutyInv, SweepFits
<1>6. CASE SweepList(s)
  <2>1. PICK p \in {"listed", "ineligible"} : p = IF InForce THEN "listed" ELSE "ineligible"
    OBVIOUS
  <2>2. PICK x : x = [NoSweep EXCEPT !.pc = p, !.gov = governing]
    OBVIOUS
  <2>3. sweep' = [sweep EXCEPT ![s] = x] /\ LockFree
    BY <1>6, <2>1, <2>2 DEF SweepList
  <2>4. DOMAIN x = SweepFields /\ x.pc = p /\ x.gov = governing
    BY <2>2, NoSweepFits DEF SweepFields
  <2>5. p = "listed" => governing \in governed
    BY <2>1 DEF InForce, DutyInv
  <2>6. SweepFits(x)'
    BY <1>2, <2>1, <2>4, <2>5 DEF SweepFits, SweepFields
  <2> QED
    BY <1>4, <2>3, <2>6
<1>7. CASE SweepRead(s)
  <2>1. PICK x : x = [old EXCEPT !.pc = "read", !.boundary = Boundary(sweep[s].gov),
                                 !.audience = audience, !.satisfied = Satisfied(Boundary(sweep[s].gov))]
    OBVIOUS
  <2>2. sweep' = [sweep EXCEPT ![s] = x] /\ sweep[s].pc = "listed"
    BY <1>5, <1>7, <2>1 DEF SweepRead, DutyInv
  <2>3. DOMAIN x = SweepFields /\ x.pc = "read" /\ x.gov = old.gov /\ x.audience = audience
    BY <1>5, <2>1 DEF SweepFields
  <2>4. old.gov \in governed
    BY <1>5, <2>2 DEF DutyInv, SweepFits
  <2>5. SweepFits(x)'
    BY <1>2, <2>3, <2>4 DEF SweepFits, SweepFields, DutyInv
  <2> QED
    BY <1>4, <2>2, <2>5
<1>8. CASE SweepOpen(s)
  <2>0. PICK S : S = OpenPairs
    OBVIOUS
  <2>1. PICK x : x = [old EXCEPT !.pc = "planned", !.open = S]
    OBVIOUS
  <2>2. sweep' = [sweep EXCEPT ![s] = x] /\ sweep[s].pc = "read"
    BY <1>5, <1>8, <2>0, <2>1 DEF SweepOpen, DutyInv
  <2>3. DOMAIN x = SweepFields /\ x.pc = "planned" /\ x.gov = old.gov /\ x.open = S
          /\ x.audience = old.audience
    BY <1>5, <2>1 DEF SweepFields
  <2>4. old.gov \in governed /\ old.audience \subseteq Users
    BY <1>5, <2>2 DEF DutyInv, SweepFits
  <2>5. OpenKnown(S)
    <3>1. \A p \in S : \E u \in Users : \E i \in DOMAIN duty[u] :
             p = <<u, i>> /\ IsOpen(duty[u][i])
      BY <2>0 DEF OpenPairs, OpenDuties
    <3>2. ASSUME NEW p \in S, NEW q \in S, p[1] = q[1] PROVE p = q
      <4>1. PICK u \in Users : \E i \in DOMAIN duty[u] : p = <<u, i>> /\ IsOpen(duty[u][i])
        BY <3>1
      <4>2. PICK w \in Users : \E j \in DOMAIN duty[w] : q = <<w, j>> /\ IsOpen(duty[w][j])
        BY <3>1
      <4>3. PICK i \in DOMAIN duty[u] : p = <<u, i>> /\ IsOpen(duty[u][i])
        BY <4>1
      <4>4. PICK j \in DOMAIN duty[w] : q = <<w, j>> /\ IsOpen(duty[w][j])
        BY <4>2
      <4>5. u = w
        BY <3>2, <4>3, <4>4
      <4>6. i = j
        BY <4>3, <4>4, <4>5 DEF DutyInv, DutiesFit
      <4> QED
        BY <4>3, <4>4, <4>5, <4>6
    <3> QED
      BY <2>0, <3>1, <3>2 DEF OpenKnown
  <2>6. OpenKnown(S)'
    BY <1>2, <2>5 DEF OpenKnown, OpenPairs, OpenDuties, IsOpen
  <2>7. SweepFits(x)'
    BY <1>2, <2>3, <2>4, <2>6 DEF SweepFits, SweepFields
  <2> QED
    BY <1>4, <2>2, <2>7
<1>9. CASE SweeperDies(s)
  <2>1. PICK x : x = NoSweep
    OBVIOUS
  <2>2. SweepFits(x)'
    BY <2>1, NoSweepFits DEF SweepFits, OpenKnown, NoSweep
  <2>3. sweep' = [sweep EXCEPT ![s] = x] /\ sweep[s].pc # "idle"
    BY <1>9, <2>1 DEF SweeperDies
  <2> QED
    BY <1>4, <2>2, <2>3
<1> QED
  BY <1>6, <1>7, <1>8, <1>9

LEMMA DecisionKeeps ==
  ASSUME DutyInv, NEW u \in Users, NEW i \in DOMAIN duty[u], DecideDocAck(u, i)
  PROVE  DutyInv' /\ duty'[u][i].state = "COMPLETED"
<1>1. UNCHANGED <<governed, governing, required, audience, definition, sweep>>
  BY DEF DecideDocAck, documentVars
<1>2. PICK q : q = duty[u] /\ DutiesFit(u, q) /\ q \in Seq(Duties)
  BY DEF DutyInv, DutiesFit
<1>3. PICK d \in Duties : d = q[i]
  BY <1>2, SeqFacts
<1>4. PICK v \in Seqs : v = d.pin /\ v \in governed
  BY <1>2, <1>3, DutyFields DEF DutiesFit
<1>5. PICK e : e = [pin |-> v, state |-> "COMPLETED"]
  OBVIOUS
<1>6. e \in Duties /\ e.pin = v /\ e.state = "COMPLETED"
  BY <1>5 DEF Duties
<1>7. [d EXCEPT !.state = "COMPLETED"] = e
  <2>1. d = [pin |-> v, state |-> d.state]
    BY <1>4, DutyFields
  <2> QED
    BY <1>5, <2>1
<1>8. PICK r : r = [q EXCEPT ![i] = e]
  OBVIOUS
<1>9. duty' = [duty EXCEPT ![u] = r] /\ acks' = acks \cup {<<u, v>>} /\ <<u, v>> \notin acks
      /\ IsOpen(d)
  <2>1. duty' = [duty EXCEPT ![u][i].state = "COMPLETED"]
    BY DEF DecideDocAck
  <2>2. duty' = [duty EXCEPT ![u] = [q EXCEPT ![i] = [d EXCEPT !.state = "COMPLETED"]]]
    BY <1>2, <1>3, <2>1
  <2>3. acks' = acks \cup {<<u, v>>} /\ <<u, v>> \notin acks /\ IsOpen(d)
    BY <1>2, <1>3, <1>4 DEF DecideDocAck, Unrecorded, OpenDuties
  <2> QED
    BY <1>7, <1>8, <2>2, <2>3
<1>10. PICK n \in Nat : DOMAIN q = 1..n
  BY <1>2, SeqFacts
<1>11. /\ r \in Seq(Duties) /\ DOMAIN r = DOMAIN q /\ i \in DOMAIN q
       /\ \A j \in DOMAIN q : r[j] = IF j = i THEN e ELSE q[j]
  <2>1. q \in [1..n -> Duties]
    BY <1>2, <1>10, SeqFacts
  <2>2. i \in 1..n
    BY <1>2, <1>10
  <2>3. r \in [1..n -> Duties]
    BY <1>6, <1>8, <2>1, <2>2
  <2>4. r \in Seq(Duties)
    BY <2>3
  <2> QED
    BY <1>8, <1>10, <2>1, <2>2, <2>3, <2>4
<1>12. \A j \in DOMAIN q : ~(q[j].state = "COMPLETED" /\ q[j].pin = v)
  BY <1>2, <1>9 DEF DutiesFit
<1>13. DOMAIN duty' = Users /\ \A w \in Users : duty'[w] = IF w = u THEN r ELSE duty[w]
  BY <1>9 DEF DutyInv
<1>14. ASSUME NEW w \in Users PROVE DutiesFit(w, duty[w])'
  <2>1. CASE w # u
    <3>1. duty'[w] = duty[w] /\ \A x \in Seqs : <<w, x>> \in acks' <=> <<w, x>> \in acks
      BY <1>9, <1>13, <2>1
    <3> QED
      BY <1>1, <3>1 DEF DutyInv, DutiesFit, IsOpen
  <2>2. CASE w = u
    <3>1. duty'[w] = r
      BY <1>13, <2>2
    <3>2. \A j \in DOMAIN r : r[j].pin \in governed'
      BY <1>1, <1>2, <1>4, <1>6, <1>11 DEF DutiesFit
    <3>3. \A j, k \in DOMAIN r : IsOpen(r[j]) /\ IsOpen(r[k]) => j = k
      BY <1>2, <1>6, <1>11 DEF DutiesFit, IsOpen
    <3>4. \A j, k \in DOMAIN r :
            r[j].state = "COMPLETED" /\ r[k].state = "COMPLETED" /\ r[j].pin = r[k].pin => j = k
      BY <1>2, <1>6, <1>11, <1>12 DEF DutiesFit
    <3>5. ASSUME NEW x \in Seqs
          PROVE  <<w, x>> \in acks' <=>
                   \E j \in DOMAIN r : r[j].state = "COMPLETED" /\ r[j].pin = x
      <4>1. CASE x = v
        BY <1>6, <1>9, <1>11, <2>2, <4>1
      <4>2. CASE x # v
        <5>1. <<w, x>> \in acks' <=> <<u, x>> \in acks
          BY <1>9, <2>2, <4>2
        <5>2. <<u, x>> \in acks <=>
                \E j \in DOMAIN q : q[j].state = "COMPLETED" /\ q[j].pin = x
          BY <1>2 DEF DutiesFit
        <5>3. ~IsOpen(e) /\ q[i].state # "COMPLETED"
          BY <1>3, <1>6, <1>9 DEF IsOpen
        <5>4. \A j \in DOMAIN q : (r[j].state = "COMPLETED" /\ r[j].pin = x) <=>
                                  (q[j].state = "COMPLETED" /\ q[j].pin = x)
          BY <1>6, <1>11, <4>2, <5>3
        <5> QED
          BY <1>11, <5>1, <5>2, <5>4
      <4> QED
        BY <4>1, <4>2
    <3> QED
      BY <1>11, <3>1, <3>2, <3>3, <3>4, <3>5 DEF DutiesFit, IsOpen, Duties, Seqs
  <2> QED
    BY <2>1, <2>2
<1>15. AsksNothing
  <2>1. \A w \in Users : DOMAIN duty'[w] = DOMAIN duty[w]
    BY <1>2, <1>11, <1>13
  <2>2. ASSUME NEW w \in Users, NEW j \in DOMAIN duty[w], IsOpen(duty'[w][j])
        PROVE  IsOpen(duty[w][j])
    BY <1>2, <1>6, <1>11, <1>13, <2>2 DEF IsOpen
  <2> QED
    BY <1>1, <1>13, <2>1, <2>2 DEF AsksNothing
<1>16. acks' \subseteq Users \X governed'
  BY <1>1, <1>4, <1>9 DEF DutyInv
<1>17. duty'[u][i].state = "COMPLETED"
  BY <1>6, <1>11, <1>13
<1> QED
  BY <1>1, <1>13, <1>14, <1>15, <1>16, <1>17, SweepsStay DEF DutyInv

\* The end of a sweep leaves nobody sweeping.
LEMMA SweepEnds ==
  ASSUME DutyInv, NEW s \in Sweepers, sweep[s].pc # "idle", sweep' = [sweep EXCEPT ![s] = NoSweep]
  PROVE  /\ DOMAIN sweep' = Sweepers /\ \A t \in Sweepers : SweepFits(sweep[t])'
         /\ \A t, r \in Sweepers : sweep'[t].pc # "idle" /\ sweep'[r].pc # "idle" => t = r
<1>1. DOMAIN sweep' = Sweepers /\ \A t \in Sweepers : sweep'[t] = IF t = s THEN NoSweep ELSE sweep[t]
  BY DEF DutyInv
<1>2. \A t \in Sweepers : sweep'[t].pc = "idle" /\ DOMAIN sweep'[t] = SweepFields
  BY <1>1, NoSweepFits DEF DutyInv, SweepFits
<1>3. ASSUME NEW t \in Sweepers PROVE SweepFits(sweep[t])'
  BY <1>2 DEF SweepFits, SweepFields
<1> QED
  BY <1>1, <1>2, <1>3

\* Nobody who gets a new obligation keeps an open one.
LEMMA MintedHaveNone ==
  ASSUME DutyInv, NEW s \in Sweepers, sweep[s].pc = "planned",
         NEW u \in ToMint(s), u \in Users, NEW i \in DOMAIN duty[u]
  PROVE  ~IsOpen(Pruned(ToCancel(s))[u][i])
<1>1. SUFFICES ASSUME IsOpen(Pruned(ToCancel(s))[u][i]) PROVE FALSE
  OBVIOUS
<1>2. duty[u] \in Seq(Duties) /\ DutiesFit(u, duty[u])
  BY DEF DutyInv, DutiesFit
<1>3. Pruned(ToCancel(s))[u][i] =
        IF <<u, i>> \in ToCancel(s) THEN Cancelled(duty[u][i]) ELSE duty[u][i]
  BY <1>2, PruneOne
<1>4. IsOpen(duty[u][i])
  BY <1>1, <1>3 DEF Cancelled
<1>5. <<u, i>> \in sweep[s].open
  BY <1>4 DEF DutyInv, SweepFits, OpenKnown, OpenPairs, OpenDuties
<1>6. <<u, i>> \in ToCancel(s)
  BY <1>5 DEF ToMint, Surviving
<1>7. duty[u][i] \in Duties
  BY <1>2, SeqFacts
<1>8. Cancelled(duty[u][i]).state = "CANCELLED"
  BY <1>4, <1>7, CancelledRow
<1> QED
  BY <1>1, <1>3, <1>6, <1>8 DEF IsOpen

LEMMA ApplyKeeps ==
  ASSUME DutyInv, NEW s \in Sweepers, SweepApply(s) \/ SweepIneligible(s)
  PROVE  DutyInv' /\ \A u \in Users : \A i \in DOMAIN duty[u] :
           duty[u][i].state = "COMPLETED" => duty'[u][i].state = "COMPLETED"
<1>1. UNCHANGED <<governed, governing, required, audience, definition, acks>>
  BY DEF SweepApply, SweepIneligible, documentVars
<1>2. sweep[s].pc # "idle" /\ sweep' = [sweep EXCEPT ![s] = NoSweep]
  BY DEF SweepApply, SweepIneligible
<1>3. ASSUME DOMAIN duty' = Users, \A u \in Users : DutiesFit(u, duty'[u])
      PROVE  DutyInv'
  <2>1. ASSUME NEW u \in Users PROVE DutiesFit(u, duty[u])'
    BY <1>1, <1>3, ZenonT(40) DEF DutiesFit, IsOpen, Duties, Seqs
  <2> QED
    BY <1>1, <1>2, <1>3, <2>1, SweepEnds DEF DutyInv
<1>4. CASE UNCHANGED duty
  BY <1>3, <1>4 DEF DutyInv
<1>5. ASSUME NEW S, duty' = Pruned(S)
      PROVE  DutyInv' /\ \A u \in Users : \A i \in DOMAIN duty[u] :
               duty[u][i].state = "COMPLETED" => duty'[u][i].state = "COMPLETED"
  <2>1. DOMAIN duty' = Users
    BY <1>5 DEF Pruned
  <2>2. ASSUME NEW u \in Users
        PROVE  /\ DutiesFit(u, duty'[u])
               /\ \A i \in DOMAIN duty[u] :
                    duty[u][i].state = "COMPLETED" => duty'[u][i].state = "COMPLETED"
    <3>1. DutiesFit(u, duty[u]) /\ duty[u] \in Seq(Duties)
      BY DEF DutyInv, DutiesFit
    <3>2. PrunedAs(duty[u], duty'[u])
      BY <1>5, <3>1, PruneOne
    <3> QED
      BY <3>1, <3>2, PruneKeeps
  <2> QED
    BY <1>3, <2>1, <2>2
<1>6. CASE SweepApply(s) /\ duty' = Minted(Pruned(ToCancel(s)), ToMint(s), sweep[s].gov)
  <2>1. sweep[s].pc = "planned" /\ sweep[s].gov \in governed /\ sweep[s].gov \in Seqs
    BY <1>6 DEF SweepApply, DutyInv, SweepFits
  <2>2. DOMAIN duty' = Users
    BY <1>6 DEF Minted
  <2>3. ASSUME NEW u \in Users
        PROVE  /\ DutiesFit(u, duty'[u])
               /\ \A i \in DOMAIN duty[u] :
                    duty[u][i].state = "COMPLETED" => duty'[u][i].state = "COMPLETED"
    <3>1. DutiesFit(u, duty[u]) /\ duty[u] \in Seq(Duties)
      BY DEF DutyInv, DutiesFit
    <3>2. PICK r : r = Pruned(ToCancel(s))[u]
      OBVIOUS
    <3>3. PrunedAs(duty[u], r)
      BY <3>1, <3>2, PruneOne
    <3>4. /\ DutiesFit(u, r) /\ DOMAIN r = DOMAIN duty[u]
          /\ \A i \in DOMAIN duty[u] : duty[u][i].state = "COMPLETED" <=> r[i].state = "COMPLETED"
      BY <3>1, <3>3, PruneKeeps DEF PrunedAs
    <3>5. duty'[u] = IF u \in ToMint(s) THEN Append(r, [pin |-> sweep[s].gov, state |-> "PENDING"])
                     ELSE r
      BY <1>6, <3>2 DEF Minted
    <3>6. CASE u \notin ToMint(s)
      BY <3>4, <3>5, <3>6
    <3>7. CASE u \in ToMint(s)
      <4>1. \A i \in DOMAIN r : ~IsOpen(r[i])
        <5>1. ASSUME NEW i \in DOMAIN duty[u] PROVE ~IsOpen(Pruned(ToCancel(s))[u][i])
          BY <2>1, <3>7, MintedHaveNone
        <5> QED
          BY <3>2, <3>4, <5>1
      <4>2. /\ DutiesFit(u, duty'[u]) /\ \A i \in DOMAIN r : duty'[u][i] = r[i]
        <5>1. PICK v \in Seqs : v = sweep[s].gov /\ v \in governed
          BY <2>1
        <5>2. PICK a : a = duty'[u]
          OBVIOUS
        <5>3. a = Append(r, [pin |-> v, state |-> "PENDING"])
          BY <3>5, <3>7, <5>1, <5>2
        <5>4. DutiesFit(u, r) /\ v \in governed
          BY <3>4, <5>1
        <5>5. NoneOpen(r) /\ MintedAs(r, v, a)
          BY <4>1, <5>3 DEF NoneOpen, MintedAs
        <5>6. DutiesFit(u, a) /\ \A i \in DOMAIN r : a[i] = r[i]
          BY <5>4, <5>5, MintKeeps
        <5> QED
          BY <5>2, <5>6
      <4> QED
        BY <3>4, <4>2
    <3> QED
      BY <3>6, <3>7
  <2> QED
    BY <1>3, <2>2, <2>3
<1> QED
  BY <1>4, <1>5, <1>6 DEF SweepApply, SweepIneligible, AfterFailedMint

LEMMA DutyInvInit ==
  ASSUME AckInit
  PROVE  DutyInv
<1>1. <<>> \in Seq(Duties) /\ DOMAIN <<>> = {}
  OBVIOUS
<1>2. \A u \in Users : DutiesFit(u, <<>>)
  BY <1>1 DEF AckInit, DutiesFit
<1>3. \A s \in Sweepers : sweep[s] = NoSweep
  BY DEF AckInit
<1>4. \A s \in Sweepers : SweepFits(sweep[s])
  BY <1>3, NoSweepFits DEF SweepFits
<1> QED
  BY <1>2, <1>3, <1>4, NoSweepFits DEF AckInit, DutyInv

LEMMA AckSteps ==
  ASSUME AckNext
  PROVE  \/ DocumentStep
         \/ \E s \in Sweepers : SweepList(s) \/ SweepRead(s) \/ SweepOpen(s) \/ SweeperDies(s)
         \/ \E s \in Sweepers : SweepApply(s) \/ SweepIneligible(s)
         \/ \E u \in Users : \E i \in DOMAIN duty[u] : DecideDocAck(u, i)
BY DEF AckNext, SweepGoesOn, DocumentStep

LEMMA DutyInvStep ==
  ASSUME DutyInv, [AckNext]_ackVars
  PROVE  DutyInv'
<1>1. CASE AckNext
  BY <1>1, AckSteps, DocumentKeeps, ReadingKeeps, ApplyKeeps, DecisionKeeps
<1>2. CASE UNCHANGED ackVars
  <2>1. UNCHANGED <<governed, governing, required, audience, definition, duty, acks, sweep>>
    BY <1>2 DEF ackVars
  <2>2. governed \subseteq governed'
    BY <2>1
  <2> QED
    BY <2>1, <2>2, DutiesStay, SweepsStay DEF DutyInv
<1> QED
  BY <1>1, <1>2

LEMMA DutyInvMeans ==
  ASSUME DutyInv
  PROVE  AckTypeOK /\ OneOpenObligation /\ EvidenceMatchesDuties
<1>1. AckTypeOK
  <2>1. \A u \in Users : \A i \in DOMAIN duty[u] : duty[u][i] \in Duties
    BY SeqFacts DEF DutyInv, DutiesFit
  <2> QED
    BY <2>1 DEF DutyInv, AckTypeOK, SweepFits
<1>2. ASSUME NEW u \in Users PROVE Cardinality(OpenDuties(u)) <= 1
  <2>1. \A x, y \in OpenDuties(u) : x = y
    BY DEF OpenDuties, DutyInv, DutiesFit
  <2> QED
    BY <2>1, SmallSets
<1>3. ASSUME NEW u \in Users, NEW v \in Seqs
      PROVE  Cardinality({i \in DOMAIN duty[u] : duty[u][i] = [pin |-> v, state |-> "COMPLETED"]})
               = IF <<u, v>> \in acks THEN 1 ELSE 0
  <2>1. PICK S : S = {i \in DOMAIN duty[u] : duty[u][i] = [pin |-> v, state |-> "COMPLETED"]}
    OBVIOUS
  <2>2. DutiesFit(u, duty[u]) /\ duty[u] \in Seq(Duties)
    BY DEF DutyInv, DutiesFit
  <2>3. ASSUME NEW i \in DOMAIN duty[u]
        PROVE  i \in S <=> duty[u][i].state = "COMPLETED" /\ duty[u][i].pin = v
    <3>1. PICK d \in Duties : d = duty[u][i]
      BY <2>2, SeqFacts
    <3>2. d = [pin |-> d.pin, state |-> d.state]
      BY DutyFields
    <3>3. d = [pin |-> v, state |-> "COMPLETED"] <=> d.state = "COMPLETED" /\ d.pin = v
      BY <3>2
    <3> QED
      BY <2>1, <3>1, <3>3
  <2>4. S \subseteq DOMAIN duty[u]
    BY <2>1
  <2>5. \A x, y \in S : x = y
    BY <2>2, <2>3, <2>4 DEF DutiesFit
  <2>6. <<u, v>> \in acks <=> S # {}
    BY <2>2, <2>3, <2>4 DEF DutiesFit
  <2> QED
    BY <2>1, <2>5, <2>6, SmallSets
<1> QED
  BY <1>1, <1>2, <1>3 DEF OneOpenObligation, EvidenceMatchesDuties

LEMMA MetStaysMet ==
  ASSUME DutyInv, AckNext, NEW u \in Users, NEW i \in DOMAIN duty[u],
         duty[u][i].state = "COMPLETED"
  PROVE  duty'[u][i].state = "COMPLETED"
<1>1. CASE UNCHANGED duty
  BY <1>1
<1>2. ASSUME NEW s \in Sweepers, SweepApply(s) \/ SweepIneligible(s)
      PROVE  duty'[u][i].state = "COMPLETED"
  BY <1>2, ApplyKeeps
<1>3. ASSUME NEW w \in Users, NEW j \in DOMAIN duty[w], DecideDocAck(w, j)
      PROVE  duty'[u][i].state = "COMPLETED"
  <2>1. CASE w = u /\ j = i
    BY <1>3, <2>1, DecisionKeeps
  <2>2. CASE ~(w = u /\ j = i)
    <3>1. duty' = [duty EXCEPT ![w][j].state = "COMPLETED"]
      BY <1>3 DEF DecideDocAck
    <3>2. duty'[u][i] = duty[u][i]
      BY <2>2, <3>1 DEF DutyInv
    <3> QED
      BY <3>2
  <2> QED
    BY <2>1, <2>2
<1> QED
  BY <1>1, <1>2, <1>3, AckSteps
  DEF DocumentStep, TakesEffect, Withdrawn, SwitchRequired, ChangeAudience, ChangeDefinition,
      SweepList, SweepRead, SweepOpen, SweeperDies

LEMMA OwedSurvives ==
  ASSUME DutyInv, AckNext, NEW s \in Sweepers, definition # "ok",
         sweep[s].pc = "planned", sweep'[s].pc = "idle",
         NEW u \in sweep[s].audience \ sweep[s].satisfied, OpenDuties(u) # {}
  PROVE  \E i \in DOMAIN duty'[u] : IsOpen(duty'[u][i])
<1>0. u \in Users
  BY DEF DutyInv, SweepFits
<1>1. PICK i \in DOMAIN duty[u] : IsOpen(duty[u][i])
  BY DEF OpenDuties
<1>2. CASE UNCHANGED duty
  BY <1>1, <1>2
<1>3. CASE SweepApply(s) /\ duty' # duty
  <2>1. ToMint(s) = {} /\ duty' = Minted(Pruned(ToCancel(s)), ToMint(s), sweep[s].gov)
    BY <1>3 DEF SweepApply, AfterFailedMint
  <2>2. duty'[u] = Pruned(ToCancel(s))[u]
    BY <1>0, <2>1 DEF Minted
  <2>3. duty[u] \in Seq(Duties)
    BY <1>0 DEF DutyInv, DutiesFit
  <2>4. /\ DOMAIN duty'[u] = DOMAIN duty[u]
        /\ duty'[u][i] = IF <<u, i>> \in ToCancel(s) THEN Cancelled(duty[u][i]) ELSE duty[u][i]
    BY <1>0, <2>2, <2>3, PruneOne DEF PrunedAs
  <2>5. PICK p \in sweep[s].open \ ToCancel(s) : p[1] = u
    BY <2>1 DEF ToMint, Surviving
  <2>6. <<u, i>> \in sweep[s].open
    BY <1>0, <1>1 DEF DutyInv, SweepFits, OpenKnown, OpenPairs, OpenDuties
  <2>7. p = <<u, i>>
    BY <2>5, <2>6 DEF DutyInv, SweepFits, OpenKnown
  <2> QED
    BY <1>1, <2>4, <2>5, <2>7
<1>4. ASSUME NEW t \in Sweepers, SweepApply(t) \/ SweepIneligible(t)
      PROVE  t = s /\ SweepApply(s)
  <2>1. t = s
    BY <1>4 DEF SweepApply, SweepIneligible, DutyInv
  <2> QED
    BY <1>4, <2>1 DEF SweepIneligible
<1>5. ASSUME NEW w \in Users, NEW j \in DOMAIN duty[w], DecideDocAck(w, j) PROVE FALSE
  BY <1>5 DEF DecideDocAck
<1> QED
  BY <1>2, <1>3, <1>4, <1>5, AckSteps
  DEF DocumentStep, TakesEffect, Withdrawn, SwitchRequired, ChangeAudience, ChangeDefinition,
      SweepList, SweepRead, SweepOpen, SweeperDies

\* Nobody is asked twice, completed obligations and acknowledgement rows correspond, and no
\* sweep takes away an obligation that is met, or owed while the definition is broken:
\* for any number of users, versions, sweeping workers and changes.
THEOREM ObligationsStaySound == AckSpec => ObligationsAreSound
<1>1. AckInit => DutyInv
  BY DutyInvInit
<1>2. DutyInv /\ [AckNext]_ackVars => DutyInv'
  BY DutyInvStep
<1>3. DutyInv => AckTypeOK /\ OneOpenObligation /\ EvidenceMatchesDuties
  BY DutyInvMeans
<1>4. DutyInv /\ [AckNext]_ackVars =>
        [\A u \in Users : \A i \in DOMAIN duty[u] :
           duty[u][i].state = "COMPLETED" => duty'[u][i].state = "COMPLETED"]_ackVars
  BY MetStaysMet
<1>5. DutyInv /\ [AckNext]_ackVars =>
        [\A s \in Sweepers : definition # "ok" /\ sweep[s].pc = "planned" /\ sweep'[s].pc = "idle" =>
           \A u \in sweep[s].audience \ sweep[s].satisfied :
              OpenDuties(u) # {} => \E i \in DOMAIN duty'[u] : IsOpen(duty'[u][i])]_ackVars
  BY OwedSurvives
<1> QED
  BY <1>1, <1>2, <1>3, <1>4, <1>5, PTL
  DEF AckSpec, ObligationsAreSound, MetIsNeverCancelled, OwedSurvivesBrokenDefinition
-----------------------------------------------------------------------------
(***************************************************************************)
(* The timers of a task. That the nth working day is the nth one is shown by  *)
(* ranks: in a finite set of days some day has exactly n of them up to it.    *)
(***************************************************************************)
(* Ranks in bounded sets of integers.                                        *)

LEMMA LeastNatural ==
  ASSUME NEW T, T \subseteq Nat, T # {}
  PROVE  \E x \in T : \A y \in T : x <= y
<1>1. PICK x \in T : \A y \in T : ~ (<<y, x>> \in OpToRel(<, Nat))
  BY WFMin, NatLessThanWellFounded, Zenon
<1>2. SUFFICES ASSUME NEW y \in T, y < x PROVE FALSE
  BY <1>2
<1>3. <<y, x>> \in Nat \X Nat
  OBVIOUS
<1>4. <<y, x>> \in OpToRel(<, Nat)
  BY <1>2, <1>3, Zenon DEF OpToRel
<1> QED
  BY <1>1, <1>4

LEMMA LeastElement ==
  ASSUME NEW a \in Int, NEW S, \A s \in S : s \in Int /\ a <= s, S # {}
  PROVE  \E x \in S : \A y \in S : x <= y
<1> DEFINE T == {k \in Nat : a + k \in S}
<1>1. T # {}
  <2>1. PICK s \in S : TRUE
    OBVIOUS
  <2>2. s - a \in Nat /\ a + (s - a) = s
    BY <2>1
  <2> QED
    BY <2>1, <2>2
<1>2. PICK k \in T : \A j \in T : k <= j
  <2>1. T \subseteq Nat
    OBVIOUS
  <2> HIDE DEF T
  <2> QED
    BY <1>1, <2>1, LeastNatural
<1>3. a + k \in S
  BY <1>2
<1>4. ASSUME NEW y \in S PROVE a + k <= y
  <2>1. y - a \in Nat /\ a + (y - a) = y
    OBVIOUS
  <2>2. y - a \in T
    BY <2>1
  <2> QED
    BY <1>2, <2>2
<1> QED
  BY <1>3, <1>4

LEMMA GreatestElement ==
  ASSUME NEW b \in Int, NEW S, \A s \in S : s \in Int /\ s <= b, S # {}
  PROVE  \E x \in S : \A y \in S : y <= x
<1> DEFINE T == {k \in Nat : b - k \in S}
<1>1. T # {}
  <2>1. PICK s \in S : TRUE
    OBVIOUS
  <2>2. b - s \in Nat /\ b - (b - s) = s
    BY <2>1
  <2> QED
    BY <2>1, <2>2
<1>2. PICK k \in T : \A j \in T : k <= j
  <2>1. T \subseteq Nat
    OBVIOUS
  <2> HIDE DEF T
  <2> QED
    BY <1>1, <2>1, LeastNatural
<1>3. b - k \in S
  BY <1>2
<1>4. ASSUME NEW y \in S PROVE y <= b - k
  <2>1. b - y \in Nat /\ b - (b - y) = y
    OBVIOUS
  <2>2. b - y \in T
    BY <2>1
  <2> QED
    BY <1>2, <2>2
<1> QED
  BY <1>3, <1>4

Below(S, d) == {e \in S : e <= d}
Above(S, d) == {e \in S : e >= d}
HasRankBelow(S, n) == \E d \in S : Cardinality(Below(S, d)) = n
HasRankAbove(S, n) == \E d \in S : Cardinality(Above(S, d)) = n

\* In a bounded set of n or more integers one has rank n, counted from below ...
LEMMA RankFromBelow ==
  ASSUME NEW a \in Int, NEW b \in Int, NEW S, S \subseteq a..b,
         NEW n \in Nat \ {0}, n <= Cardinality(S)
  PROVE  HasRankBelow(S, n)
<1> USE DEF Below, HasRankBelow
<1> DEFINE UpTo(d) == Below(S, d)
           T == {d \in S : n <= Cardinality(UpTo(d))}
<1>1. \A R \in SUBSET S : IsFiniteSet(R) /\ Cardinality(R) \in Nat
  BY FS_Interval, FS_Subset, FS_CardinalityType
<1>2. \A s \in S : s \in Int /\ a <= s /\ s <= b
  OBVIOUS
<1>3. PICK t \in T : \A d \in T : t <= d
  <2>1. S # {}
    BY FS_EmptySet
  <2>2. PICK m \in S : \A y \in S : y <= m
    BY <1>2, <2>1, GreatestElement
  <2>3. UpTo(m) = S
    BY <2>2
  <2>4. T # {}
    BY <2>2, <2>3
  <2>5. \A s \in T : s \in Int /\ a <= s
    BY <1>2
  <2> HIDE DEF T
  <2> QED
    BY <2>4, <2>5, LeastElement
<1>4. t \in S /\ n <= Cardinality(UpTo(t))
  BY <1>3
<1>5. SUFFICES ASSUME ~(Cardinality(UpTo(t)) <= n) PROVE FALSE
  <2>0. SUFFICES ASSUME Cardinality(UpTo(t)) <= n PROVE Cardinality(UpTo(t)) = n
    BY <1>4
  <2>1. UpTo(t) \in SUBSET S
    OBVIOUS
  <2>2. PICK c \in Nat : c = Cardinality(UpTo(t))
    BY <1>1, <2>1
  <2>3. c = n
    BY <1>4, <2>0, <2>2
  <2> QED
    BY <2>2, <2>3
<1>6. Cardinality(UpTo(t) \ {t}) = Cardinality(UpTo(t)) - 1
  <2>1. t \in UpTo(t) /\ UpTo(t) \in SUBSET S
    BY <1>2, <1>4
  <2>2. IsFiniteSet(UpTo(t))
    BY <1>1, <2>1
  <2> HIDE DEF UpTo
  <2> QED
    BY <2>1, <2>2, FS_RemoveElement
<1>7. UpTo(t) \ {t} # {}
  BY <1>1, <1>5, <1>6, FS_EmptySet
<1>8. PICK p \in UpTo(t) \ {t} : \A y \in UpTo(t) \ {t} : y <= p
  <2>1. \A s \in UpTo(t) \ {t} : s \in Int /\ s <= b
    BY <1>2
  <2> QED
    BY <1>7, <2>1, GreatestElement
<1>9. UpTo(p) = UpTo(t) \ {t}
  <2>1. p \in S /\ t \in S /\ p <= t /\ p # t
    BY <1>4, <1>8
  <2>2. ASSUME NEW e \in S PROVE e <= p <=> e <= t /\ e # t
    <3>1. e <= t /\ e # t => e <= p
      BY <1>8
    <3> QED
      BY <1>2, <2>1, <3>1
  <2> QED
    BY <2>2
<1>10. p \in T /\ p < t
  BY <1>1, <1>2, <1>4, <1>5, <1>6, <1>8, <1>9
<1> QED
  BY <1>2, <1>3, <1>4, <1>10

\* ... and one from above.
LEMMA RankFromAbove ==
  ASSUME NEW a \in Int, NEW b \in Int, NEW S, S \subseteq a..b,
         NEW n \in Nat \ {0}, n <= Cardinality(S)
  PROVE  HasRankAbove(S, n)
<1> USE DEF Above, HasRankAbove
<1> DEFINE From(d) == Above(S, d)
           T == {d \in S : n <= Cardinality(From(d))}
<1>1. \A R \in SUBSET S : IsFiniteSet(R) /\ Cardinality(R) \in Nat
  BY FS_Interval, FS_Subset, FS_CardinalityType
<1>2. \A s \in S : s \in Int /\ a <= s /\ s <= b
  OBVIOUS
<1>3. PICK t \in T : \A d \in T : d <= t
  <2>1. S # {}
    BY FS_EmptySet
  <2>2. PICK m \in S : \A y \in S : m <= y
    BY <1>2, <2>1, LeastElement
  <2>3. From(m) = S
    BY <1>2, <2>2
  <2>4. T # {}
    BY <2>2, <2>3
  <2>5. \A s \in T : s \in Int /\ s <= b
    BY <1>2
  <2> HIDE DEF T
  <2> QED
    BY <2>4, <2>5, GreatestElement
<1>4. t \in S /\ n <= Cardinality(From(t))
  BY <1>3
<1>5. SUFFICES ASSUME ~(Cardinality(From(t)) <= n) PROVE FALSE
  <2>0. SUFFICES ASSUME Cardinality(From(t)) <= n PROVE Cardinality(From(t)) = n
    BY <1>4
  <2>1. From(t) \in SUBSET S
    OBVIOUS
  <2>2. PICK c \in Nat : c = Cardinality(From(t))
    BY <1>1, <2>1
  <2>3. c = n
    BY <1>4, <2>0, <2>2
  <2> QED
    BY <2>2, <2>3
<1>6. Cardinality(From(t) \ {t}) = Cardinality(From(t)) - 1
  <2>1. t \in From(t) /\ From(t) \in SUBSET S
    BY <1>2, <1>4
  <2>2. IsFiniteSet(From(t))
    BY <1>1, <2>1
  <2> HIDE DEF From
  <2> QED
    BY <2>1, <2>2, FS_RemoveElement
<1>7. From(t) \ {t} # {}
  BY <1>1, <1>5, <1>6, FS_EmptySet
<1>8. PICK p \in From(t) \ {t} : \A y \in From(t) \ {t} : p <= y
  <2>1. \A s \in From(t) \ {t} : s \in Int /\ a <= s
    BY <1>2
  <2> QED
    BY <1>7, <2>1, LeastElement
<1>9. From(p) = From(t) \ {t}
  <2>1. p \in S /\ t \in S /\ p >= t /\ p # t
    BY <1>4, <1>8
  <2>2. ASSUME NEW e \in S PROVE e >= p <=> e >= t /\ e # t
    <3>1. e >= t /\ e # t => e >= p
      BY <1>8
    <3> QED
      BY <1>2, <2>1, <3>1
  <2> QED
    BY <2>2
<1>10. p \in T /\ t < p
  BY <1>1, <1>2, <1>4, <1>5, <1>6, <1>8, <1>9
<1> QED
  BY <1>2, <1>3, <1>4, <1>10

-----------------------------------------------------------------------------
(* Days and instants.                                                        *)

LEMMA DivMod ==
  ASSUME NEW P \in Nat \ {0}, NEW x \in Int
  PROVE  \E q \in Int, r \in 0..(P - 1) : q = x \div P /\ r = x % P /\ x = q * P + r
<1>1. PICK q \in Int : q = x \div P
  OBVIOUS
<1>2. PICK r \in 0..(P - 1) : r = x % P
  OBVIOUS
<1>3. x = q * P + r
  BY <1>1, <1>2, SMTT(20)
<1> QED
  BY <1>1, <1>2, <1>3

LEMMA DivUnique ==
  ASSUME NEW P \in Nat \ {0}, NEW q \in Int, NEW r \in 0..(P - 1)
  PROVE  (q * P + r) \div P = q /\ (q * P + r) % P = r
<1>1. (q * P + r) \div P = q
  OBVIOUS
<1>2. (q * P + r) % P = r
  OBVIOUS
<1> QED
  BY <1>1, <1>2

LEMMA DivMonotone ==
  ASSUME NEW P \in Nat \ {0}, NEW x \in Int, NEW y \in Int, x <= y
  PROVE  x \div P <= y \div P
  OBVIOUS

LEMMA DivBack ==
  ASSUME NEW P \in Nat \ {0}, NEW x \in Int, NEW r \in 0..(P - 1)
  PROVE  (x - r) \div P >= (x \div P) - 1
  OBVIOUS

\* Every weekday comes within a week.
LEMMA WeekdayComes ==
  ASSUME NEW d \in Int, NEW k \in 0..(WeekLength - 1)
  PROVE  \E e \in d..(d + WeekLength) : e % WeekLength = k
<1>1. PICK q \in Int, r \in 0..(WeekLength - 1) : d = q * WeekLength + r
  BY DivMod, TimersAssumption
<1>2. CASE k >= r
  <2>1. q * WeekLength + k \in d..(d + WeekLength)
    BY <1>1, <1>2, TimersAssumption
  <2> QED
    BY <1>1, <2>1, DivUnique, TimersAssumption
<1>3. CASE k < r
  <2>1. (q + 1) * WeekLength + k \in d..(d + WeekLength)
    BY <1>1, <1>3, TimersAssumption
  <2>2. q + 1 \in Int
    BY <1>1
  <2> QED
    BY <2>1, <2>2, DivUnique, TimersAssumption
<1> QED
  BY <1>1, <1>2, <1>3

LEMMA DayTypes ==
  ASSUME NEW t \in Int
  PROVE  \E d \in Int, p \in 0..(Parts - 1) :
           d = DayOf(t) /\ p = TimeOfDay(t) /\ t = Instant(d, p)
<1>1. t + Zone \in Int
  BY TimersAssumption
<1>2. PICK d \in Int, p \in 0..(Parts - 1) :
        d = DayOf(t) /\ p = TimeOfDay(t) /\ t + Zone = d * Parts + p
  BY <1>1, DivMod, TimersAssumption DEF DayOf, TimeOfDay
<1>3. t = d * Parts + p - Zone
  <2>1. PICK m \in Int : m = d * Parts
    BY TimersAssumption
  <2>2. t + Zone = m + p
    BY <1>2, <2>1
  <2>3. t = m + p - Zone
    BY <2>2, TimersAssumption
  <2> QED
    BY <2>1, <2>3
<1> QED
  BY <1>2, <1>3 DEF Instant

LEMMA InstantFacts ==
  ASSUME NEW d \in Int, NEW p \in 0..(Parts - 1)
  PROVE  Instant(d, p) \in Int /\ DayOf(Instant(d, p)) = d
<1>1. d * Parts + p \in Int /\ Instant(d, p) + Zone = d * Parts + p
  BY TimersAssumption DEF Instant
<1>2. Instant(d, p) \in Int
  BY TimersAssumption DEF Instant
<1> QED
  BY <1>1, <1>2, DivUnique, TimersAssumption DEF DayOf

-----------------------------------------------------------------------------
(* The search for the nth working day.                                       *)

LEMMA WorkingDaysAreFinite ==
  ASSUME NEW a \in Int, NEW b \in Int, NEW R \in SUBSET (a..b)
  PROVE  IsFiniteSet(R) /\ Cardinality(R) \in Nat
<1>1. IsFiniteSet(a..b)
  BY FS_Interval
<1> QED
  BY <1>1, FS_Subset, FS_CardinalityType

\* At and after the nth working day after the anchor there have been n of them.
LEMMA NthAfter ==
  ASSUME NEW anchor \in Int, NEW n \in Nat
  PROVE  \E D \in Int :
           /\ D = ShiftBusinessDays(anchor, n, 1)
           /\ D # Nowhere => \A today \in Int :
                D <= today => Cardinality(WorkingDays((anchor + 1)..today)) >= n
<1> DEFINE found == WorkingDays((anchor + 1)..(anchor + n * WeekLength + Slack))
<1>1. PICK last \in Int : last = anchor + n * WeekLength + Slack
  BY TimersAssumption
<1>2. found \in SUBSET ((anchor + 1)..last)
  BY <1>1 DEF WorkingDays
<1>0. anchor + 1 \in Int
  OBVIOUS
<1>3. IsFiniteSet(found) /\ Cardinality(found) \in Nat
  <2> HIDE DEF found
  <2> QED
    BY <1>0, <1>1, <1>2, WorkingDaysAreFinite
<1>4. Nowhere \in Int
  BY TimersAssumption DEF Nowhere
<1>5. CASE n = 0
  <2>1. ShiftBusinessDays(anchor, n, 1) = anchor
    BY <1>5 DEF ShiftBusinessDays, Nth
  <2>2. ASSUME NEW today \in Int PROVE Cardinality(WorkingDays((anchor + 1)..today)) >= 0
    <3>1. WorkingDays((anchor + 1)..today) \in SUBSET ((anchor + 1)..today)
      BY DEF WorkingDays
    <3>2. Cardinality(WorkingDays((anchor + 1)..today)) \in Nat
      BY <1>0, <3>1, WorkingDaysAreFinite
    <3> QED
      BY <3>2
  <2> QED
    BY <1>5, <2>1, <2>2
<1>6. CASE n # 0 /\ Cardinality(found) < n
  <2>1. ShiftBusinessDays(anchor, n, 1) = Nowhere
    BY <1>6 DEF ShiftBusinessDays, Nth, Visited
  <2> QED
    BY <1>4, <2>1
<1>7. CASE n # 0 /\ ~(Cardinality(found) < n)
  <2> DEFINE D == CHOOSE d \in found : Cardinality(Below(found, d)) = n
  <2>1. ShiftBusinessDays(anchor, n, 1) = D
    BY <1>7 DEF ShiftBusinessDays, Nth, Visited, Below
  <2>2. \E d \in found : Cardinality(Below(found, d)) = n
    <3>1. n <= Cardinality(found) /\ n \in Nat \ {0} /\ anchor + 1 \in Int
      BY <1>3, <1>7
    <3> HIDE DEF found
    <3>2. PICK a \in Int : a = anchor + 1
      BY <3>1
    <3>3. PICK F : F = found /\ F \subseteq a..last
      BY <1>2, <3>2
    <3>4. n \in Nat \ {0} /\ n <= Cardinality(F)
      BY <3>1, <3>3
    <3>5. HasRankBelow(F, n)
      BY <3>3, <3>4, RankFromBelow
    <3> QED
      BY <3>3, <3>5 DEF HasRankBelow
  <2> HIDE DEF found
  <2>3. D \in found /\ Cardinality(Below(found, D)) = n
    BY <2>2
  <2> HIDE DEF D
  <2>4. D \in Int
    BY <1>1, <1>2, <2>3
  <2>5. ASSUME NEW today \in Int, D <= today
        PROVE  Cardinality(WorkingDays((anchor + 1)..today)) >= n
    <3> DEFINE R == WorkingDays((anchor + 1)..today)
               T == Below(found, D)
    <3>1. T \in SUBSET R
      BY <1>1, <2>4, <2>5 DEF found, WorkingDays, Below
    <3>2. R \in SUBSET ((anchor + 1)..today)
      BY DEF WorkingDays
    <3> HIDE DEF R, T
    <3>3. IsFiniteSet(R) /\ Cardinality(R) \in Nat
      BY <1>0, <3>2, WorkingDaysAreFinite
    <3>4. Cardinality(T) <= Cardinality(R)
      BY <3>1, <3>3, FS_Subset
    <3>5. Cardinality(T) = n
      BY <2>3 DEF T
    <3> QED
      BY <3>3, <3>4, <3>5 DEF R
  <2> QED
    BY <2>1, <2>4, <2>5
<1> QED
  BY <1>3, <1>5, <1>6, <1>7

\* From the nth working day before the anchor on, no more than n of them are left.
LEMMA NthBefore ==
  ASSUME NEW anchor \in Int, NEW n \in Nat
  PROVE  \E D \in Int :
           /\ D = ShiftBusinessDays(anchor, n, -1)
           /\ D # Nowhere => \A today \in Int :
                /\ D <= today => Cardinality(WorkingDays(today..(anchor - 1))) <= n
                /\ D - 1 <= today => Cardinality(WorkingDays(today..(anchor - 1))) <= n + 1
<1> DEFINE found == WorkingDays((anchor - n * WeekLength - Slack)..(anchor - 1))
           Left(d) == WorkingDays(d..(anchor - 1))
<1>1. PICK first \in Int : first = anchor - n * WeekLength - Slack
  BY TimersAssumption
<1>2. found \in SUBSET (first..(anchor - 1))
  BY <1>1 DEF WorkingDays
<1>3. IsFiniteSet(found) /\ Cardinality(found) \in Nat
  <2>1. anchor - 1 \in Int
    OBVIOUS
  <2> HIDE DEF found
  <2> QED
    BY <1>1, <1>2, <2>1, WorkingDaysAreFinite
<1>4. Nowhere \in Int
  BY TimersAssumption DEF Nowhere
<1>5. \A d \in Int : IsFiniteSet(Left(d)) /\ Cardinality(Left(d)) \in Nat
  <2>1. ASSUME NEW d \in Int PROVE Left(d) \in SUBSET (d..(anchor - 1)) /\ anchor - 1 \in Int
    BY DEF WorkingDays
  <2> HIDE DEF Left
  <2> QED
    BY <2>1, WorkingDaysAreFinite
\* One day more is one working day more at most.
<1>6. ASSUME NEW D \in Int, Cardinality(Left(D)) <= n, NEW today \in Int
      PROVE  /\ D <= today => Cardinality(Left(today)) <= n
             /\ D - 1 <= today => Cardinality(Left(today)) <= n + 1
  <2>1. ASSUME D <= today PROVE Cardinality(Left(today)) <= n
    <3>1. Left(today) \in SUBSET Left(D)
      BY <2>1 DEF WorkingDays
    <3> HIDE DEF Left
    <3>2. Cardinality(Left(today)) <= Cardinality(Left(D))
      BY <1>5, <3>1, FS_Subset
    <3> QED
      BY <1>5, <1>6, <3>2
  <2>2. ASSUME today = D - 1 PROVE Cardinality(Left(today)) <= n + 1
    <3>1. Left(today) \in SUBSET (Left(D) \cup {today})
      BY <2>2 DEF WorkingDays
    <3> HIDE DEF Left
    <3>2. /\ IsFiniteSet(Left(D) \cup {today})
          /\ Cardinality(Left(D) \cup {today}) <= Cardinality(Left(D)) + 1
      <4>1. IsFiniteSet(Left(D)) /\ Cardinality(Left(D)) \in Nat
        BY <1>5
      <4> QED
        BY <4>1, FS_AddElement
    <3>4. Cardinality(Left(D) \cup {today}) \in Nat
      BY <3>2, FS_CardinalityType
    <3>3. Cardinality(Left(today)) <= Cardinality(Left(D) \cup {today})
      BY <3>1, <3>2, FS_Subset
    <3> QED
      BY <1>5, <1>6, <3>2, <3>3, <3>4
  <2>3. D - 1 <= today => today = D - 1 \/ D <= today
    OBVIOUS
  <2>4. Cardinality(Left(today)) \in Nat
    BY <1>5
  <2> HIDE DEF Left
  <2> QED
    BY <2>1, <2>2, <2>3, <2>4
<1>7. CASE n = 0
  <2>1. ShiftBusinessDays(anchor, n, -1) = anchor
    BY <1>7 DEF ShiftBusinessDays, Nth
  <2>2. Left(anchor) = {}
    BY DEF WorkingDays
  <2>3. Cardinality(Left(anchor)) <= n
    BY <1>7, <2>2, FS_EmptySet
  <2> QED
    BY <1>6, <2>1, <2>3
<1>8. CASE n # 0 /\ Cardinality(found) < n
  <2>1. ShiftBusinessDays(anchor, n, -1) = Nowhere
    BY <1>8 DEF ShiftBusinessDays, Nth, Visited
  <2> QED
    BY <1>4, <2>1
<1>9. CASE n # 0 /\ ~(Cardinality(found) < n)
  <2> DEFINE D == CHOOSE d \in found : Cardinality(Above(found, d)) = n
  <2>1. ShiftBusinessDays(anchor, n, -1) = D
    BY <1>9 DEF ShiftBusinessDays, Nth, Visited, Above
  <2>2. \E d \in found : Cardinality(Above(found, d)) = n
    <3>1. n <= Cardinality(found) /\ n \in Nat \ {0} /\ anchor - 1 \in Int
      BY <1>3, <1>9
    <3> HIDE DEF found
    <3>2. PICK a \in Int : a = anchor - 1
      BY <3>1
    <3>3. PICK F : F = found /\ F \subseteq first..a
      BY <1>2, <3>2
    <3>4. n \in Nat \ {0} /\ n <= Cardinality(F)
      BY <3>1, <3>3
    <3>5. HasRankAbove(F, n)
      BY <3>3, <3>4, RankFromAbove
    <3> QED
      BY <3>3, <3>5 DEF HasRankAbove
  <2> HIDE DEF found
  <2>3. D \in found /\ Cardinality(Above(found, D)) = n
    BY <2>2
  <2> HIDE DEF D
  <2>4. D \in Int /\ first <= D
    BY <1>1, <1>2, <2>3
  <2>5. Left(D) = Above(found, D)
    BY <1>1, <2>4 DEF found, WorkingDays, Above
  <2>6. Cardinality(Left(D)) <= n
    BY <2>3, <2>5
  <2> QED
    BY <1>6, <2>1, <2>4, <2>6
<1> QED
  BY <1>3, <1>7, <1>8, <1>9

-----------------------------------------------------------------------------
(* When a step is due.                                                       *)

LEMMA StepOffsets ==
  ASSUME NEW s \in TimerSteps, NEW day \in Int, NEW p \in 0..(Parts - 1)
  PROVE  /\ Offsets[s].days \in Nat /\ Offsets[s].rest \in 0..(Parts - 1)
         /\ Instant(Nowhere, p) > Horizon + Offsets[s].rest
         /\ Instant(Nowhere, p) \in Int /\ Instant(day, p) \in Int
<1>1. Offsets[s].days \in Nat /\ Offsets[s].rest \in 0..(Parts - 1)
  BY OffsetsAssumption
<1>2. PICK m \in Int : m = Nowhere * Parts
  BY TimersAssumption DEF Nowhere
<1>3. Horizon + Parts < m + 0 - Zone
  BY <1>2, OffsetsAssumption DEF Instant
<1>4. m + p - Zone > Horizon + Offsets[s].rest
  BY <1>1, <1>3, TimersAssumption
<1>5. Instant(Nowhere, p) = m + p - Zone
  BY <1>2 DEF Instant
<1>6. Instant(day, p) \in Int
  BY InstantFacts
<1>7. m + p - Zone \in Int
  BY TimersAssumption
<1> QED
  BY <1>1, <1>4, <1>5, <1>6, <1>7

\* A sweep that finds an escalation due has the escalation's working days behind it.
LEMMA EscalationIsLate ==
  ASSUME due \in Int, NEW t \in 0..Horizon, NEW s \in Escalations, s \in DueSteps(t)
  PROVE  Cardinality(WorkingDays((DayOf(due) + 1)..DayOf(t))) >= Offsets[s].days
<1>1. s \in TimerSteps /\ s # "overdue" /\ Direction(s) = 1
  BY DEF Escalations, TimerSteps, Direction, Before
<1>2. PICK anchor \in Int, p \in 0..(Parts - 1) : anchor = DayOf(due) /\ p = TimeOfDay(due)
  BY DayTypes
<1>3. PICK D \in Int :
        /\ D = ShiftBusinessDays(anchor, Offsets[s].days, 1)
        /\ D # Nowhere => \A today \in Int :
             D <= today => Cardinality(WorkingDays((anchor + 1)..today)) >= Offsets[s].days
  BY <1>1, OffsetsAssumption, NthAfter
<1>4. Offsets[s].rest \in Nat /\ Instant(D, p) \in Int
  <2>1. Offsets[s].rest \in 0..(Parts - 1) /\ Instant(D, p) \in Int
    BY <1>1, StepOffsets
  <2> QED
    BY <2>1, TimersAssumption
<1>5. t >= Instant(D, p) + 1 * Offsets[s].rest
  BY <1>1, <1>2, <1>3 DEF DueSteps, Threshold
<1>6. t \in Int /\ t >= Instant(D, p)
  BY <1>4, <1>5, TimersAssumption
<1>7. D # Nowhere
  <2>1. PICK b \in Int : b = Instant(D, p)
    BY <1>4
  <2>2. D = Nowhere => b > Horizon
    <3>1. Offsets[s].rest >= 0
      BY <1>4
    <3>2. D = Nowhere => b > Horizon + Offsets[s].rest
      BY <1>1, <2>1, StepOffsets
    <3> QED
      BY <1>4, <3>1, <3>2, TimersAssumption
  <2>3. t >= b /\ t <= Horizon
    BY <1>6, <2>1, TimersAssumption
  <2> QED
    BY <1>6, <2>1, <2>2, <2>3, TimersAssumption
<1>8. PICK today \in Int : today = DayOf(t)
  BY <1>6, DayTypes
<1>9. D <= today
  <2>1. Instant(D, p) + Zone <= t + Zone /\ t + Zone \in Int /\ Instant(D, p) + Zone \in Int
    BY <1>4, <1>6, TimersAssumption
  <2>2. DayOf(Instant(D, p)) <= DayOf(t)
    BY <2>1, DivMonotone, TimersAssumption DEF DayOf
  <2> QED
    BY <1>8, <2>2, InstantFacts
<1> QED
  BY <1>2, <1>3, <1>7, <1>8, <1>9

\* A sweep that finds a reminder due has no more than the reminder's working days before it.
LEMMA ReminderIsNotEarly ==
  ASSUME due \in Int, NEW t \in 0..Horizon, NEW s \in Before, s \in DueSteps(t)
  PROVE  Cardinality(WorkingDays(DayOf(t)..(DayOf(due) - 1)))
           <= Offsets[s].days + (IF Offsets[s].rest > 0 THEN 1 ELSE 0)
<1>1. s \in TimerSteps /\ s # "overdue" /\ Direction(s) = -1
  BY DEF TimerSteps, Direction, Before
<1>2. PICK anchor \in Int, p \in 0..(Parts - 1) : anchor = DayOf(due) /\ p = TimeOfDay(due)
  BY DayTypes
<1>3. PICK D \in Int :
        /\ D = ShiftBusinessDays(anchor, Offsets[s].days, -1)
        /\ D # Nowhere => \A today \in Int :
             /\ D <= today => Cardinality(WorkingDays(today..(anchor - 1))) <= Offsets[s].days
             /\ D - 1 <= today =>
                  Cardinality(WorkingDays(today..(anchor - 1))) <= Offsets[s].days + 1
  BY <1>1, OffsetsAssumption, NthBefore
<1>4. PICK r \in 0..(Parts - 1), b \in Int : r = Offsets[s].rest /\ b = Instant(D, p)
  BY <1>1, StepOffsets
<1>5. t >= b + (-1) * r
  BY <1>1, <1>2, <1>3, <1>4 DEF DueSteps, Threshold
<1>6. t \in Int /\ t >= b - r /\ b - r \in Int
  BY <1>5, TimersAssumption
<1>7. D # Nowhere
  <2>1. D = Nowhere => b > Horizon + r
    BY <1>1, <1>4, StepOffsets
  <2> QED
    BY <1>6, <2>1, TimersAssumption
<1>8. PICK today \in Int : today = DayOf(t)
  BY <1>6, DayTypes
<1>9. (b + Zone) \div Parts = D
  BY <1>4, InstantFacts DEF DayOf
<1>10. b + Zone \in Int /\ t + Zone \in Int /\ (b + Zone) - r <= t + Zone /\ (b + Zone) - r \in Int
  BY <1>6, TimersAssumption
<1>11. ((b + Zone) - r) \div Parts <= today
  BY <1>8, <1>10, DivMonotone, TimersAssumption DEF DayOf
<1>12. D - 1 <= today
  <2>1. ((b + Zone) - r) \div Parts >= ((b + Zone) \div Parts) - 1
    BY <1>10, DivBack, TimersAssumption
  <2>2. PICK q \in Int : q = ((b + Zone) - r) \div Parts
    BY <1>10, TimersAssumption
  <2> QED
    BY <1>9, <1>11, <2>1, <2>2
<1>13. r = 0 => D <= today
  BY <1>9, <1>10, <1>11
<1>14. Cardinality(WorkingDays(today..(anchor - 1)))
         <= Offsets[s].days + (IF r > 0 THEN 1 ELSE 0)
  <2>1. CASE r = 0
    BY <1>3, <1>7, <1>13, <2>1, OffsetsAssumption, <1>1
  <2>2. CASE r > 0
    BY <1>3, <1>7, <1>12, <2>2
  <2> QED
    BY <2>1, <2>2
<1> QED
  BY <1>2, <1>4, <1>8, <1>14

-----------------------------------------------------------------------------
(* The inductive invariant: a step of which somebody was told is stamped.    *)

NoticeInv ==
  /\ TimersTypeOK /\ due \in Int
  /\ StampedWasTold /\ EscalationAuditedOnce
  /\ \A s \in TimerSteps : (\E p \in People : <<p, s>> \in told) => s \in stamped

LEMMA DueIsOnAWorkingDay ==
  ASSUME TimersInit
  PROVE  due \in Int /\ DayOf(due) % WeekLength \in WorkWeek
<1> DEFINE later == WorkingDays(DayOf(Sla)..(DayOf(Sla) + WeekLength + Slack))
<1>0. holidays = {} /\ due = SnapToWorkingDay(Sla) /\ Sla \in Int
  BY TimersAssumption DEF TimersInit
<1>1. PICK day \in Int, p \in 0..(Parts - 1) : day = DayOf(Sla) /\ p = TimeOfDay(Sla)
  BY <1>0, DayTypes
<1>2. PICK k \in WorkWeek : k \in 0..(WeekLength - 1)
  BY TimersAssumption
<1>3. PICK e \in day..(day + WeekLength) : e % WeekLength = k
  BY <1>2, WeekdayComes
<1>4. e \in later
  BY <1>0, <1>1, <1>2, <1>3, TimersAssumption DEF WorkingDays, IsWorkingDay
<1>5. CASE IsWorkingDay(DayOf(Sla))
  BY <1>0, <1>5 DEF SnapToWorkingDay, IsWorkingDay
<1>6. CASE ~IsWorkingDay(DayOf(Sla))
  <2>1. \A d \in later : d \in Int /\ day <= d /\ d % WeekLength \in WorkWeek
    BY <1>1, TimersAssumption DEF WorkingDays, IsWorkingDay
  <2>2. due = Instant(CHOOSE d \in later : \A f \in later : d <= f, p)
    BY <1>0, <1>1, <1>4, <1>6 DEF SnapToWorkingDay
  <2> HIDE DEF later
  <2>3. PICK d \in later : d = CHOOSE c \in later : \A f \in later : c <= f
    <3>1. \E c \in later : \A f \in later : c <= f
      BY <1>4, <2>1, LeastElement
    <3> QED
      BY <3>1
  <2> QED
    BY <2>1, <2>2, <2>3, InstantFacts
<1> QED
  BY <1>5, <1>6

LEMMA InitNotices == TimersInit => NoticeInv
<1> SUFFICES ASSUME TimersInit PROVE NoticeInv
  OBVIOUS
<1>1. due \in Int /\ DayOf(due) % WeekLength \in WorkWeek
  BY DueIsOnAWorkingDay
<1>2. TimersTypeOK
  BY <1>1, TimersAssumption DEF TimersInit, TimersTypeOK
<1>3. StampedWasTold /\ EscalationAuditedOnce
  BY DEF TimersInit, StampedWasTold, EscalationAuditedOnce
<1> QED
  BY <1>1, <1>2, <1>3 DEF NoticeInv, TimersInit

LEMMA RecipientsArePeople ==
  ASSUME NEW s
  PROVE  Recipients(s) \subseteq People
BY DEF Recipients, People

\* What a sweep writes in its transaction.
LEMMA SweepWrites ==
  ASSUME NoticeInv, NEW w \in Sweeps, ProcessTaskTimers(w)
  PROVE  /\ NoticeInv'
         /\ \A s \in TimerSteps : New(s) # {} => s \in DueSteps(sweepAt[w])
<1> DEFINE fired == DueSteps(sweepAt[w])
<1>1. /\ told' = told \cup UNION {Created(s) : s \in fired}
      /\ stamped' = stamped \cup {s \in fired : ShouldStamp(s)}
      /\ idle' = idle \cup {s \in fired : Recipients(s) = {}}
      /\ audits' = [e \in Escalations |-> audits[e] + IF e \in fired /\ Recorded(e) THEN 1 ELSE 0]
      /\ sweepAt' = [sweepAt EXCEPT ![w] = -1]
      /\ UNCHANGED <<now, holidays, open, due, template, active, edits>>
  BY DEF ProcessTaskTimers
<1>2. fired \subseteq TimerSteps \ stamped
  BY DEF DueSteps
<1> HIDE DEF fired
<1>3. \A p, s : <<p, s>> \in told' <=> <<p, s>> \in told \/ (s \in fired /\ <<p, s>> \in Created(s))
  <2>1. \A s \in fired : \A c \in Created(s) : c[2] = s
    BY DEF Created
  <2>2. \A p, s, r : r \in fired /\ <<p, s>> \in Created(r) => r = s
    BY <2>1
  <2> QED
    BY <1>1, <2>2
<1>4. \A s \in fired : \A p \in People :
        <<p, s>> \notin told /\ (<<p, s>> \in Created(s) <=> s \in template /\ p \in Recipients(s))
  <2>1. \A s \in fired : \A p \in People : <<p, s>> \notin told
    BY <1>2 DEF NoticeInv
  <2> QED
    BY <2>1 DEF Created
<1>5. \A s \in fired : Created(s) \subseteq People \X {s}
  BY RecipientsArePeople DEF Created
<1>6. \A s \in fired : ShouldStamp(s) <=> (s \in template /\ \E p \in People : p \in Recipients(s))
                                          \/ Recipients(s) = {}
  BY RecipientsArePeople DEF ShouldStamp, RowExists
<1>7. told' \subseteq People \X TimerSteps
  <2>1. \A s \in fired : Created(s) \subseteq People \X TimerSteps
    BY <1>2, <1>5
  <2> QED
    BY <1>1, <2>1 DEF NoticeInv, TimersTypeOK
<1>8. TimersTypeOK' /\ due' \in Int
  <2>1. stamped' \subseteq TimerSteps
    BY <1>1, <1>2 DEF NoticeInv, TimersTypeOK
  <2>2. idle' \subseteq stamped'
    BY <1>1, <1>6 DEF NoticeInv, TimersTypeOK
  <2>3. sweepAt' \in [Sweeps -> -1..Horizon]
    <3>1. -1 \in -1..Horizon
      BY TimersAssumption
    <3> QED
      BY <1>1, <3>1 DEF NoticeInv, TimersTypeOK
  <2>4. DayOf(due)' = DayOf(due)
    BY <1>1 DEF DayOf
  <2> QED
    BY <1>1, <1>7, <2>1, <2>2, <2>3, <2>4 DEF NoticeInv, TimersTypeOK
<1>9. StampedWasTold'
  <2>1. ASSUME NEW s \in stamped' PROVE s \in idle' \/ \E p \in People : <<p, s>> \in told'
    <3>1. CASE s \in stamped
      BY <1>1, <3>1 DEF NoticeInv, StampedWasTold
    <3>2. CASE s \in fired /\ ShouldStamp(s)
      BY <1>1, <1>3, <1>4, <1>6, <3>2
    <3> QED
      BY <1>1, <2>1, <3>1, <3>2
  <2> QED
    BY <2>1 DEF StampedWasTold
<1>10. ASSUME NEW s \in TimerSteps, NEW p \in People, <<p, s>> \in told'
       PROVE  s \in stamped'
  <2>1. CASE <<p, s>> \in told
    BY <1>1, <2>1 DEF NoticeInv
  <2>2. CASE s \in fired /\ <<p, s>> \in Created(s)
    BY <1>1, <1>4, <1>6, <2>2
  <2> QED
    BY <1>3, <1>10, <2>1, <2>2
<1>11. EscalationAuditedOnce'
  <2>1. ASSUME NEW e \in Escalations
        PROVE  audits'[e] = IF \E p \in People : <<p, e>> \in told' THEN 1 ELSE 0
    <3>1. audits'[e] = audits[e] + IF e \in fired /\ Recorded(e) THEN 1 ELSE 0
      BY <1>1
    <3>2. audits[e] = IF \E p \in People : <<p, e>> \in told THEN 1 ELSE 0
      BY DEF NoticeInv, EscalationAuditedOnce
    <3>3. CASE e \in fired /\ Recorded(e)
      <4>1. \E p \in People : <<p, e>> \in Created(e)
        BY <1>5, <3>3 DEF Recorded
      <4>2. \E p \in People : <<p, e>> \in told'
        BY <1>3, <3>3, <4>1
      <4>3. ~ \E p \in People : <<p, e>> \in told
        BY <1>4, <3>3
      <4> QED
        BY <3>1, <3>2, <3>3, <4>2, <4>3
    <3>4. CASE ~(e \in fired /\ Recorded(e))
      <4>1. \A p \in People : <<p, e>> \in told' <=> <<p, e>> \in told
        BY <1>3, <3>4 DEF Recorded
      <4> QED
        BY <3>1, <3>2, <3>4, <4>1
    <3> QED
      BY <3>3, <3>4
  <2> QED
    BY <2>1 DEF EscalationAuditedOnce
<1>12. NoticeInv'
  BY <1>8, <1>9, <1>10, <1>11 DEF NoticeInv
<1>13. ASSUME NEW s \in TimerSteps, New(s) # {} PROVE s \in DueSteps(sweepAt[w])
  BY <1>3, <1>13 DEF New, fired
<1> QED
  BY <1>12, <1>13

LEMMA NextNotices ==
  ASSUME NoticeInv, [TimersNext]_timerVars
  PROVE  NoticeInv'
<1>1. CASE \E w \in Sweeps : ProcessTaskTimers(w)
  BY <1>1, SweepWrites
<1>2. CASE \E w \in Sweeps : StartSweep(w) \/ SweepSkips(w)
  <2>1. PICK w \in Sweeps : StartSweep(w) \/ SweepSkips(w)
    BY <1>2
  <2>2. UNCHANGED <<now, holidays, taskVars, template, active, edits>>
    BY <2>1 DEF StartSweep, SweepSkips
  <2>3. sweepAt' \in [Sweeps -> -1..Horizon]
    <3>1. -1 \in -1..Horizon /\ now \in -1..Horizon
      BY TimersAssumption DEF NoticeInv, TimersTypeOK
    <3> QED
      BY <2>1, <3>1 DEF StartSweep, SweepSkips, NoticeInv, TimersTypeOK
  <2> QED
    BY <2>2, <2>3 DEF taskVars, NoticeInv, TimersTypeOK, StampedWasTold, EscalationAuditedOnce, DayOf
<1>3. CASE TimePassing
  <2>1. now' \in 0..Horizon
    BY <1>3, TimersAssumption DEF TimePassing, NoticeInv, TimersTypeOK
  <2>2. UNCHANGED <<holidays, taskVars, template, active, sweepAt, edits>>
    BY <1>3 DEF TimePassing
  <2> QED
    BY <2>1, <2>2 DEF taskVars, NoticeInv, TimersTypeOK, StampedWasTold, EscalationAuditedOnce, DayOf
<1>4. CASE CloseTask
  BY <1>4 DEF CloseTask, NoticeInv, TimersTypeOK, StampedWasTold, EscalationAuditedOnce, DayOf
<1>5. ASSUME Edit, template' \subseteq TimerSteps, active' \subseteq People PROVE NoticeInv'
  <2>1. edits' \in 0..MaxEdits
    BY <1>5, TimersAssumption DEF Edit, NoticeInv, TimersTypeOK
  <2>2. UNCHANGED <<now, taskVars, sweepAt>>
    BY <1>5 DEF Edit
  <2> QED
    BY <1>5, <2>1, <2>2
    DEF taskVars, NoticeInv, TimersTypeOK, StampedWasTold, EscalationAuditedOnce, DayOf
<1>6. ASSUME NEW d, EditHolidays(d) PROVE NoticeInv'
  BY <1>5, <1>6 DEF EditHolidays, NoticeInv, TimersTypeOK
<1>7. ASSUME NEW s \in TimerSteps, EditTemplate(s) PROVE NoticeInv'
  BY <1>5, <1>7 DEF EditTemplate, NoticeInv, TimersTypeOK
<1>8. ASSUME NEW p \in People, EditPerson(p) PROVE NoticeInv'
  BY <1>5, <1>8 DEF EditPerson, NoticeInv, TimersTypeOK
<1>9. CASE UNCHANGED timerVars
  BY <1>9 DEF timerVars, taskVars, NoticeInv, TimersTypeOK, StampedWasTold, EscalationAuditedOnce, DayOf
<1> QED
  BY <1>1, <1>2, <1>3, <1>4, <1>6, <1>7, <1>8, <1>9 DEF TimersNext

\* A row that is new was written by the sweep whose time is cleared.
LEMMA NoticeIsTimely ==
  ASSUME NoticeInv, [TimersNext]_timerVars, NEW w \in Sweeps, NEW s \in TimerSteps,
         sweepAt[w] # -1, sweepAt'[w] = -1, New(s) # {}
  PROVE  s \in DueSteps(sweepAt[w])
<1>1. told' # told
  BY DEF New
<1>2. PICK v \in Sweeps : ProcessTaskTimers(v)
  BY <1>1 DEF TimersNext, StartSweep, SweepSkips, TimePassing, CloseTask, EditHolidays, EditTemplate,
              EditPerson, Edit, taskVars, timerVars
<1>3. v = w
  BY <1>2 DEF ProcessTaskTimers, NoticeInv, TimersTypeOK
<1> QED
  BY <1>2, <1>3, SweepWrites

\* Whatever is edited between two sweeps and however sweeps overlap, die or are skipped: no
\* notice is early or on a day off, none is lost, and an escalation is recorded once, for any
\* calendar, offsets and number of sweeps.
THEOREM NoticesStaySound == TimersSpec => NoticesAreSound
<1>1. NoticeInv /\ [TimersNext]_timerVars => NoticeInv'
  BY NextNotices
<1>2. NoticeInv /\ [TimersNext]_timerVars =>
        [\A w \in Sweeps, s \in TimerSteps :
           sweepAt[w] # -1 /\ sweepAt'[w] = -1 /\ New(s) # {} =>
             LET today == DayOf(sweepAt[w])
             IN  /\ IsWorkingDay(today)
                 /\ s \in Escalations =>
                      Cardinality(WorkingDays((DayOf(due) + 1)..today)) >= Offsets[s].days
                 /\ s \in Before =>
                      Cardinality(WorkingDays(today..(DayOf(due) - 1))) <= Offsets[s].days
                                            + (IF Offsets[s].rest > 0 THEN 1 ELSE 0)]_timerVars
  <2>1. ASSUME NoticeInv, [TimersNext]_timerVars, NEW w \in Sweeps, NEW s \in TimerSteps,
               sweepAt[w] # -1, sweepAt'[w] = -1, New(s) # {}
        PROVE  /\ IsWorkingDay(DayOf(sweepAt[w]))
               /\ s \in Escalations =>
                    Cardinality(WorkingDays((DayOf(due) + 1)..DayOf(sweepAt[w]))) >= Offsets[s].days
               /\ s \in Before =>
                    Cardinality(WorkingDays(DayOf(sweepAt[w])..(DayOf(due) - 1)))
                      <= Offsets[s].days + (IF Offsets[s].rest > 0 THEN 1 ELSE 0)
    <3>1. s \in DueSteps(sweepAt[w])
      BY <2>1, NoticeIsTimely
    <3>2. sweepAt[w] \in 0..Horizon /\ due \in Int
      BY <2>1, TimersAssumption DEF NoticeInv, TimersTypeOK
    <3>3. IsWorkingDay(DayOf(sweepAt[w]))
      BY <3>1 DEF DueSteps
    <3> QED
      BY <3>1, <3>2, <3>3, EscalationIsLate, ReminderIsNotEarly
  <2> QED
    BY <2>1
<1>3. NoticeInv => TimersTypeOK /\ StampedWasTold /\ EscalationAuditedOnce
  BY DEF NoticeInv
<1> QED
  BY InitNotices, <1>1, <1>2, <1>3, PTL DEF TimersSpec, NoticesAreSound, NobodyIsPingedEarly

-----------------------------------------------------------------------------
(***************************************************************************)
(* The mirror of the governing documents.                                   *)
(***************************************************************************)
(* What the registry looks like.                                             *)
Rows == [name : Builds, swapped : BOOLEAN]
NamesDiffer(rows) == \A i, j \in DOMAIN rows : rows[i].name = rows[j].name => i = j
RowsFit(rows) == rows \in Seq(Rows) /\ NamesDiffer(rows)

Passes ==
  [pc : {"idle", "scanned", "noted", "rebuild", "building", "built", "swapped"},
   always : BOOLEAN, found : BOOLEAN, failed : BOOLEAN, fresh : BOOLEAN,
   heal : Builds \cup {NoBuild}, scope : SUBSET Builds, seen : SUBSET Builds,
   name : Builds \cup {NoBuild}, keep : Builds \cup {NoBuild}]

DiskTypes ==
  /\ effective \in 0..MaxReleases /\ tree \in [Builds -> Trees \cup {NoBuild}]
  /\ areaIntact \in BOOLEAN /\ current \in Pointers

RegistryTypes == RowsFit(registry) /\ Len(registry) <= KeepRows + 1

PassTypes ==
  /\ pass \in Passes
  /\ pass.pc \in {"building", "built", "swapped"} => pass.name \in Builds
  /\ pass.pc = "building" => ~Registered(pass.name)

FaultNames == {"scan", "persist", "build", "swap", "stamp"}

HistoryTypes ==
  /\ tampers \in 0..MaxTampers /\ alarmed \in BOOLEAN
  /\ faults \in Seq(FaultNames) /\ Len(faults) <= MaxFaults

(* MirrorTypeOK, strengthened: the directory a rebuild fills has no row yet. *)
MirrorTypes == DiskTypes /\ RegistryTypes /\ PassTypes /\ HistoryTypes

(* A scan that has found nothing has seen no divergent bytes, a completed one *)
(* has seen them all, and a rebuild is under way only when everything its scan *)
(* had seen has been told.                                                    *)
ToldFirst ==
  /\ pass.pc \in {"scanned", "noted"} =>
       (~pass.found => pass.seen = {}) /\ (~pass.failed => pass.scope = pass.seen)
  /\ pass.pc \in {"rebuild", "building", "built", "swapped"} =>
       pass.scope \cap pass.seen = {} /\ (~pass.failed => pass.scope = {})

(* ServedTreeHasRow, and the pruning that spares the row knows it.            *)
RowIsKept ==
  tampers = 0 =>
    /\ current \in Builds => Registered(current)
    /\ pass.pc = "building" /\ current \in Builds => pass.keep = current
    /\ pass.pc = "built" => Registered(pass.name)

(* Failed scans, unwritten results and lost stamps, but nothing else.         *)
Calm == tampers = 0 /\ FaultKinds \subseteq {"scan", "persist", "stamp"}

(* What a calm mirror looks like: `current` leads to the newest row, until a   *)
(* newer one is committed, and there is no other tree but the one being built. *)
NothingToFind ==
  /\ areaIntact /\ ~alarmed /\ ~pass.found
  /\ current \in Builds \cup {"missing"} /\ (current \in Builds => OnDisk(current))
  /\ \A b \in Builds : OnDisk(b) =>
       /\ tree[b].mark = "clean"
       /\ b = current \/ (pass.pc \in {"building", "built"} /\ b = pass.name)
  /\ pass.pc \in {"building", "built"} => OnDisk(pass.name)
  /\ IF pass.pc = "built" THEN registry # <<>> /\ registry[Len(registry)].name = pass.name
     ELSE IF current = "missing" THEN registry = <<>>
     ELSE registry # <<>> /\ registry[Len(registry)].name = current

MirrorInv == MirrorTypes /\ ToldFirst /\ RowIsKept /\ (Calm => NothingToFind)

-----------------------------------------------------------------------------
(* What the pruning of the registry keeps.                                   *)

Newer(rows, i) == {j \in (i + 1)..Len(rows) : rows[j].name # pass.keep}

LEMMA InitialSegments ==
  ASSUME NEW n \in Nat
  PROVE  \A R \in SUBSET (1..n) : IsFiniteSet(R) /\ Cardinality(R) \in Nat
<1>1. IsFiniteSet(1..n)
  BY FS_Interval
<1> QED
  BY <1>1, FS_Subset, FS_CardinalityType

LEMMA BelowGrows ==
  ASSUME NEW S, \A s \in S : s \in Int, NEW c \in S, NEW d \in S, c <= d
  PROVE  Below(S, c) \in SUBSET Below(S, d)
BY DEF Below

LEMMA RanksDiffer ==
  ASSUME NEW S, IsFiniteSet(S), \A s \in S : s \in Int, NEW i \in S, NEW j \in S,
         Cardinality(Below(S, i)) = Cardinality(Below(S, j))
  PROVE  i = j
<1>1. ASSUME NEW c \in S, NEW d \in S, c <= d,
             Cardinality(Below(S, c)) = Cardinality(Below(S, d))
      PROVE  c = d
  <2>1. IsFiniteSet(Below(S, d))
    BY FS_Subset DEF Below
  <2>2. Below(S, c) \in SUBSET Below(S, d)
    BY <1>1, BelowGrows
  <2>3. Below(S, c) = Below(S, d)
    BY <1>1, <2>1, <2>2, FS_Subset
  <2> QED
    BY <1>1, <2>3 DEF Below
<1>2. i <= j \/ j <= i
  OBVIOUS
<1> QED
  BY <1>1, <1>2

\* At most KeepRows rows are kept for being new, and one for being served.
LEMMA KeptAreFew ==
  ASSUME NEW rows, RowsFit(rows), NEW K, K \subseteq DOMAIN rows,
         \A i \in K :
           \/ rows[i].name = pass.keep
           \/ Cardinality(Newer(rows, i)) < KeepRows
  PROVE  Cardinality(K) <= KeepRows + 1
<1> DEFINE P == {i \in DOMAIN rows : rows[i].name = pass.keep}
           M == {i \in DOMAIN rows : rows[i].name # pass.keep /\ Cardinality(Newer(rows, i)) < KeepRows}
<1>1. DOMAIN rows = 1..Len(rows) /\ Len(rows) \in Nat
  BY DEF RowsFit
<1>2. PICK n \in Nat : n = Len(rows)
  BY <1>1
<1>3. \A R \in SUBSET (1..n) : IsFiniteSet(R) /\ Cardinality(R) \in Nat
  BY InitialSegments
<1>4. Cardinality(P) <= 1
  <2>1. CASE P = {}
    BY <2>1, FS_EmptySet
  <2>2. CASE P # {}
    <3>1. PICK p \in P : TRUE
      BY <2>2
    <3>2. P = {p}
      BY <3>1 DEF RowsFit, NamesDiffer
    <3>3. Cardinality(P) = 1
      BY <3>2, FS_Singleton, Zenon
    <3> HIDE DEF P
    <3> QED
      BY <3>3
  <2> QED
    BY <2>1, <2>2
<1>5. Cardinality(M) <= KeepRows
  <2>1. CASE M = {}
    <3> HIDE DEF M
    <3> QED
      BY <2>1, FS_EmptySet, MirrorAssumption
  <2>2. CASE M # {}
    <3>1. \A i \in M : i \in Int /\ 1 <= i
      BY <1>1
    <3>2. PICK m \in M : \A i \in M : m <= i
      <4> HIDE DEF M
      <4> QED
        BY <2>2, <3>1, LeastElement
    <3>3. m \in 1..n /\ Cardinality(Newer(rows, m)) < KeepRows
      BY <1>1, <1>2
    <3>4. Newer(rows, m) \in SUBSET (1..n)
      BY <1>2, <3>3 DEF Newer
    <3>5. IsFiniteSet(Newer(rows, m)) /\ Cardinality(Newer(rows, m)) \in Nat
      BY <1>3, <3>4
    <3>6. M \in SUBSET (Newer(rows, m) \cup {m})
      BY <1>1, <3>2 DEF Newer
    <3>7. PICK c \in Nat : c = Cardinality(Newer(rows, m))
      BY <3>5
    <3> HIDE DEF M
    <3>8. IsFiniteSet(Newer(rows, m) \cup {m}) /\ Cardinality(Newer(rows, m) \cup {m}) <= c + 1
      <4>1. /\ IsFiniteSet(Newer(rows, m) \cup {m})
            /\ Cardinality(Newer(rows, m) \cup {m}) =
                 IF m \in Newer(rows, m) THEN Cardinality(Newer(rows, m))
                 ELSE Cardinality(Newer(rows, m)) + 1
        BY <3>5, FS_AddElement, Zenon
      <4> QED
        BY <3>7, <4>1
    <3>9. M \in SUBSET (1..n)
      BY <1>1, <1>2 DEF M
    <3>10. Cardinality(M) <= Cardinality(Newer(rows, m) \cup {m}) /\ Cardinality(M) \in Nat
      BY <1>3, <3>6, <3>8, <3>9, FS_Subset
    <3>11. Cardinality(Newer(rows, m) \cup {m}) \in Nat
      BY <3>8, FS_CardinalityType
    <3> QED
      BY <3>3, <3>7, <3>8, <3>10, <3>11, MirrorAssumption
  <2> QED
    BY <2>1, <2>2
<1>6. K \subseteq M \cup P
  OBVIOUS
<1>7. M \in SUBSET (1..n) /\ P \in SUBSET (1..n)
  BY <1>1, <1>2
<1> HIDE DEF M, P
<1>8. /\ Cardinality(M \cup P) = Cardinality(M) + Cardinality(P) - Cardinality(M \cap P)
      /\ IsFiniteSet(M \cup P)
  BY <1>3, <1>7, FS_Union
<1>9. Cardinality(K) <= Cardinality(M \cup P)
  BY <1>6, <1>8, FS_Subset
<1>10. PICK x, y, z \in Nat : x = Cardinality(M) /\ y = Cardinality(P) /\ z = Cardinality(M \cap P)
  BY <1>3, <1>7
<1>11. PICK w \in Nat : w = Cardinality(K)
  BY <1>3, <1>6, <1>7
<1> QED
  BY <1>4, <1>5, <1>8, <1>9, <1>10, <1>11, MirrorAssumption

\* Pruning keeps distinct rows, the newest of all at the end, and the served one.
LEMMA KeptRowsFit ==
  ASSUME NEW rows, RowsFit(rows), rows # <<>>
  PROVE  LET kept == KeptRows(rows)
         IN  /\ RowsFit(kept) /\ Len(kept) <= KeepRows + 1
             /\ kept # <<>> /\ kept[Len(kept)] = rows[Len(rows)]
             /\ \A i \in DOMAIN rows :
                  rows[i].name = pass.keep => \E n \in DOMAIN kept : kept[n] = rows[i]
<1> DEFINE Kept(i) ==
             \/ rows[i].name = pass.keep
             \/ Cardinality(Newer(rows, i)) < KeepRows
           Index(n) == CHOOSE i \in DOMAIN rows :
                         Kept(i) /\ Cardinality({j \in 1..i : Kept(j)}) = n
           K == {i \in DOMAIN rows : Kept(i)}
           kept == KeptRows(rows)
<1>1. kept = [n \in 1..Cardinality(K) |-> rows[Index(n)]]
  BY DEF KeptRows, Newer
<1>2. PICK l \in Nat \ {0} : l = Len(rows) /\ DOMAIN rows = 1..l
  BY DEF RowsFit
<1>3. \A i \in 1..l : rows[i] \in Rows
  BY <1>2 DEF RowsFit
<1>4. K \subseteq 1..l
  BY <1>2
<1>5. \A R \in SUBSET (1..l) : IsFiniteSet(R) /\ Cardinality(R) \in Nat
  BY InitialSegments
<1>6. PICK c \in Nat : c = Cardinality(K)
  <2> HIDE DEF K
  <2> QED
    BY <1>4, <1>5
<1>7. \A i \in K : {j \in 1..i : Kept(j)} = Below(K, i)
  <2>1. ASSUME NEW i \in K, NEW j PROVE j \in 1..i /\ Kept(j) <=> j \in Below(K, i)
    <3>1. i \in 1..l
      BY <1>4
    <3>2. j \in 1..i <=> j \in 1..l /\ j <= i
      BY <3>1
    <3>3. j \in 1..l /\ Kept(j) <=> j \in K
      BY <1>2
    <3> HIDE DEF K, Kept
    <3> QED
      BY <3>2, <3>3, <1>4 DEF Below
  <2> HIDE DEF K, Kept
  <2> QED
    BY <2>1
<1>8. \A n : Index(n) = CHOOSE i \in DOMAIN rows : Kept(i) /\ Cardinality({j \in 1..i : Kept(j)}) = n
  OBVIOUS
<1>9. ASSUME NEW i \in K, NEW n, Cardinality(Below(K, i)) = n PROVE Index(n) = i
  <2>1. i \in DOMAIN rows /\ Kept(i) /\ Cardinality({j \in 1..i : Kept(j)}) = n
    BY <1>7, <1>9
  <2>2. Index(n) \in DOMAIN rows /\ Kept(Index(n)) /\ Cardinality({j \in 1..Index(n) : Kept(j)}) = n
    <3> HIDE DEF Kept
    <3> QED
      BY <2>1
  <2>3. Index(n) \in K
    BY <2>2
  <2>4. Cardinality(Below(K, Index(n))) = n
    BY <1>7, <2>2, <2>3
  <2>5. PICK k \in K : k = Index(n)
    BY <2>3
  <2> HIDE DEF K, Index, Kept
  <2>6. Cardinality(Below(K, k)) = Cardinality(Below(K, i))
    BY <1>9, <2>4, <2>5
  <2>7. IsFiniteSet(K) /\ \A j \in K : j \in Int
    BY <1>4, <1>5
  <2>8. k = i
    BY <2>6, <2>7, RanksDiffer
  <2> QED
    BY <2>5, <2>8
<1>10. \A n \in 1..c : Index(n) \in K /\ Cardinality(Below(K, Index(n))) = n
  <2>1. ASSUME NEW n \in 1..c PROVE HasRankBelow(K, n)
    <3> HIDE DEF K
    <3>1. n \in Nat \ {0} /\ n <= Cardinality(K) /\ 1 \in Int /\ l \in Int
      BY <1>6
    <3> QED
      BY <1>4, <3>1, RankFromBelow
  <2> HIDE DEF K, Index
  <2> QED
    BY <1>9, <2>1 DEF HasRankBelow
<1>11. \A i \in K : Cardinality(Below(K, i)) \in 1..c
  <2>1. ASSUME NEW i \in K PROVE Cardinality(Below(K, i)) \in 1..c
    <3> HIDE DEF K
    <3>1. Below(K, i) \in SUBSET K /\ i \in Below(K, i) /\ IsFiniteSet(K)
      BY <1>4, <1>5 DEF Below
    <3>2. Cardinality(Below(K, i)) \in Nat /\ IsFiniteSet(Below(K, i))
      BY <1>4, <1>5, <3>1
    <3>3. Cardinality(Below(K, i)) <= c /\ Cardinality(Below(K, i)) # 0
      BY <1>6, <3>1, <3>2, FS_Subset, FS_EmptySet
    <3> QED
      BY <3>2, <3>3
  <2> QED
    BY <2>1
<1>12. l \in K /\ Below(K, l) = K
  <2>1. Newer(rows, l) = {}
    BY <1>2 DEF Newer
  <2>2. Cardinality(Newer(rows, l)) = 0
    BY <2>1, FS_EmptySet
  <2>3. Kept(l)
    BY <2>2, MirrorAssumption
  <2> QED
    BY <1>2, <1>4, <2>3 DEF Below
<1>13. c <= KeepRows + 1
  <2>1. /\ K \subseteq DOMAIN rows
        /\ \A i \in K : rows[i].name = pass.keep \/ Cardinality(Newer(rows, i)) < KeepRows
    OBVIOUS
  <2> HIDE DEF K
  <2> QED
    BY <1>6, <2>1, KeptAreFew
<1> HIDE DEF Kept, Index, K, kept
<1>14. c >= 1 /\ Index(c) = l
  BY <1>6, <1>9, <1>11, <1>12
<1>15. DOMAIN kept = 1..c /\ \A n \in 1..c : kept[n] = rows[Index(n)]
  BY <1>1, <1>6
<1>16. \A n \in 1..c : kept[n] \in Rows
  BY <1>3, <1>4, <1>10, <1>15
<1>17. kept \in Seq(Rows) /\ Len(kept) = c
  <2>1. kept \in [1..c -> Rows]
    BY <1>1, <1>6, <1>15, <1>16
  <2> QED
    BY <2>1, SeqDef, LenProperties
<1>18. NamesDiffer(kept)
  <2>1. ASSUME NEW n \in 1..c, NEW m \in 1..c, kept[n].name = kept[m].name PROVE n = m
    <3>1. Index(n) \in DOMAIN rows /\ Index(m) \in DOMAIN rows
      BY <1>2, <1>4, <1>10
    <3>2. Index(n) = Index(m)
      BY <1>15, <2>1, <3>1 DEF RowsFit, NamesDiffer
    <3> QED
      BY <1>10, <3>2
  <2> QED
    BY <1>15, <2>1 DEF NamesDiffer
<1>19. ASSUME NEW i \in DOMAIN rows, rows[i].name = pass.keep
       PROVE  \E n \in DOMAIN kept : kept[n] = rows[i]
  <2>1. i \in K
    BY <1>19 DEF K, Kept
  <2>2. PICK n \in 1..c : n = Cardinality(Below(K, i))
    BY <1>11, <2>1
  <2>3. Index(n) = i
    BY <1>9, <2>1, <2>2
  <2> QED
    BY <1>15, <2>2, <2>3
<1>20. kept[Len(kept)] = rows[Len(rows)]
  BY <1>2, <1>14, <1>15, <1>17
<1>21. kept # <<>>
  BY <1>14, <1>17
<1> QED
  BY <1>13, <1>17, <1>18, <1>19, <1>20, <1>21 DEF RowsFit, kept

LEMMA RegisteredMeans ==
  ASSUME NEW b
  PROVE  Registered(b) <=> \E i \in DOMAIN registry : registry[i].name = b
BY DEF Registered, Row

\* The row of the new build goes to the end of the registry.
LEMMA CommittedRows ==
  ASSUME RegistryTypes, NEW b \in Builds, ~Registered(b), NEW r,
         r = KeptRows(Append(registry, [name |-> b, swapped |-> FALSE]))
  PROVE  /\ RowsFit(r) /\ Len(r) <= KeepRows + 1 /\ r # <<>> /\ r[Len(r)].name = b
         /\ Len(r) \in DOMAIN r
         /\ \A i \in DOMAIN registry : registry[i].name = pass.keep =>
              \E n \in DOMAIN r : r[n].name = pass.keep
<1>1. PICK row \in Rows : row = [name |-> b, swapped |-> FALSE]
  BY DEF Rows
<1>2. PICK rows : rows = Append(registry, row)
  OBVIOUS
<1>3. registry \in Seq(Rows)
  BY DEF RegistryTypes, RowsFit
<1>4. /\ rows \in Seq(Rows) /\ Len(rows) = Len(registry) + 1 /\ rows[Len(registry) + 1] = row
      /\ Len(registry) \in Nat /\ DOMAIN rows = 1..(Len(registry) + 1)
      /\ DOMAIN registry = 1..Len(registry)
      /\ \A i \in 1..Len(registry) : rows[i] = registry[i]
  BY <1>1, <1>2, <1>3
<1>5. NamesDiffer(rows)
  <2>1. \A i, j \in DOMAIN registry : registry[i].name = registry[j].name => i = j
    BY DEF RegistryTypes, RowsFit, NamesDiffer
  <2>2. \A i \in DOMAIN registry : registry[i].name # b
    BY RegisteredMeans
  <2>3. \A i \in DOMAIN rows : i \in DOMAIN registry \/ i = Len(registry) + 1
    BY <1>4
  <2>4. row.name = b
    BY <1>1
  <2> QED
    BY <1>4, <2>1, <2>2, <2>3, <2>4 DEF NamesDiffer
<1>6. RowsFit(rows) /\ rows # <<>>
  BY <1>4, <1>5 DEF RowsFit
<1>7. /\ RowsFit(r) /\ Len(r) <= KeepRows + 1 /\ r # <<>> /\ r[Len(r)] = rows[Len(rows)]
      /\ \A i \in DOMAIN rows : rows[i].name = pass.keep => \E n \in DOMAIN r : r[n] = rows[i]
  BY <1>1, <1>2, <1>6, KeptRowsFit
<1>8. Len(r) \in DOMAIN r
  BY <1>7 DEF RowsFit
<1>9. ASSUME NEW i \in DOMAIN registry, registry[i].name = pass.keep
      PROVE  \E n \in DOMAIN r : r[n].name = pass.keep
  <2>1. i \in DOMAIN rows /\ rows[i] = registry[i]
    BY <1>4
  <2> QED
    BY <1>7, <1>9, <2>1
<1>10. r[Len(r)].name = b
  BY <1>1, <1>4, <1>7
<1> QED
  BY <1>7, <1>8, <1>9, <1>10

\* Stamping changes no name and no order.
LEMMA StampedRows ==
  ASSUME RegistryTypes, NEW b, NEW r,
         r = [i \in DOMAIN registry |->
                IF registry[i].name = b THEN [registry[i] EXCEPT !.swapped = TRUE] ELSE registry[i]]
  PROVE  /\ RowsFit(r) /\ Len(r) = Len(registry) /\ DOMAIN r = DOMAIN registry
         /\ \A i \in DOMAIN registry : r[i].name = registry[i].name
<1>1. registry \in Seq(Rows) /\ DOMAIN registry = 1..Len(registry) /\ Len(registry) \in Nat
  BY DEF RegistryTypes, RowsFit
<1>2. \A i \in DOMAIN registry : r[i] \in Rows /\ r[i].name = registry[i].name
  <2>1. ASSUME NEW i \in DOMAIN registry PROVE r[i] \in Rows /\ r[i].name = registry[i].name
    <3>1. registry[i] \in Rows
      BY <1>1
    <3> QED
      BY <3>1 DEF Rows
  <2> QED
    BY <2>1
<1>3. r \in Seq(Rows) /\ Len(r) = Len(registry) /\ DOMAIN r = DOMAIN registry
  <2>1. r \in [1..Len(registry) -> Rows]
    BY <1>1, <1>2
  <2> QED
    BY <1>1, <2>1, SeqDef, LenProperties
<1> QED
  BY <1>2, <1>3 DEF RegistryTypes, RowsFit, NamesDiffer

LEMMA NoLongerLateFacts ==
  ASSUME NEW t \in Trees \cup {NoBuild}
  PROVE  /\ NoLongerLate(t) \in Trees \cup {NoBuild}
         /\ NoLongerLate(t) # NoBuild <=> t # NoBuild
         /\ t # NoBuild /\ t.mark = "clean" => NoLongerLate(t) = t
<1>1. NoBuild \notin Trees
  BY MirrorAssumption DEF Trees
<1>2. CASE t = NoBuild
  BY <1>2 DEF NoLongerLate
<1>3. CASE t \in Trees /\ t.mark = "late"
  <2>1. [t EXCEPT !.mark = "changed"] \in Trees
    BY <1>3 DEF Trees
  <2>2. NoLongerLate(t) = [t EXCEPT !.mark = "changed"]
    BY <1>1, <1>3 DEF NoLongerLate
  <2> QED
    BY <1>1, <1>3, <2>1, <2>2
<1>4. CASE t \in Trees /\ t.mark # "late"
  BY <1>4 DEF NoLongerLate
<1> QED
  BY <1>2, <1>3, <1>4

-----------------------------------------------------------------------------
(* What a scan finds.                                                        *)

LEMMA PointerToRow ==
  ASSUME current \in Builds, Registered(current)
  PROVE  ResolvePointer \in {"ok", "selfheal", "rollback"}
<1>1. current \notin {"missing", "rogue", "outside"}
  BY MirrorAssumption
<1>2. registry # <<>>
  BY RegisteredMeans
<1>3. \A i : Unstamped(i) \in {"selfheal", "rollback"}
  BY DEF Unstamped
<1> QED
  BY <1>1, <1>2, <1>3 DEF ResolvePointer

LEMMA PointerToNoRow ==
  ASSUME current \in Builds, ~Registered(current)
  PROVE  ResolvePointer = IF registry = <<>> THEN "none" ELSE "foreign"
<1>1. current \notin {"missing", "rogue", "outside"}
  BY MirrorAssumption
<1> QED
  BY <1>1 DEF ResolvePointer

\* Divergent bytes of the served tree are findings before .builds is swept.
LEMMA ServedIsFound ==
  ASSUME DiskTypes, ~ServedFindings
  PROVE  Scope \cap {current} = {}
<1>1. SUFFICES ASSUME current \in Builds, ~NoBaseline, OnDisk(current), tree[current].mark # "clean"
               PROVE  FALSE
  BY DEF Scope
<1>2. ~PointerFinding /\ ~TreeDiffers
  BY <1>1 DEF ServedFindings
<1>3. areaIntact /\ ResolvePointer # "foreign"
  BY <1>2 DEF PointerFinding
<1>4. Registered(current)
  BY <1>1, <1>3, PointerToNoRow DEF NoBaseline
<1>5. HasBaseline
  BY <1>1, <1>4, PointerToRow DEF HasBaseline
<1>6. Scannable
  BY <1>1, <1>3, <1>5 DEF Scannable
<1> QED
  BY <1>1, <1>2, <1>6 DEF TreeDiffers

\* A scan that reports nothing has nothing in its scope.
LEMMA ScopeIsFound ==
  ASSUME DiskTypes, ~Findings
  PROVE  Scope = {}
<1>1. Scope \cap {current} = {}
  BY ServedIsFound DEF Findings
<1>2. SUFFICES ASSUME NEW b \in Builds, ~NoBaseline, OnDisk(b), ~Registered(b), b # current
               PROVE  FALSE
  BY <1>1 DEF Scope
<1>3. ~PointerFinding /\ Extras = {}
  BY <1>2 DEF Findings, ServedFindings
<1>4. areaIntact
  BY <1>3 DEF PointerFinding
<1> QED
  BY <1>2, <1>3, <1>4 DEF Extras

\* What a failed scan had found and seen by the time it raised.
LEMMA FailedScan ==
  ASSUME DiskTypes, NEW reach \in Reaches
  PROVE  /\ FoundBy(reach) \in BOOLEAN /\ SeenBy(reach) \in SUBSET Builds
         /\ ~FoundBy(reach) => SeenBy(reach) = {}
         /\ FoundBy(reach) => Findings
<1>1. Findings \in BOOLEAN /\ ServedFindings \in BOOLEAN
  BY Zenon DEF Findings, ServedFindings
<1>2. ServedFindings => Findings
  BY DEF Findings
<1>3. Scope \in SUBSET Builds
  BY DEF Scope
<1>4. CASE reach = "nothing"
  BY <1>4 DEF FoundBy, SeenBy
<1>5. CASE reach = "served"
  <2>1. FoundBy(reach) = ServedFindings /\ SeenBy(reach) = Scope \cap {current}
    BY <1>5 DEF FoundBy, SeenBy
  <2> QED
    BY <1>1, <1>2, <1>3, <2>1, ServedIsFound
<1>6. CASE reach \in {"swept", "index"}
  <2>1. FoundBy(reach) = Findings /\ SeenBy(reach) = Scope
    BY <1>6 DEF FoundBy, SeenBy
  <2> QED
    BY <1>1, <1>3, <2>1, ScopeIsFound
<1> QED
  BY <1>4, <1>5, <1>6 DEF Reaches

\* In a calm mirror between two passes a scan finds nothing and moves nothing.
LEMMA QuietScan ==
  ASSUME RegistryTypes, NothingToFind, pass.pc = "idle"
  PROVE  ~Findings /\ MovedAway = {}
<1>1. areaIntact /\ current \in Builds \cup {"missing"}
  BY DEF NothingToFind
<1>2. \A b \in Builds : OnDisk(b) => b = current /\ tree[b].mark = "clean"
  BY DEF NothingToFind
<1>3. CASE current = "missing"
  <2>1. registry = <<>>
    BY <1>3 DEF NothingToFind
  <2>2. ResolvePointer = "none"
    BY <1>3, <2>1 DEF ResolvePointer
  <2> QED
    BY <1>1, <2>2 DEF NoBaseline, Findings, ServedFindings, MovedAway
<1>4. CASE current \in Builds
  <2>1. current \notin {"missing", "rogue", "outside"}
    BY <1>4, MirrorAssumption
  <2>2. PICK l : l = Len(registry)
    OBVIOUS
  <2>3. registry # <<>> /\ registry[l].name = current /\ OnDisk(current)
    BY <1>4, <2>1, <2>2 DEF NothingToFind
  <2>4. registry \in Seq(Rows) /\ DOMAIN registry = 1..l /\ l \in Nat \ {0} /\ l \in DOMAIN registry
    <3>1. registry \in Seq(Rows)
      BY DEF RegistryTypes, RowsFit
    <3> QED
      BY <2>2, <2>3, <3>1
  <2>5. Row(current) = {l}
    BY <2>3, <2>4 DEF Row, RegistryTypes, RowsFit, NamesDiffer
  <2>6. PointedRow = l
    BY <2>5 DEF PointedRow
  <2>7. registry[l].swapped => l = LatestRow(Swapped)
    <3>0. SUFFICES ASSUME registry[l].swapped PROVE l = LatestRow(Swapped)
      OBVIOUS
    <3>1. l \in Swapped /\ \A j \in Swapped : j \in Int /\ j <= l
      BY <2>4, <3>0 DEF Swapped
    <3>2. LatestRow(Swapped) = l
      <4>1. \E i \in Swapped : \A j \in Swapped : j <= i
        BY <3>1
      <4>2. LatestRow(Swapped) \in Swapped /\ \A j \in Swapped : j <= LatestRow(Swapped)
        BY <4>1 DEF LatestRow
      <4> QED
        BY <3>1, <4>2
    <3> QED
      BY <3>2
  <2>8. Registered(current)
    BY <2>5 DEF Registered
  <2>9. ResolvePointer \in {"ok", "selfheal"}
    <3>1. ResolvePointer = IF ~registry[l].swapped THEN Unstamped(l)
                           ELSE IF l = LatestRow(Swapped) THEN "ok" ELSE "rollback"
      BY <2>1, <2>3, <2>6, <2>8 DEF ResolvePointer
    <3>2. Unstamped(l) = "selfheal"
      BY <2>2 DEF Unstamped
    <3> QED
      BY <2>7, <3>1, <3>2
  <2>10. Extras = {}
    BY <1>2 DEF Extras
  <2>11. HasBaseline /\ Scannable /\ ~TreeDiffers
    BY <1>1, <1>2, <1>4, <2>3, <2>9 DEF HasBaseline, Scannable, TreeDiffers
  <2>12. ~PointerFinding
    BY <1>1, <2>9, <2>11 DEF PointerFinding
  <2> QED
    BY <2>8, <2>10, <2>11, <2>12 DEF Findings, ServedFindings, MovedAway
<1> QED
  BY <1>1, <1>3, <1>4

-----------------------------------------------------------------------------
(* Every step keeps the types.                                               *)

LEMMA InitMirror == MirrorInit => MirrorInv
<1> SUFFICES ASSUME MirrorInit PROVE MirrorInv
  OBVIOUS
<1>1. registry = <<>> /\ pass = NoPass /\ faults = <<>> /\ tampers = 0 /\ alarmed = FALSE
      /\ effective = 0 /\ tree = [b \in Builds |-> NoBuild] /\ areaIntact = TRUE /\ current = "missing"
  BY DEF MirrorInit
<1>2. DiskTypes
  BY <1>1, MirrorAssumption DEF DiskTypes, Pointers
<1>3. RegistryTypes
  BY <1>1, MirrorAssumption DEF RegistryTypes, RowsFit, NamesDiffer
<1>4. PassTypes
  BY <1>1 DEF PassTypes, Passes, NoPass
<1>5. HistoryTypes
  <2>1. faults \in Seq(FaultNames) /\ Len(faults) = 0
    BY <1>1
  <2>2. Len(faults) <= MaxFaults /\ tampers \in 0..MaxTampers
    BY <1>1, <2>1, MirrorAssumption
  <2>3. alarmed \in BOOLEAN
    BY <1>1, Zenon
  <2> QED
    BY <2>1, <2>2, <2>3 DEF HistoryTypes
<1>6. ToldFirst
  BY <1>1 DEF ToldFirst, NoPass
<1>7. RowIsKept
  BY <1>1, MirrorAssumption DEF RowIsKept, NoPass
<1>8. NothingToFind
  BY <1>1, MirrorAssumption DEF NothingToFind, NoPass, OnDisk
<1> QED
  BY <1>2, <1>3, <1>4, <1>5, <1>6, <1>7, <1>8 DEF MirrorInv, MirrorTypes

\* A pass gives up: only the record of faults may grow.
GivesUp ==
  /\ pass' = NoPass
  /\ UNCHANGED <<effective, diskVars, registry, tampers, alarmed>>

LEMMA GivingUp ==
  ASSUME BuildBlocked \/ BuildFails \/ SwapBlocked \/ SwapFails \/ StampFails
  PROVE  GivesUp
BY DEF BuildBlocked, BuildFails, SwapBlocked, SwapFails, StampFails, GivesUp, diskVars, mirrorHistory

LEMMA NextFaults ==
  ASSUME MirrorNext
  PROVE  \/ faults' = faults
         \/ /\ Len(faults) < MaxFaults
            /\ \E k \in FaultNames : faults' = Append(faults, k)
BY DEF MirrorNext, VaultChanges, Scan, PassStep, Persist, BuildStart, BuildBlocked, BuildCommit, Swap,
       SwapBlocked, Stamp, Fault, ScanFails, PersistFails, BuildFails, SwapFails, StampFails, Tamper,
       TamperServed, PlantTree, RemoveTree, Repoint, ReplaceArea, Tampered, mirrorHistory, FaultNames

LEMMA NextTampers ==
  ASSUME MirrorNext
  PROVE  \/ tampers' = tampers /\ ~Tamper
         \/ tampers < MaxTampers /\ tampers' = tampers + 1
BY DEF MirrorNext, VaultChanges, Scan, PassStep, Persist, BuildStart, BuildBlocked, BuildCommit, Swap,
       SwapBlocked, Stamp, Fault, ScanFails, PersistFails, BuildFails, SwapFails, StampFails, Tamper,
       TamperServed, PlantTree, RemoveTree, Repoint, ReplaceArea, Tampered, mirrorHistory

LEMMA NextAlarmed ==
  ASSUME MirrorNext
  PROVE  alarmed' = alarmed \/ (Persist /\ alarmed' = (alarmed \/ pass.found))
BY DEF MirrorNext, VaultChanges, Scan, PassStep, Persist, BuildStart, BuildBlocked, BuildCommit, Swap,
       SwapBlocked, Stamp, Fault, ScanFails, PersistFails, BuildFails, SwapFails, StampFails, Tamper,
       TamperServed, PlantTree, RemoveTree, Repoint, ReplaceArea, Tampered, mirrorHistory

LEMMA NextHistory == HistoryTypes /\ MirrorNext => HistoryTypes'
<1> SUFFICES ASSUME HistoryTypes, MirrorNext PROVE HistoryTypes'
  OBVIOUS
<1>1. faults' \in Seq(FaultNames) /\ Len(faults') <= MaxFaults
  <2>1. CASE faults' = faults
    BY <2>1 DEF HistoryTypes
  <2>2. ASSUME NEW k \in FaultNames, Len(faults) < MaxFaults, faults' = Append(faults, k)
        PROVE  faults' \in Seq(FaultNames) /\ Len(faults') <= MaxFaults
    <3>1. faults' \in Seq(FaultNames) /\ Len(faults') = Len(faults) + 1 /\ Len(faults) \in Nat
      BY <2>2 DEF HistoryTypes
    <3> QED
      BY <2>2, <3>1, MirrorAssumption
  <2> QED
    BY <2>1, <2>2, NextFaults
<1>2. tampers' \in 0..MaxTampers
  BY NextTampers, MirrorAssumption DEF HistoryTypes
<1>3. alarmed' \in BOOLEAN
  BY NextAlarmed, Zenon DEF HistoryTypes
<1> QED
  BY <1>1, <1>2, <1>3 DEF HistoryTypes

LEMMA NextRegistry == RegistryTypes /\ PassTypes /\ MirrorNext => RegistryTypes'
<1> SUFFICES ASSUME RegistryTypes, PassTypes, MirrorNext PROVE RegistryTypes'
  OBVIOUS
<1>1. CASE registry' = registry
  BY <1>1 DEF RegistryTypes, RowsFit, NamesDiffer
<1>2. CASE Persist
  <2>1. PICK r : r = registry'
    OBVIOUS
  <2>2. r = [i \in DOMAIN registry |-> IF registry[i].name = pass.heal
                                        THEN [registry[i] EXCEPT !.swapped = TRUE] ELSE registry[i]]
    BY <1>2, <2>1 DEF Persist
  <2>3. RowsFit(r) /\ Len(r) = Len(registry)
    BY <2>2, StampedRows
  <2> QED
    BY <2>1, <2>3 DEF RegistryTypes, RowsFit, NamesDiffer
<1>3. CASE Stamp
  <2>1. PICK r : r = registry'
    OBVIOUS
  <2>2. r = [i \in DOMAIN registry |-> IF registry[i].name = pass.name
                                        THEN [registry[i] EXCEPT !.swapped = TRUE] ELSE registry[i]]
    BY <1>3, <2>1 DEF Stamp
  <2>3. RowsFit(r) /\ Len(r) = Len(registry)
    BY <2>2, StampedRows
  <2> QED
    BY <2>1, <2>3 DEF RegistryTypes, RowsFit, NamesDiffer
<1>4. CASE BuildCommit
  <2>1. pass.name \in Builds /\ ~Registered(pass.name)
    BY <1>4 DEF BuildCommit, PassTypes
  <2>2. PICK r : r = registry'
    OBVIOUS
  <2>3. r = KeptRows(Append(registry, [name |-> pass.name, swapped |-> FALSE]))
    BY <1>4, <2>2 DEF BuildCommit
  <2>4. RowsFit(r) /\ Len(r) <= KeepRows + 1
    BY <2>1, <2>3, CommittedRows
  <2> QED
    BY <2>2, <2>4 DEF RegistryTypes, RowsFit, NamesDiffer
<1>5. registry' = registry \/ Persist \/ Stamp \/ BuildCommit
  BY DEF MirrorNext, VaultChanges, Scan, PassStep, BuildStart, BuildBlocked, Swap,
         SwapBlocked, Fault, ScanFails, PersistFails, BuildFails, SwapFails, StampFails, Tamper,
         TamperServed, PlantTree, RemoveTree, Repoint, ReplaceArea, Tampered, mirrorHistory
<1> QED
  BY <1>1, <1>2, <1>3, <1>4, <1>5

\* A free name is a build's.
LEMMA NewNameIsFree ==
  ASSUME Unmentioned # {}
  PROVE  /\ NewName \in Builds /\ ~OnDisk(NewName) /\ ~Registered(NewName)
         /\ NewName # current /\ NewName # pass.name
<1>1. NewName \in Unmentioned
  BY DEF NewName
<1> QED
  BY <1>1 DEF Unmentioned

LEMMA NextDisk == DiskTypes /\ PassTypes /\ MirrorNext => DiskTypes'
<1> SUFFICES ASSUME DiskTypes, PassTypes, MirrorNext PROVE DiskTypes'
  OBVIOUS
<1>0. tree \in [Builds -> Trees \cup {NoBuild}] /\ current \in Pointers /\ effective \in 0..MaxReleases
  BY DEF DiskTypes
<1>1. effective' \in 0..MaxReleases
  <2>1. effective' = effective \/ (effective < MaxReleases /\ effective' = effective + 1)
    BY DEF MirrorNext, VaultChanges, Scan, PassStep, Persist, BuildStart, BuildBlocked, BuildCommit, Swap,
           SwapBlocked, Stamp, Fault, ScanFails, PersistFails, BuildFails, SwapFails, StampFails, Tamper,
           TamperServed, PlantTree, RemoveTree, Repoint, ReplaceArea, Tampered
  <2> QED
    BY <1>0, <2>1, MirrorAssumption
<1>2. areaIntact' \in BOOLEAN
  <2>1. areaIntact' = areaIntact \/ areaIntact' = TRUE \/ areaIntact' = FALSE
    BY DEF MirrorNext, VaultChanges, Scan, PassStep, Persist, BuildStart, BuildBlocked, BuildCommit, Swap,
           SwapBlocked, Stamp, Fault, ScanFails, PersistFails, BuildFails, SwapFails, StampFails, Tamper,
           TamperServed, PlantTree, RemoveTree, Repoint, ReplaceArea, Tampered, diskVars, Quarantine
  <2> QED
    BY <2>1, Zenon DEF DiskTypes
<1>3. current' \in Pointers
  <2>1. \/ current' = current \/ current' = "missing"
        \/ Swap
        \/ \E p \in Pointers : current' = p
    BY DEF MirrorNext, VaultChanges, Scan, PassStep, Persist, BuildStart, BuildBlocked, BuildCommit,
           SwapBlocked, Stamp, Fault, ScanFails, PersistFails, BuildFails, SwapFails, StampFails, Tamper,
           TamperServed, PlantTree, RemoveTree, Repoint, ReplaceArea, Tampered, diskVars, Quarantine
  <2>2. CASE Swap
    BY <2>2 DEF Swap, PassTypes, Pointers
  <2> QED
    BY <1>0, <2>1, <2>2 DEF Pointers
<1>4. tree' \in [Builds -> Trees \cup {NoBuild}]
  <2>1. CASE \E always \in BOOLEAN : Scan(always)
    <3>1. \A b \in Builds : NoLongerLate(tree[b]) \in Trees \cup {NoBuild}
      BY <1>0, NoLongerLateFacts
    <3> QED
      BY <2>1, <3>1 DEF Scan, Quarantine
  <2>2. CASE \E always \in BOOLEAN, reach \in Reaches : ScanFails(always, reach)
    <3>1. \A b \in Builds : NoLongerLate(tree[b]) \in Trees \cup {NoBuild}
      BY <1>0, NoLongerLateFacts
    <3> QED
      BY <2>2, <3>1 DEF ScanFails, Quarantine
  <2>3. CASE BuildStart
    <3>1. BuildTree \in Trees
      BY <1>0 DEF BuildTree, Trees
    <3>2. tree' = [tree EXCEPT ![NewName] = BuildTree]
      BY <2>3 DEF BuildStart
    <3> QED
      BY <1>0, <3>1, <3>2
  <2>4. CASE Swap
    BY <1>0, <2>4 DEF Swap
  <2>5. CASE TamperServed
    <3>1. current \in Builds /\ tree[current] \in Trees
      BY <1>0, <2>5 DEF TamperServed, OnDisk
    <3>2. Mark(current) \in {"clean", "changed", "late"}
      BY DEF Mark
    <3>3. PICK t : t = [tree[current] EXCEPT !.mark = Mark(current)]
      OBVIOUS
    <3>4. t \in Trees
      BY <3>1, <3>2, <3>3 DEF Trees
    <3>5. tree' = [tree EXCEPT ![current] = t]
      BY <2>5, <3>3 DEF TamperServed
    <3> QED
      BY <1>0, <3>4, <3>5
  <2>6. CASE PlantTree
    <3>1. PICK t : t = [gen |-> 0, mark |-> Mark(NewName)]
      OBVIOUS
    <3>2. Mark(NewName) \in {"clean", "changed", "late"}
      BY DEF Mark
    <3>3. t \in Trees
      BY <3>1, <3>2, MirrorAssumption DEF Trees
    <3>4. tree' = [tree EXCEPT ![NewName] = t]
      BY <2>6, <3>1 DEF PlantTree
    <3> QED
      BY <1>0, <3>3, <3>4
  <2>7. CASE \E b \in Builds : RemoveTree(b)
    BY <1>0, <2>7 DEF RemoveTree
  <2>8. CASE ReplaceArea
    BY <2>8 DEF ReplaceArea
  <2>9. CASE tree' = tree
    BY <1>0, <2>9
  <2> QED
    BY <2>1, <2>2, <2>3, <2>4, <2>5, <2>6, <2>7, <2>8, <2>9
    DEF MirrorNext, VaultChanges, PassStep, Persist, BuildBlocked, BuildCommit, SwapBlocked, Stamp, Fault,
        PersistFails, BuildFails, SwapFails, StampFails, Tamper, Repoint, diskVars
<1> QED
  BY <1>1, <1>2, <1>3, <1>4 DEF DiskTypes

LEMMA NextPassTypes ==
  ASSUME DiskTypes, RegistryTypes, PassTypes, MirrorNext
  PROVE  PassTypes'
<1>0. pass \in Passes
  BY DEF PassTypes
<1>1. CASE pass' = pass /\ registry' = registry
  BY <1>1 DEF PassTypes, Registered, Row
<1>2. CASE pass' = NoPass
  BY <1>2 DEF PassTypes, Passes, NoPass
<1>3. ASSUME NEW always \in BOOLEAN, Scan(always) PROVE PassTypes'
  <2>1. PICK found \in BOOLEAN, fresh \in BOOLEAN : found = Findings /\ fresh = IsCurrent
    BY Zenon DEF Findings, ServedFindings, IsCurrent
  <2>2. PICK heal \in Builds \cup {NoBuild} :
          heal = IF ResolvePointer = "selfheal" /\ ~PointerFinding THEN current ELSE NoBuild
    <3>1. ASSUME ResolvePointer = "selfheal" PROVE current \in Builds
      <4>1. current \notin {"missing", "rogue", "outside"}
        BY <3>1, MirrorAssumption DEF ResolvePointer
      <4> QED
        BY <4>1 DEF DiskTypes, Pointers
    <3> QED
      BY <3>1
  <2>3. PICK scope \in SUBSET Builds : scope = Scope
    BY DEF Scope
  <2>4. pass' = [NoPass EXCEPT !.pc = "scanned", !.always = always, !.found = found,
                               !.fresh = fresh, !.scope = scope, !.seen = scope,
                               !.heal = heal]
    BY <1>3, <2>1, <2>2, <2>3 DEF Scan
  <2>5. pass' = [pc |-> "scanned", always |-> always, found |-> found, failed |-> FALSE,
                 fresh |-> fresh, heal |-> heal, scope |-> scope, seen |-> scope,
                 name |-> NoBuild, keep |-> NoBuild]
    BY <2>4 DEF NoPass
  <2>6. pass' \in Passes /\ pass'.pc = "scanned"
    BY <2>5 DEF Passes
  <2> QED
    BY <2>6 DEF PassTypes
<1>4. ASSUME NEW always \in BOOLEAN, NEW reach \in Reaches, ScanFails(always, reach)
      PROVE  PassTypes'
  <2>1. PICK scope \in SUBSET Builds : scope = Scope
    BY DEF Scope
  <2>2. PICK found \in BOOLEAN, seen \in SUBSET Builds : found = FoundBy(reach) /\ seen = SeenBy(reach)
    BY FailedScan
  <2>3. pass' = [NoPass EXCEPT !.pc = IF always THEN "scanned" ELSE "noted", !.always = always,
                               !.found = found, !.failed = TRUE, !.scope = scope, !.seen = seen]
    BY <1>4, <2>1, <2>2 DEF ScanFails
  <2>4. PICK pc \in {"scanned", "noted"} : pc = IF always THEN "scanned" ELSE "noted"
    OBVIOUS
  <2>5. pass' = [pc |-> pc, always |-> always, found |-> found, failed |-> TRUE,
                 fresh |-> FALSE, heal |-> NoBuild, scope |-> scope, seen |-> seen,
                 name |-> NoBuild, keep |-> NoBuild]
    BY <2>3, <2>4 DEF NoPass
  <2>6. pass' \in Passes /\ pass'.pc = pc
    BY <2>5 DEF Passes
  <2> QED
    BY <2>4, <2>6 DEF PassTypes
<1>5. ASSUME NEW persisted \in BOOLEAN, pass' = PersistOutcome(persisted) PROVE PassTypes'
  <2>1. PICK rest \in SUBSET Builds : rest = pass.scope \ pass.seen
    BY <1>0 DEF Passes
  <2>2. CASE pass' = [pass EXCEPT !.pc = "rebuild", !.scope = rest]
    BY <1>0, <2>2 DEF PassTypes, Passes
  <2>3. CASE pass' = [pass EXCEPT !.pc = "rebuild"]
    BY <1>0, <2>3 DEF PassTypes, Passes
  <2>4. pass' = NoPass \/ pass' = [pass EXCEPT !.pc = "rebuild", !.scope = rest]
        \/ pass' = [pass EXCEPT !.pc = "rebuild"]
    BY <1>0, <1>5, <2>1 DEF PersistOutcome, Passes
  <2> QED
    BY <1>2, <2>2, <2>3, <2>4
<1>6. CASE BuildStart
  <2>1. PICK n \in Builds, k \in Builds \cup {NoBuild} :
          /\ n = NewName /\ ~Registered(n)
          /\ k = IF current \in Builds THEN current ELSE NoBuild
    BY <1>6, NewNameIsFree DEF BuildStart
  <2>2. pass' = [pass EXCEPT !.pc = "building", !.name = n, !.keep = k] /\ registry' = registry
    BY <1>6, <2>1 DEF BuildStart
  <2>3. pass' \in Passes /\ pass'.name = n
    BY <1>0, <2>2 DEF Passes
  <2> QED
    BY <2>1, <2>2, <2>3 DEF PassTypes, Registered, Row
<1>7. CASE BuildCommit
  <2>1. pass' = [pass EXCEPT !.pc = "built"] /\ pass.name \in Builds
    BY <1>7 DEF BuildCommit, PassTypes
  <2> QED
    BY <1>0, <2>1 DEF PassTypes, Passes
<1>8. CASE Swap
  <2>1. pass' = [pass EXCEPT !.pc = "swapped"] /\ pass.name \in Builds
    BY <1>8 DEF Swap, PassTypes
  <2> QED
    BY <1>0, <2>1 DEF PassTypes, Passes
<1>9. Persist \/ PersistFails => \E persisted \in BOOLEAN : pass' = PersistOutcome(persisted)
  BY DEF Persist, PersistFails
<1>10. CASE VaultChanges \/ Tamper
  BY <1>1, <1>10 DEF VaultChanges, Tamper, TamperServed, PlantTree, RemoveTree, Repoint, ReplaceArea, Tampered
<1>11. CASE Stamp
  BY <1>2, <1>11 DEF Stamp
<1>12. CASE BuildBlocked \/ BuildFails \/ SwapBlocked \/ SwapFails \/ StampFails
  BY <1>2, <1>12, GivingUp DEF GivesUp
<1> QED
  BY <1>3, <1>4, <1>5, <1>6, <1>7, <1>8, <1>9, <1>10, <1>11, <1>12 DEF MirrorNext, PassStep, Fault

-----------------------------------------------------------------------------
(* Nothing is pruned untold.                                                 *)

LEMMA NextTold ==
  ASSUME DiskTypes, PassTypes, ToldFirst, MirrorNext
  PROVE  ToldFirst'
<1>0. pass \in Passes
  BY DEF PassTypes
<1>1. CASE pass' = pass
  BY <1>1 DEF ToldFirst
<1>2. CASE pass' = NoPass
  BY <1>2 DEF ToldFirst, NoPass
<1>3. ASSUME NEW always \in BOOLEAN, Scan(always) PROVE ToldFirst'
  <2>1. pass'.pc = "scanned" /\ pass'.found = Findings /\ pass'.scope = Scope /\ pass'.seen = Scope
    BY <1>3 DEF Scan, NoPass
  <2> QED
    BY <2>1, ScopeIsFound DEF ToldFirst
<1>4. ASSUME NEW always \in BOOLEAN, NEW reach \in Reaches, ScanFails(always, reach)
      PROVE  ToldFirst'
  <2>1. /\ pass'.pc \in {"scanned", "noted"} /\ pass'.failed
        /\ pass'.found = FoundBy(reach) /\ pass'.seen = SeenBy(reach)
    BY <1>4 DEF ScanFails, NoPass
  <2> QED
    BY <2>1, FailedScan DEF ToldFirst
<1>5. ASSUME NEW persisted \in BOOLEAN, pass' = PersistOutcome(persisted) PROVE ToldFirst'
  <2>1. CASE ~(pass.pc = "scanned" /\ Rebuilds /\ ~Deferred(persisted))
    BY <1>2, <1>5, <2>1 DEF PersistOutcome
  <2>2. CASE pass.pc = "scanned" /\ ~Deferred(persisted) /\ ~(persisted /\ pass.found)
             /\ pass' = [pass EXCEPT !.pc = "rebuild"]
    <3>1. ~pass.found
      BY <2>2 DEF Deferred
    <3>2. pass.seen = {} /\ (~pass.failed => pass.scope = {})
      BY <2>2, <3>1 DEF ToldFirst
    <3>3. /\ pass'.pc = "rebuild" /\ pass'.failed = pass.failed
          /\ pass'.scope = pass.scope /\ pass'.seen = pass.seen
      BY <1>0, <2>2 DEF Passes
    <3> QED
      BY <3>2, <3>3 DEF ToldFirst
  <2>3. CASE pass.pc = "scanned" /\ pass' = [pass EXCEPT !.pc = "rebuild", !.scope = @ \ pass.seen]
    <3>1. ~pass.failed => pass.scope = pass.seen
      BY <2>3 DEF ToldFirst
    <3>2. /\ pass'.pc = "rebuild" /\ pass'.failed = pass.failed
          /\ pass'.scope = pass.scope \ pass.seen /\ pass'.seen = pass.seen
      BY <1>0, <2>3 DEF Passes
    <3> QED
      BY <3>1, <3>2 DEF ToldFirst
  <2> QED
    BY <1>0, <1>5, <2>1, <2>2, <2>3 DEF PersistOutcome, Passes
<1>6. CASE BuildStart
  <2>1. pass.pc = "rebuild" /\ pass'.pc = "building" /\ UNCHANGED <<pass.failed, pass.scope, pass.seen>>
    BY <1>0, <1>6 DEF BuildStart, Passes
  <2> QED
    BY <2>1 DEF ToldFirst
<1>7. CASE BuildCommit
  <2>1. pass.pc = "building" /\ pass'.pc = "built" /\ UNCHANGED <<pass.failed, pass.scope, pass.seen>>
    BY <1>0, <1>7 DEF BuildCommit, Passes
  <2> QED
    BY <2>1 DEF ToldFirst
<1>8. CASE Swap
  <2>1. pass.pc = "built" /\ pass'.pc = "swapped" /\ UNCHANGED <<pass.failed, pass.scope, pass.seen>>
    BY <1>0, <1>8 DEF Swap, Passes
  <2> QED
    BY <2>1 DEF ToldFirst
<1>9. Persist \/ PersistFails => \E persisted \in BOOLEAN : pass' = PersistOutcome(persisted)
  BY DEF Persist, PersistFails
<1>10. CASE VaultChanges \/ Tamper
  BY <1>1, <1>10 DEF VaultChanges, Tamper, TamperServed, PlantTree, RemoveTree, Repoint, ReplaceArea, Tampered
<1>11. CASE Stamp
  BY <1>2, <1>11 DEF Stamp
<1>12. CASE BuildBlocked \/ BuildFails \/ SwapBlocked \/ SwapFails \/ StampFails
  BY <1>2, <1>12, GivingUp DEF GivesUp
<1> QED
  BY <1>3, <1>4, <1>5, <1>6, <1>7, <1>8, <1>9, <1>10, <1>11, <1>12 DEF MirrorNext, PassStep, Fault

-----------------------------------------------------------------------------
(* The served tree keeps its row.                                            *)

\* A step that drops no name from the registry.
LEMMA NamesStay ==
  ASSUME RegistryTypes, Persist \/ Stamp, NEW b
  PROVE  Registered(b)' <=> Registered(b)
<1>1. PICK c, r : /\ r = registry'
                  /\ r = [i \in DOMAIN registry |->
                            IF registry[i].name = c THEN [registry[i] EXCEPT !.swapped = TRUE]
                            ELSE registry[i]]
  BY DEF Persist, Stamp
<1>2. DOMAIN r = DOMAIN registry /\ \A i \in DOMAIN registry : r[i].name = registry[i].name
  BY <1>1, StampedRows
<1>3. Registered(b)' <=> \E i \in DOMAIN r : r[i].name = b
  BY <1>1 DEF Registered, Row
<1> QED
  BY <1>2, <1>3, RegisteredMeans

\* ... and none from its end.
LEMMA NewestStays ==
  ASSUME RegistryTypes, Persist \/ Stamp
  PROVE  /\ registry = <<>> => registry' = <<>>
         /\ registry # <<>> =>
              registry' # <<>> /\ registry'[Len(registry')].name = registry[Len(registry)].name
<1>1. PICK c, r : /\ r = registry'
                  /\ r = [i \in DOMAIN registry |->
                            IF registry[i].name = c THEN [registry[i] EXCEPT !.swapped = TRUE]
                            ELSE registry[i]]
  BY DEF Persist, Stamp
<1>2. r = [i \in DOMAIN registry |->
             IF registry[i].name = c THEN [registry[i] EXCEPT !.swapped = TRUE] ELSE registry[i]]
  BY <1>1
<1>3. RowsFit(r)
  BY <1>2, StampedRows
<1>4. Len(r) = Len(registry) /\ \A i \in DOMAIN registry : r[i].name = registry[i].name
  BY <1>2, StampedRows
<1>5. r \in Seq(Rows) /\ registry \in Seq(Rows)
  BY <1>3 DEF RegistryTypes, RowsFit
<1>6. (r = <<>> <=> Len(r) = 0) /\ (registry = <<>> <=> Len(registry) = 0)
  BY <1>5
<1>7. registry # <<>> => Len(registry) \in DOMAIN registry
  BY <1>5
<1> QED
  BY <1>1, <1>4, <1>6, <1>7

LEMMA NextRowIsKept ==
  ASSUME RegistryTypes, PassTypes, HistoryTypes, RowIsKept, MirrorNext
  PROVE  RowIsKept'
<1>0. pass \in Passes
  BY DEF PassTypes
<1> SUFFICES ASSUME tampers' = 0 PROVE RowIsKept'
  BY DEF RowIsKept
<1>1. tampers = 0 /\ ~Tamper
  BY NextTampers DEF HistoryTypes
<1>2. /\ current \in Builds => Registered(current)
      /\ pass.pc = "building" /\ current \in Builds => pass.keep = current
      /\ pass.pc = "built" => Registered(pass.name)
  BY <1>1 DEF RowIsKept
<1>3. CASE VaultChanges
  BY <1>2, <1>3 DEF VaultChanges, RowIsKept, Registered, Row, diskVars
<1>4. ASSUME NEW always \in BOOLEAN, Scan(always) PROVE RowIsKept'
  <2>1. pass'.pc = "scanned" /\ registry' = registry /\ current' \in {"missing", current}
    BY <1>4 DEF Scan, Quarantine, NoPass
  <2> QED
    BY <1>2, <2>1, MirrorAssumption DEF RowIsKept, Registered, Row
<1>5. ASSUME NEW always \in BOOLEAN, NEW reach \in Reaches, ScanFails(always, reach)
      PROVE  RowIsKept'
  <2>1. pass'.pc \in {"scanned", "noted"} /\ registry' = registry /\ current' \in {"missing", current}
    BY <1>5 DEF ScanFails, Quarantine, NoPass
  <2> QED
    BY <1>2, <2>1, MirrorAssumption DEF RowIsKept, Registered, Row
<1>6. ASSUME NEW persisted \in BOOLEAN, pass' = PersistOutcome(persisted)
      PROVE  pass'.pc \in {"idle", "rebuild"}
  BY <1>0, <1>6 DEF PersistOutcome, NoPass, Passes
<1>7. CASE Persist
  <2>1. pass'.pc \in {"idle", "rebuild"} /\ current' = current
    BY <1>6, <1>7 DEF Persist, diskVars
  <2> QED
    BY <1>2, <1>7, <2>1, NamesStay DEF RowIsKept, Registered, Row
<1>8. CASE PersistFails
  <2>1. pass'.pc \in {"idle", "rebuild"} /\ current' = current /\ registry' = registry
    BY <1>6, <1>8 DEF PersistFails, diskVars
  <2> QED
    BY <1>2, <2>1 DEF RowIsKept, Registered, Row
<1>9. CASE BuildStart
  <2>1. /\ pass'.pc = "building" /\ current' = current /\ registry' = registry
        /\ current \in Builds => pass'.keep = current
    BY <1>0, <1>9 DEF BuildStart, Passes
  <2> QED
    BY <1>2, <2>1 DEF RowIsKept, Registered, Row
<1>10. CASE BuildCommit
  <2>1. pass'.pc = "built" /\ pass'.name = pass.name /\ current' = current
    BY <1>0, <1>10 DEF BuildCommit, Passes, diskVars
  <2>2. pass.name \in Builds /\ ~Registered(pass.name) /\ pass.pc = "building"
    BY <1>10 DEF BuildCommit, PassTypes
  <2>3. PICK r : r = registry' /\ r = KeptRows(Append(registry, [name |-> pass.name, swapped |-> FALSE]))
    BY <1>10 DEF BuildCommit
  <2>4. /\ r[Len(r)].name = pass.name /\ Len(r) \in DOMAIN r
        /\ \A i \in DOMAIN registry : registry[i].name = pass.keep =>
             \E n \in DOMAIN r : r[n].name = pass.keep
    BY <2>2, <2>3, CommittedRows
  <2>5. \A b : Registered(b)' <=> \E i \in DOMAIN r : r[i].name = b
    BY <2>3 DEF Registered, Row
  <2>6. ASSUME current \in Builds PROVE \E n \in DOMAIN r : r[n].name = current
    BY <1>2, <2>2, <2>4, <2>6, RegisteredMeans
  <2> QED
    BY <2>1, <2>3, <2>4, <2>6 DEF RowIsKept, Registered, Row
<1>11. CASE Swap
  <2>1. pass'.pc = "swapped" /\ current' = pass.name /\ registry' = registry /\ pass.pc = "built"
    BY <1>0, <1>11 DEF Swap, Passes
  <2> QED
    BY <1>2, <2>1 DEF RowIsKept, Registered, Row
<1>12. CASE Stamp
  <2>1. pass'.pc = "idle" /\ current' = current
    BY <1>12 DEF Stamp, NoPass, diskVars
  <2> QED
    BY <1>2, <1>12, <2>1, NamesStay DEF RowIsKept, Registered, Row
<1>13. CASE BuildBlocked \/ BuildFails \/ SwapBlocked \/ SwapFails \/ StampFails
  <2>1. pass'.pc = "idle" /\ current' = current /\ registry' = registry
    BY <1>13, GivingUp DEF GivesUp, NoPass, diskVars
  <2> QED
    BY <1>2, <2>1 DEF RowIsKept, Registered, Row
<1> QED
  BY <1>1, <1>3, <1>4, <1>5, <1>7, <1>8, <1>9, <1>10, <1>11, <1>12, <1>13 DEF MirrorNext, PassStep, Fault

-----------------------------------------------------------------------------
(* Interrupted bookkeeping raises no alarm.                                  *)

LEMMA FaultsAreKept ==
  ASSUME HistoryTypes, NEW k \in FaultNames, faults' = Append(faults, k)
  PROVE  FaultKinds' = FaultKinds \cup {k}
<1>1. /\ faults \in Seq(FaultNames) /\ Len(faults) \in Nat
      /\ DOMAIN faults = 1..Len(faults)
  BY DEF HistoryTypes
<1>2. PICK f, l : f = faults' /\ l \in Nat /\ l = Len(faults)
  BY <1>1
<1>3. DOMAIN f = 1..(l + 1) /\ f[l + 1] = k /\ \A i \in 1..l : f[i] = faults[i]
  BY <1>1, <1>2
<1>4. FaultKinds' = {f[i] : i \in 1..(l + 1)}
  BY <1>2, <1>3 DEF FaultKinds
<1>5. FaultKinds = {faults[i] : i \in 1..l}
  BY <1>1, <1>2 DEF FaultKinds
<1>6. \A i \in 1..(l + 1) : i \in 1..l \/ i = l + 1
  BY <1>2
<1>7. l + 1 \in 1..(l + 1) /\ 1..l \subseteq 1..(l + 1)
  BY <1>2
<1> QED
  BY <1>3, <1>4, <1>5, <1>6, <1>7

\* A mirror that is calm after a step was calm before it.
LEMMA StaysCalm ==
  ASSUME HistoryTypes, MirrorNext, Calm'
  PROVE  Calm /\ ~Tamper /\ ~BuildFails /\ ~SwapFails
<1>1. tampers = 0 /\ ~Tamper
  BY NextTampers DEF HistoryTypes, Calm
<1>2. ASSUME NEW k \in FaultNames, faults' = Append(faults, k)
      PROVE  FaultKinds \subseteq FaultKinds' /\ k \in FaultKinds'
  BY <1>2, FaultsAreKept
<1>3. FaultKinds \subseteq FaultKinds'
  BY <1>2, NextFaults DEF FaultKinds
<1>4. ~BuildFails
  BY <1>2 DEF BuildFails, Calm, FaultNames
<1>5. ~SwapFails
  BY <1>2 DEF SwapFails, Calm, FaultNames
<1> QED
  BY <1>1, <1>3, <1>4, <1>5 DEF Calm

LEMMA NextCalm ==
  ASSUME MirrorTypes, Calm => NothingToFind, MirrorNext, Calm'
  PROVE  NothingToFind'
<1>0. Calm /\ NothingToFind /\ ~Tamper /\ ~BuildFails /\ ~SwapFails
  BY StaysCalm DEF MirrorTypes
<1>1. pass \in Passes /\ tree \in [Builds -> Trees \cup {NoBuild}]
  BY DEF MirrorTypes, PassTypes, DiskTypes
<1>2. /\ areaIntact /\ ~alarmed /\ ~pass.found
      /\ current \in Builds \cup {"missing"} /\ (current \in Builds => OnDisk(current))
      /\ \A b \in Builds : OnDisk(b) =>
           /\ tree[b].mark = "clean"
           /\ b = current \/ (pass.pc \in {"building", "built"} /\ b = pass.name)
      /\ pass.pc \in {"building", "built"} => OnDisk(pass.name)
  BY <1>0 DEF NothingToFind
<1>3. IF pass.pc = "built" THEN registry # <<>> /\ registry[Len(registry)].name = pass.name
      ELSE IF current = "missing" THEN registry = <<>>
      ELSE registry # <<>> /\ registry[Len(registry)].name = current
  BY <1>0 DEF NothingToFind
<1>4. ~alarmed'
  BY <1>2, NextAlarmed
\* Between passes and before a rebuild the disk holds the served tree alone.
<1>5. ASSUME UNCHANGED <<diskVars, registry>>, pass.pc \notin {"building", "built"},
             pass'.pc \notin {"building", "built"}, ~pass'.found
      PROVE  NothingToFind'
  BY <1>2, <1>3, <1>4, <1>5 DEF NothingToFind, OnDisk, diskVars
<1>6. CASE VaultChanges
  BY <1>2, <1>3, <1>4, <1>6 DEF VaultChanges, NothingToFind, OnDisk, diskVars
<1>7. ASSUME \A b \in Builds : tree'[b] = NoLongerLate(tree[b]), pass.pc = "idle"
      PROVE  \A b \in Builds : tree'[b] = tree[b]
  <2>1. ASSUME NEW b \in Builds PROVE tree'[b] = tree[b]
    <3>1. tree[b] # NoBuild => tree[b].mark = "clean"
      BY <1>2 DEF OnDisk
    <3>2. NoLongerLate(tree[b]) = tree[b]
      BY <1>1, <3>1, NoLongerLateFacts DEF NoLongerLate
    <3> QED
      BY <1>7, <3>2
  <2> QED
    BY <2>1
<1>8. ASSUME NEW always \in BOOLEAN, Scan(always) PROVE NothingToFind'
  <2>1. pass.pc = "idle" /\ ~Findings /\ MovedAway = {}
    BY <1>0, <1>8, QuietScan DEF Scan, MirrorTypes
  <2>2. /\ pass'.pc = "scanned" /\ ~pass'.found /\ registry' = registry
        /\ areaIntact' = TRUE /\ current' = current
    BY <1>2, <1>8, <2>1, MirrorAssumption DEF Scan, Quarantine, NoPass
  <2>3. \A b \in Builds : tree'[b] = tree[b]
    BY <1>7, <1>8, <2>1 DEF Scan, Quarantine
  <2> QED
    BY <1>2, <1>3, <1>4, <2>1, <2>2, <2>3 DEF NothingToFind, OnDisk
<1>9. ASSUME NEW always \in BOOLEAN, NEW reach \in Reaches, ScanFails(always, reach)
      PROVE  NothingToFind'
  <2>1. pass.pc = "idle" /\ ~Findings /\ reach \notin {"swept", "index"}
    BY <1>0, <1>9, QuietScan DEF ScanFails, MirrorTypes
  <2>2. ~FoundBy(reach)
    BY <2>1, FailedScan DEF MirrorTypes
  <2>3. /\ pass'.pc \in {"scanned", "noted"} /\ ~pass'.found /\ registry' = registry
        /\ areaIntact' = areaIntact /\ current' = current
    BY <1>9, <2>1, <2>2 DEF ScanFails, NoPass
  <2>4. \A b \in Builds : tree'[b] = tree[b]
    BY <1>7, <1>9, <2>1 DEF ScanFails
  <2> QED
    BY <1>2, <1>3, <1>4, <2>1, <2>3, <2>4 DEF NothingToFind, OnDisk
<1>10. ASSUME NEW persisted \in BOOLEAN, pass' = PersistOutcome(persisted)
       PROVE  pass'.pc \in {"idle", "rebuild"} /\ ~pass'.found
  BY <1>1, <1>2, <1>10 DEF PersistOutcome, NoPass, Passes
\* Bookkeeping in the registry changes no name.
<1>11. ASSUME Persist \/ Stamp
       PROVE  /\ registry = <<>> => registry' = <<>>
              /\ registry # <<>> =>
                   registry' # <<>> /\ registry'[Len(registry')].name = registry[Len(registry)].name
  BY <1>11, NewestStays DEF MirrorTypes
<1>12. CASE Persist
  <2>1. /\ pass'.pc \in {"idle", "rebuild"} /\ ~pass'.found /\ pass.pc \in {"scanned", "noted"}
        /\ UNCHANGED diskVars
    BY <1>10, <1>12 DEF Persist
  <2> QED
    BY <1>2, <1>3, <1>4, <1>11, <1>12, <2>1 DEF NothingToFind, OnDisk, diskVars
<1>13. CASE PersistFails
  <2>1. /\ pass'.pc \in {"idle", "rebuild"} /\ ~pass'.found /\ pass.pc \in {"scanned", "noted"}
        /\ UNCHANGED <<diskVars, registry>>
    BY <1>10, <1>13 DEF PersistFails
  <2> QED
    BY <1>5, <2>1
<1>14. CASE BuildStart
  <2>1. PICK n \in Builds : n = NewName /\ ~OnDisk(n) /\ n # current
    BY <1>14, NewNameIsFree DEF BuildStart
  <2>2. /\ pass.pc = "rebuild" /\ pass'.pc = "building" /\ pass'.name = n /\ ~pass'.found
        /\ UNCHANGED <<areaIntact, current, registry>> /\ tree' = [tree EXCEPT ![n] = BuildTree]
    BY <1>1, <1>2, <1>14, <2>1 DEF BuildStart, Passes
  <2>3. BuildTree # NoBuild /\ BuildTree.mark = "clean"
    BY MirrorAssumption DEF BuildTree, MirrorTypes, DiskTypes
  <2>4. tree'[n] = BuildTree /\ \A b \in Builds : b # n => tree'[b] = tree[b]
    BY <1>1, <2>2
  <2> QED
    BY <1>2, <1>3, <1>4, <2>1, <2>2, <2>3, <2>4 DEF NothingToFind, OnDisk
<1>15. CASE BuildCommit
  <2>1. /\ pass.pc = "building" /\ pass'.pc = "built" /\ pass'.name = pass.name /\ ~pass'.found
        /\ UNCHANGED diskVars
    BY <1>1, <1>2, <1>15 DEF BuildCommit, Passes
  <2>2. pass.name \in Builds /\ ~Registered(pass.name)
    BY <2>1 DEF MirrorTypes, PassTypes
  <2>3. PICK r : r = registry' /\ r = KeptRows(Append(registry, [name |-> pass.name, swapped |-> FALSE]))
    BY <1>15 DEF BuildCommit
  <2>4. r # <<>> /\ r[Len(r)].name = pass.name
    BY <2>2, <2>3, CommittedRows DEF MirrorTypes
  <2> QED
    BY <1>2, <1>4, <2>1, <2>3, <2>4 DEF NothingToFind, OnDisk, diskVars
<1>16. CASE Swap
  <2>1. /\ pass.pc = "built" /\ pass'.pc = "swapped" /\ ~pass'.found /\ current' = pass.name
        /\ pass.name \in Builds /\ UNCHANGED <<areaIntact, registry>>
        /\ tree' = [b \in Builds |-> IF b = pass.name THEN tree[b] ELSE NoBuild]
    BY <1>1, <1>2, <1>16 DEF Swap, Passes, MirrorTypes, PassTypes
  <2>2. current' # "missing"
    BY <2>1, MirrorAssumption
  <2> QED
    BY <1>2, <1>3, <1>4, <2>1, <2>2 DEF NothingToFind, OnDisk
<1>17. CASE Stamp
  <2>1. pass.pc = "swapped" /\ pass'.pc = "idle" /\ ~pass'.found /\ UNCHANGED diskVars
    BY <1>17 DEF Stamp, NoPass
  <2> QED
    BY <1>2, <1>3, <1>4, <1>11, <1>17, <2>1 DEF NothingToFind, OnDisk, diskVars
<1>18. CASE StampFails
  <2>1. pass.pc = "swapped" /\ pass'.pc = "idle" /\ ~pass'.found /\ UNCHANGED <<diskVars, registry>>
    BY <1>18 DEF StampFails, NoPass
  <2> QED
    BY <1>5, <2>1
<1>19. ~BuildBlocked /\ ~SwapBlocked
  <2>1. current # "rogue"
    BY <1>2, MirrorAssumption
  <2> QED
    BY <1>2, <2>1 DEF BuildBlocked, SwapBlocked
<1> QED
  BY <1>0, <1>6, <1>8, <1>9, <1>12, <1>13, <1>14, <1>15, <1>16, <1>17, <1>18, <1>19
  DEF MirrorNext, PassStep, Fault

-----------------------------------------------------------------------------
LEMMA NextMirror ==
  ASSUME MirrorInv, [MirrorNext]_mirrorVars
  PROVE  MirrorInv'
<1>1. CASE MirrorNext
  <2>1. MirrorTypes'
    BY <1>1, NextDisk, NextRegistry, NextPassTypes, NextHistory DEF MirrorInv, MirrorTypes
  <2>2. ToldFirst' /\ RowIsKept'
    BY <1>1, NextTold, NextRowIsKept DEF MirrorInv, MirrorTypes
  <2>3. Calm' => NothingToFind'
    BY <1>1, NextCalm DEF MirrorInv
  <2> QED
    BY <2>1, <2>2, <2>3 DEF MirrorInv
<1>2. CASE UNCHANGED mirrorVars
  <2>1. UNCHANGED <<effective, tree, areaIntact, current, registry, pass, faults, tampers, alarmed>>
    BY <1>2 DEF mirrorVars
  <2>2. MirrorTypes'
    BY <2>1 DEF MirrorInv, MirrorTypes, DiskTypes, RegistryTypes, PassTypes, HistoryTypes, Registered, Row,
                RowsFit, NamesDiffer
  <2>3. ToldFirst' /\ RowIsKept'
    BY <2>1 DEF MirrorInv, ToldFirst, RowIsKept, Registered, Row
  <2>4. (Calm => NothingToFind)'
    BY <2>1 DEF MirrorInv, Calm, FaultKinds, NothingToFind, OnDisk
  <2> QED
    BY <2>2, <2>3, <2>4 DEF MirrorInv
<1> QED
  BY <1>1, <1>2

LEMMA MirrorIsTyped == MirrorTypes => MirrorTypeOK
<1> SUFFICES ASSUME MirrorTypes PROVE MirrorTypeOK
  OBVIOUS
<1>1. \A i \in DOMAIN registry :
        /\ registry[i] \in [name : Builds, swapped : BOOLEAN]
        /\ \A j \in DOMAIN registry : registry[i].name = registry[j].name => i = j
  <2>1. registry \in Seq(Rows) /\ NamesDiffer(registry)
    BY DEF MirrorTypes, RegistryTypes, RowsFit
  <2>2. \A i \in DOMAIN registry : registry[i] \in Rows
    BY <2>1
  <2> QED
    BY <2>1, <2>2 DEF NamesDiffer, Rows
<1>2. /\ pass.pc \in {"idle", "scanned", "noted", "rebuild", "building", "built", "swapped"}
      /\ pass.name \in Builds \cup {NoBuild} /\ pass.scope \cup pass.seen \subseteq Builds
  BY DEF MirrorTypes, PassTypes, Passes
<1> QED
  BY <1>1, <1>2 DEF MirrorTypes, DiskTypes, RegistryTypes, HistoryTypes, MirrorTypeOK

\* For any builds, rows kept, faults and changes to the disk in any order: nothing a scan has
\* seen is pruned untold, and after a completed scan nothing at all; the served tree keeps its
\* row as long as nobody touches the disk; and failed scans, unwritten results and lost stamps
\* alone raise no alarm.
THEOREM MirrorStaysTrusted == MirrorSpec => MirrorIsTrusted
<1>1. MirrorInv /\ [MirrorNext]_mirrorVars => MirrorInv'
  BY NextMirror
<1>2. MirrorInv => MirrorTypeOK /\ ServedTreeHasRow /\ InterruptedStampIsNoAlarm
  <2>1. MirrorInv => ServedTreeHasRow
    BY DEF MirrorInv, RowIsKept, ServedTreeHasRow
  <2>2. MirrorInv => InterruptedStampIsNoAlarm
    BY DEF MirrorInv, Calm, NothingToFind, InterruptedStampIsNoAlarm
  <2> QED
    BY <2>1, <2>2, MirrorIsTyped DEF MirrorInv
<1>3. MirrorInv => (PrunedUntold # {} => pass.failed /\ PrunedUntold \cap pass.seen = {})
  BY DEF MirrorInv, ToldFirst, PrunedUntold
<1> QED
  BY InitMirror, <1>1, <1>2, <1>3, PTL DEF MirrorSpec, MirrorIsTrusted, NothingIsPrunedUntold
=============================================================================
