----------------------------- MODULE TaskTimers -----------------------------
(***************************************************************************)
(* Reminders, the overdue notice and two escalations of one open task.  A     *)
(* sweep every five minutes takes the time when it starts, and later, in one   *)
(* transaction under an advisory lock and the task's row lock, fires the steps *)
(* that are due: in-app rows for the recipients, an audit event for an         *)
(* escalation, and the step's stamp.  Offsets count business days of a         *)
(* calendar the administrators may edit at any time.                           *)
(*                                                                         *)
(* Time is counted in parts of a day, from an instant that begins a day in     *)
(* UTC; the calendar's zone is Zone parts ahead.                               *)
(***************************************************************************)
EXTENDS Integers, FiniteSets

CONSTANTS
  Parts,         \* parts a day is divided into
  Zone,          \* the calendar's offset from UTC
  WeekLength,    \* days of a week
  WorkWeek,      \* working weekdays, 0 being the first
  Slack,         \* 366: the days a search goes on beyond n weeks
  Horizon,       \* bound: the last instant
  Sla,           \* time from the task's creation to its due date
  Offsets,       \* each step's offset from the due date: whole days and the rest
  Sweeps,        \* workers that may be running the sweep
  MaxEdits       \* bound: edits of the calendar, of templates and of users

ASSUME TimersAssumption ==
  /\ Parts \in Nat \ {0} /\ Zone \in Int /\ WeekLength \in Nat \ {0}
  /\ WorkWeek \subseteq 0..(WeekLength - 1) /\ WorkWeek # {} /\ Slack \in Nat /\ Horizon \in Nat
  /\ Sla \in Nat /\ MaxEdits \in Nat

Before == {"remind_1", "remind_2"}
Escalations == {"escalate_1", "escalate_2"}
TimerSteps == Before \cup {"overdue"} \cup Escalations

People == {"assignee", "manager", "qms owner", "top management"}

VARIABLES
  now,       \* the present instant
  holidays,  \* working_calendar.holidays
  open,      \* the task is PENDING or CLAIMED
  due,       \* task.due_at
  stamped,   \* steps whose stamp is set
  told,      \* notification rows: person and step
  audits,    \* history: TASK_ESCALATED events of each tier
  idle,      \* history: steps stamped because there was nobody to tell
  template,  \* steps whose template is active
  active,    \* people who are active
  sweepAt,   \* the time each running sweep took, -1 for none
  edits      \* bound

timerVars == <<now, holidays, open, due, stamped, told, audits, idle, template, active, sweepAt, edits>>
taskVars == <<open, due, stamped, told, audits, idle>>

(***************************************************************************)
(* The calendar.                                                           *)
(***************************************************************************)
DayOf(t) == (t + Zone) \div Parts
TimeOfDay(t) == (t + Zone) % Parts
Instant(day, part) == day * Parts + part - Zone

IsWorkingDay(d) == d % WeekLength \in WorkWeek /\ d \notin holidays

Nowhere == 1000 * Parts

(* An offset is not negative, and the year 9999 is never reached.             *)
ASSUME OffsetsAssumption ==
  /\ \A s \in TimerSteps : Offsets[s].days \in Nat /\ Offsets[s].rest \in 0..(Parts - 1)
  /\ Horizon + Parts < Instant(Nowhere, 0)

WorkingDays(S) == {d \in S : IsWorkingDay(d)}

(* The days the search visits, from the anchor on or back.                    *)
Visited(anchor, n, step, first) ==
  IF step = 1 THEN (anchor + first)..(anchor + n * WeekLength + Slack)
  ELSE (anchor - n * WeekLength - Slack)..(anchor - first)

(* The nth working day of those visited.                                      *)
Nth(anchor, n, step, first) ==
  LET found == WorkingDays(Visited(anchor, n, step, first))
      UpTo(d) == {e \in found : IF step = 1 THEN e <= d ELSE e >= d}
  IN  IF n = 0 THEN anchor
      ELSE IF Cardinality(found) < n THEN Nowhere
      ELSE CHOOSE d \in found : Cardinality(UpTo(d)) = n

\* Mutant: the anchor itself is counted.
ShiftFromAnchor(anchor, n, step) == Nth(anchor, n, step, 0)

(* The nth working day after the anchor (step = 1) or before it (step = -1);   *)
(* a search that gives up answers with a day that never comes.                 *)
ShiftBusinessDays(anchor, n, step) == Nth(anchor, n, step, 1)

Direction(step) == IF step \in Before THEN -1 ELSE 1

(* Whole days walk working days at the same time of day, the rest is added.   *)
Threshold(step) ==
  IF step = "overdue" THEN due
  ELSE Instant(ShiftBusinessDays(DayOf(due), Offsets[step].days, Direction(step)), TimeOfDay(due))
         + Direction(step) * Offsets[step].rest

(* The next working day at the same time, or the same instant if there is     *)
(* none within reach.                                                         *)
SnapToWorkingDay(t) ==
  LET later == WorkingDays(DayOf(t)..(DayOf(t) + WeekLength + Slack))
  IN  IF IsWorkingDay(DayOf(t)) \/ later = {} THEN t
      ELSE Instant(CHOOSE d \in later : \A e \in later : d <= e, TimeOfDay(t))

(* The task is created at instant 0, its due date snapped.                    *)
TimersInit ==
  /\ now = 0 /\ holidays = {} /\ open = TRUE
  /\ due = SnapToWorkingDay(Sla)
  /\ stamped = {} /\ told = {} /\ audits = [e \in Escalations |-> 0] /\ idle = {}
  /\ template = TimerSteps /\ active = People
  /\ sweepAt = [w \in Sweeps |-> -1] /\ edits = 0

(***************************************************************************)
(* The sweep.                                                              *)
(***************************************************************************)
StartSweep(w) ==
  /\ sweepAt[w] = -1 /\ open
  /\ stamped # TimerSteps
  /\ sweepAt' = [sweepAt EXCEPT ![w] = now]
  /\ UNCHANGED <<now, holidays, taskVars, template, active, edits>>

\* Mutant: a step fires on the day of its threshold or not at all.
DueThatDayOnly(t) ==
  {s \in TimerSteps \ stamped : /\ IsWorkingDay(DayOf(t)) /\ t >= Threshold(s)
                                /\ DayOf(t) = DayOf(Threshold(s))}

(* due_steps, with the clock of the sweep.                                    *)
DueSteps(t) == {s \in TimerSteps \ stamped : IsWorkingDay(DayOf(t)) /\ t >= Threshold(s)}

(* The assignee; for the first tier the manager, if active, else the QMS       *)
(* Owner; for the second Top Management, if anybody there is active, else the   *)
(* QMS Owner.  Inactive people are left out.                                   *)
Recipients(s) ==
  active \cap
    (CASE s = "escalate_1" -> IF "manager" \in active THEN {"manager"} ELSE {"qms owner"}
       [] s = "escalate_2" -> IF "top management" \in active THEN {"top management"} ELSE {"qms owner"}
       [] OTHER -> {"assignee"})

(* _enqueue_one: without a template nothing is created; a row that exists      *)
(* stays as it is.                                                             *)
Created(s) == IF s \in template THEN (Recipients(s) \X {s}) \ told ELSE {}
RowExists(s) == s \in template /\ Recipients(s) # {}

(* A row exists, or there was nobody to tell; a missing template is retried.  *)
ShouldStamp(s) == RowExists(s) \/ Recipients(s) = {}

(* Only a row created now is a new escalation.                                 *)
Recorded(e) == Created(e) # {}

(* One transaction for the task.                                              *)
ProcessTaskTimers(w) ==
  /\ sweepAt[w] # -1 /\ open
  /\ LET fired == DueSteps(sweepAt[w])
     IN  /\ told' = told \cup UNION {Created(s) : s \in fired}
         /\ stamped' = stamped \cup {s \in fired : ShouldStamp(s)}
         /\ idle' = idle \cup {s \in fired : Recipients(s) = {}}
         /\ audits' = [e \in Escalations |->
              audits[e] + IF e \in fired /\ Recorded(e) THEN 1 ELSE 0]
  /\ sweepAt' = [sweepAt EXCEPT ![w] = -1]
  /\ UNCHANGED <<now, holidays, open, due, template, active, edits>>

(* The task was decided meanwhile, its row is locked by somebody else, or the  *)
(* transaction fails: nothing is written.                                      *)
SweepSkips(w) ==
  /\ sweepAt[w] # -1
  /\ sweepAt' = [sweepAt EXCEPT ![w] = -1]
  /\ UNCHANGED <<now, holidays, taskVars, template, active, edits>>

(***************************************************************************)
(* Time, the task's owner and the administrators.                          *)
(***************************************************************************)
TimePassing ==
  /\ now < Horizon
  /\ now' = now + 1
  /\ UNCHANGED <<holidays, taskVars, template, active, sweepAt, edits>>

CloseTask ==
  /\ open
  /\ open' = FALSE
  /\ UNCHANGED <<now, holidays, due, stamped, told, audits, idle, template, active, sweepAt, edits>>

Edit ==
  /\ edits < MaxEdits
  /\ edits' = edits + 1
  /\ UNCHANGED <<now, taskVars, sweepAt>>

EditHolidays(d) ==
  /\ Edit
  /\ holidays' = IF d \in holidays THEN holidays \ {d} ELSE holidays \cup {d}
  /\ UNCHANGED <<template, active>>

EditTemplate(s) ==
  /\ Edit
  /\ template' = IF s \in template THEN template \ {s} ELSE template \cup {s}
  /\ UNCHANGED <<holidays, active>>

EditPerson(p) ==
  /\ Edit
  /\ active' = IF p \in active THEN active \ {p} ELSE active \cup {p}
  /\ UNCHANGED <<holidays, template>>

TimersNext ==
  \/ \E w \in Sweeps : StartSweep(w) \/ ProcessTaskTimers(w) \/ SweepSkips(w)
  \/ TimePassing
  \/ CloseTask
  \/ \E d \in DayOf(0)..DayOf(Horizon) : EditHolidays(d)
  \/ \E s \in TimerSteps : EditTemplate(s)
  \/ \E p \in People : EditPerson(p)

TimersSpec == TimersInit /\ [][TimersNext]_timerVars

(* Time passes, Beat starts sweeps, and a sweep that comes to the task again   *)
(* and again is not skipped every time.                                        *)
TimersFairSpec ==
  /\ TimersSpec
  /\ WF_timerVars(TimePassing)
  /\ WF_timerVars(\E w \in Sweeps : StartSweep(w))
  /\ SF_timerVars(\E w \in Sweeps : ProcessTaskTimers(w))

(***************************************************************************)
(* Properties.                                                             *)
(***************************************************************************)
\* The task's stamps, rows and counters and the sweeps' clocks hold values of their types,
\* and a due date set against the calendar of its creation is a working day of it.
TimersTypeOK ==
  /\ now \in 0..Horizon /\ open \in BOOLEAN
  /\ stamped \subseteq TimerSteps /\ told \subseteq People \X TimerSteps /\ idle \subseteq stamped
  /\ template \subseteq TimerSteps /\ active \subseteq People
  /\ sweepAt \in [Sweeps -> -1..Horizon] /\ edits \in 0..MaxEdits
  /\ DayOf(due) % WeekLength \in WorkWeek

New(s) == {p \in People : <<p, s>> \in told' /\ <<p, s>> \notin told}

\* Nobody is pinged early or on a day off: when a row is written, by whatever sweep and after
\* whatever edits of the calendar, the sweep's day is a working day, an escalation has left
\* its full number of working days after the due date, and no more than a reminder's number
\* of working days are left before it.
NobodyIsPingedEarly ==
  [][\A w \in Sweeps, s \in TimerSteps :
       sweepAt[w] # -1 /\ sweepAt'[w] = -1 /\ New(s) # {} =>
         LET today == DayOf(sweepAt[w])
         IN  /\ IsWorkingDay(today)
             /\ s \in Escalations =>
                  Cardinality(WorkingDays((DayOf(due) + 1)..today)) >= Offsets[s].days
             /\ s \in Before =>
                  Cardinality(WorkingDays(today..(DayOf(due) - 1))) <= Offsets[s].days
                                                        + (IF Offsets[s].rest > 0 THEN 1 ELSE 0)]_timerVars

\* A step is closed only when somebody was told or there was nobody to tell: a template that
\* is missing when the step falls due loses no notice, however often it comes and goes.
StampedWasTold == \A s \in stamped : s \in idle \/ \E p \in People : <<p, s>> \in told

\* However recipients and templates change, each escalation tier is recorded at most
\* once, and it is recorded exactly when somebody was told.
EscalationAuditedOnce ==
  \A e \in Escalations : audits[e] = IF \E p \in People : <<p, e>> \in told THEN 1 ELSE 0

\* A task that stays open past its due date is noticed: on a working day with its template in
\* place the overdue step fires, although sweeps die, are skipped or started before the due
\* date.
OverdueIsNoticed ==
  <>[](open /\ now >= due /\ IsWorkingDay(DayOf(now)) /\ "overdue" \in template
         => "overdue" \in stamped)

\* Notices are neither early nor lost nor recorded twice, whatever is edited between two sweeps.
NoticesAreSound ==
  [](TimersTypeOK /\ StampedWasTold /\ EscalationAuditedOnce) /\ NobodyIsPingedEarly
=============================================================================
