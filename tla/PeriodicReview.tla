--------------------------- MODULE PeriodicReview ---------------------------
(***************************************************************************)
(* The periodic review of an Effective document: the stored next_review_due,  *)
(* recomputed by a release, a confirmation and an edit of the period, and the *)
(* daily sweep that opens one review per cycle and reports it overdue once.   *)
(* A decision and an edit lock the document's row and re-read it; the sweep   *)
(* reads its documents first and commits everything it writes at its end.     *)
(***************************************************************************)
EXTENDS DocumentLifecycle, Sequences

CONSTANTS
  Periods,        \* the review periods an edit may set (0: NULL)
  DefaultPeriod,  \* REVIEW_PERIOD_DEFAULT_MONTHS
  Lead,           \* REVIEW_LEAD_DAYS
  RestDays,       \* days the working calendar does not work
  SnapDays,       \* how far snap_to_working_day walks
  ReviewSweeps,   \* deliveries of the daily task that may run at once
  Idle,           \* a delivery that is not running
  MaxReviews,     \* bound: decided reviews of a document
  Owner           \* the user who drafts, owns and reviews the documents

ASSUME ReviewAssumption ==
  /\ Periods \subseteq Nat /\ DefaultPeriod \in Nat \ {0} /\ Lead \in Nat /\ MaxReviews \in Nat
  /\ Owner \in Users /\ SnapDays \in Nat

(* The calendar rests for no longer than the walk.                           *)
ASSUME CalendarAssumption ==
  \A t \in 0..MaxTime, p \in Periods \cup {DefaultPeriod} :
     \E w \in (t + p)..(t + p + SnapDays) : w \notin RestDays

VARIABLES
  period,        \* documented_information.review_period_months
  lastReviewed,  \* documented_information.last_reviewed_at (0: NULL)
  nextDue,       \* documented_information.next_review_due (0: NULL)
  reviews,       \* PERIODIC_REVIEW instances of a document, with their task
  confirmed,     \* signature_event(meaning=review_confirmed): (document, version)
  sweeping       \* the transaction of a running sweep, not yet visible to others

reviewVars == <<period, lastReviewed, nextDue, reviews, confirmed, sweeping>>

ReviewInit ==
  /\ period = [d \in Docs |-> 0]
  /\ lastReviewed = [d \in Docs |-> 0]
  /\ nextDue = [d \in Docs |-> 0]
  /\ reviews = [d \in Docs |-> << >>]
  /\ confirmed = {}
  /\ sweeping = [s \in ReviewSweeps |-> Idle]

\* Mutant: the clock starts at the last review, if there was one.
DueFromReview(p, reviewed, from) ==
  IF p = 0 \/ (reviewed = 0 /\ from = 0) THEN 0
  ELSE (IF reviewed # 0 THEN reviewed ELSE from) + p

(* The later of the two anchors, and nothing without a period or an anchor.  *)
NextReviewDue(p, reviewed, from) ==
  IF p = 0 \/ (reviewed = 0 /\ from = 0) THEN 0
  ELSE (IF reviewed > from THEN reviewed ELSE from) + p

EffectiveFrom(d) == IF eff[d] = 0 THEN 0 ELSE effFrom[d][eff[d]]

(***************************************************************************)
(* The vault: a new document has the default period, a submission gives one  *)
(* to a document without, an import gives none, and a cutover sets the date.  *)
(***************************************************************************)
ReviewedVaultAction ==
  \/ \E d \in Docs :
        \/ CreateDocument(d) \/ SubmitReview(d)
        \/ ImportBaseline(d, Owner) \/ Checkin(d, Owner)
        \/ \E t \in Tokens : Checkout(d, Owner, t) \/ ReleaseAfterCommit(d, t)
  \/ Serve \/ Tick

PeriodAfter(d) ==
  IF \/ docState[d] = "Absent" /\ docState'[d] = "Draft"
     \/ docState[d] # "InReview" /\ docState'[d] = "InReview" /\ period[d] = 0
  THEN DefaultPeriod ELSE period[d]

CutoverSetsDue(d) ==
  IF docState[d] = "Approved" /\ docState'[d] = "Effective"
  THEN NextReviewDue(period[d], lastReviewed[d], effFrom'[d][eff'[d]])
  ELSE nextDue[d]

(* Only the owner drafts, and releases are immediate.                        *)
ReviewedVaultStep ==
  /\ ReviewedVaultAction
  /\ \A d \in Docs : holder'[d] \in {Owner, NoUser}
  /\ \A d \in Docs, v \in Versions : vstate'[d][v] = "Approved" => effFrom'[d][v] = 0
  /\ period' = [d \in Docs |-> PeriodAfter(d)]
  /\ nextDue' = [d \in Docs |-> CutoverSetsDue(d)]
  /\ UNCHANGED <<lastReviewed, reviews, confirmed, sweeping>>

PatchPeriod(d, p) ==
  /\ docState[d] # "Absent"
  /\ period' = [period EXCEPT ![d] = p]
  /\ nextDue' = [nextDue EXCEPT ![d] = NextReviewDue(p, lastReviewed[d], EffectiveFrom(d))]
  /\ UNCHANGED <<vars, lastReviewed, reviews, confirmed, sweeping>>

(***************************************************************************)
(* The sweep, under LOCK_REVIEW_SWEEP: it reads the documents of its window, *)
(* then the open instances and the overdue tasks, and commits once.          *)
(***************************************************************************)
InWindow(d) == docState[d] = "Effective" /\ nextDue[d] # 0 /\ nextDue[d] <= now + Lead

SingleFlight(s) == \A t \in ReviewSweeps : sweeping[t] = Idle

ReviewSweepRead(s) ==
  /\ SingleFlight(s)
  /\ sweeping[s] = Idle
  /\ sweeping' = [sweeping EXCEPT ![s] =
       [phase |-> "read", due |-> [d \in Docs |-> IF InWindow(d) THEN nextDue[d] ELSE 0]]]
  /\ UNCHANGED <<vars, period, lastReviewed, nextDue, reviews, confirmed>>

Open(r) == r.state = "PENDING"
HasOpenReview(d) == \E i \in DOMAIN reviews[d] : Open(reviews[d][i])

\* Mutant: a review that ended in "change needed" still counts as open.
NeverReviewed(d) == reviews[d] = << >>

(* find_nonterminal_instance                                                 *)
NoOpenInstance(d) == ~HasOpenReview(d)

(* snap_to_working_day: the first working day within reach, or the day itself. *)
WorkingDay(t) ==
  LET reach == {w \in t..(t + SnapDays) : w \notin RestDays}
  IN  IF reach = {} THEN t ELSE CHOOSE w \in reach : \A x \in reach : w <= x

(* REVIEW_OVERDUE is written for a late task, once per instance.             *)
ToReport(r) == Open(r) /\ r.due < now /\ r.told = 0

(* Opened and, where its date has passed, reported in the same transaction.   *)
NewReview(t) == [state |-> "PENDING", due |-> t, told |-> IF t < now THEN 1 ELSE 0]

ReviewSweepWrite(s) ==
  /\ sweeping[s] # Idle /\ sweeping[s].phase = "read"
  /\ sweeping' = [sweeping EXCEPT ![s] =
       [phase |-> "written",
        opened |-> [d \in {x \in Docs : sweeping[s].due[x] # 0 /\ NoOpenInstance(x)} |->
                      NewReview(WorkingDay(sweeping[s].due[d]))],
        told |-> [d \in Docs |-> {i \in DOMAIN reviews[d] : ToReport(reviews[d][i])}]]]
  /\ UNCHANGED <<vars, period, lastReviewed, nextDue, reviews, confirmed>>

ReportedBy(s, d) ==
  [i \in DOMAIN reviews[d] |->
     IF i \in sweeping[s].told[d] THEN [reviews[d][i] EXCEPT !.told = @ + 1] ELSE reviews[d][i]]

ReviewSweepCommit(s) ==
  /\ sweeping[s] # Idle /\ sweeping[s].phase = "written"
  /\ reviews' = [d \in Docs |-> IF d \in DOMAIN sweeping[s].opened
                                THEN Append(ReportedBy(s, d), sweeping[s].opened[d])
                                ELSE ReportedBy(s, d)]
  /\ sweeping' = [sweeping EXCEPT ![s] = Idle]
  /\ UNCHANGED <<vars, period, lastReviewed, nextDue, confirmed>>

(* The worker dies: its transaction is rolled back and its lock is free.  A    *)
(* death before the writes looks the same to everybody else.                   *)
ReviewSweepCrash(s) ==
  /\ sweeping[s] # Idle /\ sweeping[s].phase = "written"
  /\ sweeping' = [sweeping EXCEPT ![s] = Idle]
  /\ UNCHANGED <<vars, period, lastReviewed, nextDue, reviews, confirmed>>

(***************************************************************************)
(* The owner's decision.                                                    *)
(***************************************************************************)
ClockReset(d) == NextReviewDue(period[d], now, EffectiveFrom(d))

DecideReview(d, i, outcome) ==
  /\ i \in DOMAIN reviews[d] /\ Open(reviews[d][i])
  /\ i <= MaxReviews
  /\ reviews' = [reviews EXCEPT ![d][i].state =
                   IF outcome = "complete" THEN "COMPLETED" ELSE "REJECTED"]
  /\ IF outcome = "complete"
     THEN /\ eff[d] # 0
          /\ confirmed' = confirmed \cup {<<d, eff[d]>>}
          /\ lastReviewed' = [lastReviewed EXCEPT ![d] = now]
          /\ nextDue' = [nextDue EXCEPT ![d] = ClockReset(d)]
     ELSE UNCHANGED <<confirmed, lastReviewed, nextDue>>
  /\ UNCHANGED <<vars, period, sweeping>>

ReviewNext ==
  \/ ReviewedVaultStep
  \/ \E d \in Docs, p \in Periods : PatchPeriod(d, p)
  \/ \E s \in ReviewSweeps :
        ReviewSweepRead(s) \/ ReviewSweepWrite(s) \/ ReviewSweepCommit(s) \/ ReviewSweepCrash(s)
  \/ \E d \in Docs, i \in 1..MaxReviews, o \in {"complete", "changes_requested"} :
        DecideReview(d, i, o)

ReviewSpec == Init /\ ReviewInit /\ [][ReviewNext]_<<vars, reviewVars>>

(* Beat delivers the task every day, and not every delivery is killed.         *)
ReviewFairness ==
  /\ WF_sweeping(\E s \in ReviewSweeps : ReviewSweepRead(s))
  /\ WF_sweeping(\E s \in ReviewSweeps : ReviewSweepWrite(s))
  /\ SF_sweeping(\E s \in ReviewSweeps : ReviewSweepCommit(s))

ReviewFairSpec == ReviewSpec /\ ReviewFairness

(***************************************************************************)
(* Properties.                                                             *)
(***************************************************************************)
\* The stored date of an Effective document is one period after the later of its release and
\* its last review, whichever of release, confirmation and edit came last.
DueDateIsRight ==
  \A d \in Docs : docState[d] = "Effective" =>
     IF period[d] = 0 THEN nextDue[d] = 0
     ELSE /\ nextDue[d] >= lastReviewed[d] + period[d]
          /\ nextDue[d] >= EffectiveFrom(d) + period[d]
          /\ nextDue[d] \in {lastReviewed[d] + period[d], EffectiveFrom(d) + period[d]}

\* A document has one open review at a time although the daily task is redelivered, and a
\* review is reported overdue at most once, after its date, which is a working day.
OneReviewPerCycle ==
  \A d \in Docs : \A i \in DOMAIN reviews[d] :
     LET r == reviews[d][i]
     IN  /\ Open(r) => i = Len(reviews[d])
         /\ r.told <= 1
         /\ r.due \notin RestDays
         /\ r.told = 1 => r.due < now

\* A confirmation was signed for a version that governed the document, and puts the next
\* review at least one period away.
ConfirmedGoverned ==
  /\ \A c \in confirmed : vstate[c[1]][c[2]] \in {"Effective", "Superseded", "Obsolete"}
  /\ \A d \in Docs : docState[d] = "Effective" /\ period[d] # 0 /\ lastReviewed[d] = now
        => nextDue[d] > now

\* Reviews keep their date and their single open cycle through redelivered sweeps, edits of
\* the period, releases and decisions in any order.
ReviewsAreSound == DueDateIsRight /\ OneReviewPerCycle /\ ConfirmedGoverned

\* A document that stays Effective and due gets a review to decide, however often the sweep
\* that should open it is killed.
DueIsReviewed ==
  \A d \in Docs : (InWindow(d) /\ ~HasOpenReview(d)) ~> (HasOpenReview(d) \/ ~InWindow(d))
=============================================================================
