-------------------------- MODULE Acknowledgements --------------------------
(***************************************************************************)
(* Who must acknowledge one document, and who has.  An obligation is a       *)
(* workflow instance with one task, pinned to the version it was minted for;  *)
(* an acknowledgement is immutable evidence for a version.  A single sweep    *)
(* mints and cancels all obligations: Beat runs it daily, and releases and    *)
(* distribution changes ask for a run that is skipped while another one       *)
(* holds the lock.  The sweep's queries each see the database as it is when    *)
(* they run; its changes are one transaction.  Meanwhile versions take         *)
(* effect, the audience changes and users acknowledge.                         *)
(***************************************************************************)
EXTENDS Naturals, Sequences, FiniteSets

CONSTANTS
  Users,        \* people who may be in the audience
  Sweepers,     \* workers that may be running the sweep
  MaxSeq,       \* bound: version_seq of the last version
  Major,        \* the versions whose change_significance is MAJOR
  MaxChanges    \* bound: releases, settings changes and dead workers

ASSUME AckAssumption == MaxSeq \in Nat \ {0} /\ Major \subseteq 1..MaxSeq /\ MaxChanges \in Nat

Seqs == 1..MaxSeq

VARIABLES
  governed,    \* versions that are or were Effective
  governing,   \* current_effective_version_id, 0 for none
  required,    \* acknowledgement_required
  audience,    \* resolve_audience: the active users the distribution reaches
  definition,  \* the doc_acknowledgement definition: "ok", "missing" or "malformed"
  duty,        \* each user's obligations, oldest first
  acks,        \* acknowledgement rows: user and version
  sweep,       \* what each worker has read so far
  changes      \* bound

ackVars == <<governed, governing, required, audience, definition, duty, acks, sweep, changes>>
documentVars == <<governed, governing, required, audience, definition>>

NoSweep == [pc |-> "idle", gov |-> 0, boundary |-> 0, audience |-> {}, satisfied |-> {}, open |-> {}]

AckInit ==
  /\ governed = {} /\ governing = 0
  /\ required = TRUE /\ audience = Users /\ definition = "ok"
  /\ duty = [u \in Users |-> <<>>] /\ acks = {}
  /\ sweep = [s \in Sweepers |-> NoSweep]
  /\ changes = 0

SomethingChanges ==
  /\ changes < MaxChanges
  /\ changes' = changes + 1

(***************************************************************************)
(* The document.                                                           *)
(***************************************************************************)
(* A later version takes effect; versions passed over were never released.   *)
TakesEffect(v) ==
  /\ SomethingChanges /\ \A g \in governed : g < v
  /\ governing' = v /\ governed' = governed \cup {v}
  /\ UNCHANGED <<required, audience, definition, duty, acks, sweep>>

Withdrawn ==
  /\ SomethingChanges /\ governing # 0
  /\ governing' = 0
  /\ UNCHANGED <<governed, required, audience, definition, duty, acks, sweep>>

SwitchRequired ==
  /\ SomethingChanges
  /\ required' = ~required
  /\ UNCHANGED <<governed, governing, audience, definition, duty, acks, sweep>>

ChangeAudience(u) ==
  /\ SomethingChanges
  /\ audience' = IF u \in audience THEN audience \ {u} ELSE audience \cup {u}
  /\ UNCHANGED <<governed, governing, required, definition, duty, acks, sweep>>

ChangeDefinition(d) ==
  /\ SomethingChanges /\ d # definition
  /\ definition' = d
  /\ UNCHANGED <<governed, governing, required, audience, duty, acks, sweep>>

(***************************************************************************)
(* Boundary, satisfaction and plan.                                        *)
(***************************************************************************)
Greatest(S) == CHOOSE x \in S : \A y \in S : y <= x
Least(S) == CHOOSE x \in S : \A y \in S : x <= y

(* last_major_seq over the versions that ever governed: the newest MAJOR one  *)
(* up to the current, or the lowest of all.                                   *)
Boundary(v) ==
  LET inRange == {g \in governed : g <= v}
  IN  IF inRange \cap Major # {} THEN Greatest(inRange \cap Major) ELSE Least(inRange)

Satisfied(boundary) == {u \in Users : \E v \in Seqs : v >= boundary /\ <<u, v>> \in acks}

IsOpen(d) == d.state = "PENDING"
OpenDuties(u) == {i \in DOMAIN duty[u] : IsOpen(duty[u][i])}

(* open_ack_tasks as pairs of user and number; the pin is part of the row.    *)
OpenPairs == UNION {{u} \X OpenDuties(u) : u \in Users}

\* Mutant: only a superseded pin ends an open task.
ToCancelStale(s) == {p \in sweep[s].open : duty[p[1]][p[2]].pin < sweep[s].boundary}

(* plan_obligations: an open task goes if its pin is below the boundary, its   *)
(* user has left the audience or has acknowledged already.                    *)
ToCancel(s) ==
  {p \in sweep[s].open : \/ duty[p[1]][p[2]].pin < sweep[s].boundary
                         \/ p[1] \notin sweep[s].audience
                         \/ p[1] \in sweep[s].satisfied}

(* A stale task is no reason not to mint.                                    *)
Surviving(s) == {p[1] : p \in sweep[s].open \ ToCancel(s)}

ToMint(s) == (sweep[s].audience \ sweep[s].satisfied) \ Surviving(s)

(***************************************************************************)
(* The sweep.                                                              *)
(***************************************************************************)

LockFree == \A s \in Sweepers : sweep[s].pc = "idle"

InForce == governing # 0 /\ required

(* The eligible documents.  Without a definition nothing of the organization  *)
(* is touched.                                                                *)
SweepList(s) ==
  /\ sweep[s].pc = "idle" /\ LockFree /\ definition # "missing"
  /\ sweep' = [sweep EXCEPT ![s] =
       [NoSweep EXCEPT !.pc = IF InForce THEN "listed" ELSE "ineligible", !.gov = governing]]
  /\ UNCHANGED <<documentVars, duty, acks, changes>>

SweepRead(s) ==
  /\ sweep[s].pc = "listed"
  /\ sweep' = [sweep EXCEPT ![s] =
       [@ EXCEPT !.pc = "read", !.boundary = Boundary(sweep[s].gov), !.audience = audience,
                 !.satisfied = Satisfied(Boundary(sweep[s].gov))]]
  /\ UNCHANGED <<documentVars, duty, acks, changes>>

SweepOpen(s) ==
  /\ sweep[s].pc = "read"
  /\ sweep' = [sweep EXCEPT ![s] = [@ EXCEPT !.pc = "planned", !.open = OpenPairs]]
  /\ UNCHANGED <<documentVars, duty, acks, changes>>

\* Mutant: the row as it was before the lock was waited for is cancelled.
CancelledUnread(d) == [d EXCEPT !.state = "CANCELLED"]

(* _cancel_instance: the locked row decides, not the one read earlier.        *)
Cancelled(d) == IF IsOpen(d) THEN [d EXCEPT !.state = "CANCELLED"] ELSE d

Pruned(S) ==
  [u \in Users |-> [i \in DOMAIN duty[u] |->
     IF <<u, i>> \in S THEN Cancelled(duty[u][i]) ELSE duty[u][i]]]

Minted(duties, U, v) ==
  [u \in Users |-> IF u \in U THEN Append(duties[u], [pin |-> v, state |-> "PENDING"])
                   ELSE duties[u]]

(* The document's savepoint is rolled back when a mint raises.               *)
AfterFailedMint(s) == duty

(* Cancel before mint; the mint fails on a malformed definition.              *)
SweepApply(s) ==
  /\ sweep[s].pc = "planned"
  /\ duty' = IF ToMint(s) # {} /\ definition # "ok" THEN AfterFailedMint(s)
             ELSE Minted(Pruned(ToCancel(s)), ToMint(s), sweep[s].gov)
  /\ sweep' = [sweep EXCEPT ![s] = NoSweep]
  /\ UNCHANGED <<documentVars, acks, changes>>

(* Pass B: obligations on a document that was not listed, as they are now.     *)
SweepIneligible(s) ==
  /\ sweep[s].pc = "ineligible"
  /\ duty' = IF definition = "missing" THEN duty ELSE Pruned(OpenPairs)
  /\ sweep' = [sweep EXCEPT ![s] = NoSweep]
  /\ UNCHANGED <<documentVars, acks, changes>>

SweeperDies(s) ==
  /\ SomethingChanges /\ sweep[s].pc # "idle"
  /\ sweep' = [sweep EXCEPT ![s] = NoSweep]
  /\ UNCHANGED <<documentVars, duty, acks>>

(***************************************************************************)
(* A user acknowledges.                                                    *)
(***************************************************************************)

(* UNIQUE(user_id, document_version_id).                                     *)
Unrecorded(u, v) == <<u, v>> \notin acks

(* Under the locks of instance and document: the obligation must still stand. *)
DecideDocAck(u, i) ==
  /\ i \in OpenDuties(u)
  /\ InForce /\ u \in audience /\ duty[u][i].pin >= Boundary(governing)
  /\ Unrecorded(u, duty[u][i].pin)
  /\ duty' = [duty EXCEPT ![u][i].state = "COMPLETED"]
  /\ acks' = acks \cup {<<u, duty[u][i].pin>>}
  /\ UNCHANGED <<documentVars, sweep, changes>>

SweepGoesOn(s) == SweepRead(s) \/ SweepOpen(s) \/ SweepApply(s) \/ SweepIneligible(s)

AckNext ==
  \/ \E v \in Seqs : TakesEffect(v)
  \/ Withdrawn
  \/ SwitchRequired
  \/ \E u \in Users : ChangeAudience(u)
  \/ \E d \in {"ok", "missing", "malformed"} : ChangeDefinition(d)
  \/ \E s \in Sweepers : SweepList(s) \/ SweepGoesOn(s) \/ SweeperDies(s)
  \/ \E u \in Users : \E i \in DOMAIN duty[u] : DecideDocAck(u, i)

AckSpec == AckInit /\ [][AckNext]_ackVars

(* Beat runs the sweep every day and a live worker goes on.  No run that a     *)
(* release or a distribution change asks for is promised, and no user acts.    *)
AckFairSpec ==
  /\ AckSpec
  /\ WF_ackVars(\E s \in Sweepers : SweepList(s))
  /\ WF_ackVars(\E s \in Sweepers : SweepGoesOn(s))

(***************************************************************************)
(* Properties.                                                             *)
(***************************************************************************)
Duties == [pin : Seqs, state : {"PENDING", "COMPLETED", "CANCELLED"}]

\* Document, obligations and sweeps hold values of their types; what governs has governed.
AckTypeOK ==
  /\ governed \subseteq Seqs /\ governing \in governed \cup {0}
  /\ required \in BOOLEAN /\ audience \subseteq Users
  /\ definition \in {"ok", "missing", "malformed"}
  /\ \A u \in Users : \A i \in DOMAIN duty[u] : duty[u][i] \in Duties
  /\ acks \subseteq Users \X governed
  /\ \A s \in Sweepers : sweep[s].pc \in {"idle", "listed", "read", "planned", "ineligible"}

\* Nobody is asked twice: a user has at most one open obligation on the document, however
\* sweeps are triggered, die or read while users acknowledge.
OneOpenObligation == \A u \in Users : Cardinality(OpenDuties(u)) <= 1

\* A user's completed obligations and acknowledgement rows correspond one to one: there is
\* no evidence without an obligation that was met, and none is met twice.
EvidenceMatchesDuties ==
  \A u \in Users, v \in Seqs :
     Cardinality({i \in DOMAIN duty[u] : duty[u][i] = [pin |-> v, state |-> "COMPLETED"]})
       = IF <<u, v>> \in acks THEN 1 ELSE 0

\* An obligation that was met is never turned into a cancelled one by a sweep that read it
\* while it was open and waited for its lock.
MetIsNeverCancelled ==
  [][\A u \in Users : \A i \in DOMAIN duty[u] :
       duty[u][i].state = "COMPLETED" => duty'[u][i].state = "COMPLETED"]_ackVars

\* A sweep that finds the definition broken takes no obligation away from a user who, by
\* what it read, still owes an acknowledgement.
OwedSurvivesBrokenDefinition ==
  [][\A s \in Sweepers : definition # "ok" /\ sweep[s].pc = "planned" /\ sweep'[s].pc = "idle" =>
       \A u \in sweep[s].audience \ sweep[s].satisfied :
          OpenDuties(u) # {} => \E i \in DOMAIN duty'[u] : IsOpen(duty'[u][i])]_ackVars

Owing == IF InForce THEN audience \ Satisfied(Boundary(governing)) ELSE {}

Reconciled ==
  \A u \in Users :
     IF u \in Owing
     THEN \E i \in OpenDuties(u) : OpenDuties(u) = {i} /\ duty[u][i].pin >= Boundary(governing)
     ELSE OpenDuties(u) = {}

\* Once nothing changes any more, the daily sweep alone leaves every user who owes an
\* acknowledgement exactly one open obligation that would count, and nobody else any: after
\* releases a sweep missed, obligations minted for a version no longer current, users who
\* acknowledged while a sweep was reading.
ObligationsReconcile == <>[](definition = "ok" => Reconciled)

\* Nobody is asked twice, evidence and obligations correspond, and no sweep takes away an
\* obligation that is met, or owed while the definition is broken.
ObligationsAreSound ==
  [](AckTypeOK /\ OneOpenObligation /\ EvidenceMatchesDuties)
    /\ MetIsNeverCancelled /\ OwedSurvivesBrokenDefinition
=============================================================================
