-------------------------- MODULE VaultOrderProofs --------------------------
(***************************************************************************)
(* The vault when only task decisions are overlapped by other requests: the  *)
(* rows of a document tell one story, approvals and releases respect the     *)
(* duties, and the vault implements GoverningRegister.                       *)
(*                                                                         *)
(* The overlap of start-revision, obsolete and release is what the other     *)
(* regimes of DocumentLifecycle are about: there the pointer or a duty can   *)
(* really go wrong, so the hypothesis on Overlapping cannot be dropped.      *)
(* The last two parts build on it: the review of what governs, and the       *)
(* change requests and the leadership gate in front of the releases.         *)
(***************************************************************************)
EXTENDS ChangeImplementation, PeriodicReview, DocumentLifecycleProofs, WellFoundedInduction

\* Only decisions are overlapped.
OnlyDecisionsOverlap == Overlapping \subseteq {"approve", "request_changes"}

-----------------------------------------------------------------------------
(* The inductive invariant, document by document.                            *)

\* Version rows are dense, only the newest is on the approval path, and the pointer, the
\* document's state and the succession agree with them.
VersionsAgree(d) ==
  /\ docState[d] = "Absent" => last[d] = 0
  /\ \A v \in Versions : vstate[d][v] = "Absent" <=> v > last[d]
  /\ \A v \in Versions : eff[d] = v <=> vstate[d][v] = "Effective"
  /\ \A v \in Versions : vstate[d][v] \in {"InReview", "Approved"} => v = last[d]
  /\ \A v \in Versions : vstate[d][v] = "Superseded" =>
       /\ supersededBy[d][v] \in Versions /\ supersededBy[d][v] > v
       /\ vstate[d][supersededBy[d][v]] \in {"Effective", "Superseded", "Obsolete"}

NewestFits(d) ==
  /\ docState[d] = "InReview" => LatestState(d) = "InReview"
  /\ docState[d] = "Approved" => LatestState(d) = "Approved"
  /\ docState[d] = "Effective" => LatestState(d) = "Effective"
  /\ docState[d] = "UnderRevision" => LatestState(d) \in {"Effective", "Draft"}
  /\ docState[d] = "Draft" => LatestState(d) \in {"Absent", "Draft"}

\* A version is signed only when its state says so, and by whom its duties allow.
SignaturesFit(d) ==
  \A v \in Versions :
    /\ vstate[d][v] # "Absent" => author[d][v] \in Users
    /\ vstate[d][v] \in {"Absent", "Draft", "InReview"} => approvers[d][v] = {}
    /\ vstate[d][v] \in {"Absent", "Draft", "InReview", "Approved"} => releasers[d][v] = {}
    /\ author[d][v] \notin approvers[d][v] /\ author[d][v] \notin releasers[d][v]
    /\ AllowApproverRelease \/ approvers[d][v] \cap releasers[d][v] = {}

\* The newest cycle is pending exactly in review, for the newest version.
CyclesFit(d) ==
  /\ \A k \in Cycles : task[d][k] = "PENDING" <=> docState[d] = "InReview" /\ k = cycles[d]
  /\ \A k \in Cycles : task[d][k] = "DONE" => decided[d][k] = submitted[d][k]
  /\ docState[d] = "InReview" => cycles[d] \in Cycles /\ submitted[d][cycles[d]] = last[d]

Orderly(d) == VersionsAgree(d) /\ NewestFits(d) /\ SignaturesFit(d) /\ CyclesFit(d)

\* A loaded decision saw the version its task was opened for, if the task is still open.
DecisionFits(q) ==
  /\ q.op \in {"approve", "request_changes"} /\ q.task \in Cycles /\ q.task <= cycles[q.doc]
  /\ q.latest \in Versions /\ q.latest <= last[q.doc]
  /\ task[q.doc][q.task] = "PENDING" => q.latest = last[q.doc]
  /\ q.op = "approve" => author[q.doc][q.latest] # q.user

OrderInv == Types /\ (\A d \in Docs : Orderly(d)) /\ (\A q \in inflight : DecisionFits(q))

-----------------------------------------------------------------------------
(* What one step can do to the rows of one document.                         *)

SameVersions(d) == last'[d] = last[d] /\ author'[d] = author[d]
SameSuccession(d) == eff'[d] = eff[d] /\ supersededBy'[d] = supersededBy[d]
SameSignatures(d) == approvers'[d] = approvers[d] /\ releasers'[d] = releasers[d]
SameCycles(d) ==
  /\ cycles'[d] = cycles[d] /\ task'[d] = task[d]
  /\ submitted'[d] = submitted[d] /\ decided'[d] = decided[d]

\* One version row of the document changes its state.
RowBecomes(d, v, st) ==
  \A w \in Versions : vstate'[d][w] = IF w = v THEN st ELSE vstate[d][w]

Untouched(d) ==
  /\ docState'[d] = docState[d] /\ vstate'[d] = vstate[d]
  /\ SameVersions(d) /\ SameSuccession(d) /\ SameSignatures(d) /\ SameCycles(d)

Created(d) ==
  /\ docState[d] = "Absent" /\ docState'[d] = "Draft" /\ vstate'[d] = vstate[d]
  /\ SameVersions(d) /\ SameSuccession(d) /\ SameSignatures(d) /\ SameCycles(d)

Imported(d) ==
  /\ docState[d] = "Absent" /\ docState'[d] = "Effective"
  /\ eff'[d] = 1 /\ last'[d] = 1 /\ RowBecomes(d, 1, "Effective")
  /\ \E u \in Users : \A w \in Versions : author'[d][w] = IF w = 1 THEN u ELSE author[d][w]
  /\ supersededBy'[d] = supersededBy[d] /\ SameSignatures(d) /\ SameCycles(d)

CheckedIn(d) ==
  /\ docState[d] \in {"Draft", "UnderRevision"} /\ docState'[d] = docState[d]
  /\ last[d] < MaxVersions /\ last'[d] = last[d] + 1 /\ RowBecomes(d, last[d] + 1, "Draft")
  /\ \E u \in Users :
       \A w \in Versions : author'[d][w] = IF w = last[d] + 1 THEN u ELSE author[d][w]
  /\ SameSuccession(d) /\ SameSignatures(d) /\ SameCycles(d)

Submitted(d) ==
  /\ docState[d] \in {"Draft", "UnderRevision"} /\ docState'[d] = "InReview"
  /\ last[d] \in Versions /\ vstate[d][last[d]] = "Draft" /\ RowBecomes(d, last[d], "InReview")
  /\ cycles[d] < MaxCycles /\ cycles'[d] = cycles[d] + 1
  /\ \A k \in Cycles : task'[d][k] = IF k = cycles[d] + 1 THEN "PENDING" ELSE task[d][k]
  /\ \A k \in Cycles : submitted'[d][k] = IF k = cycles[d] + 1 THEN last[d] ELSE submitted[d][k]
  /\ decided'[d] = decided[d]
  /\ SameVersions(d) /\ SameSuccession(d) /\ SameSignatures(d)

Decides(d, k, to) ==
  /\ task[d][k] = "PENDING" /\ last[d] \in Versions
  /\ docState'[d] = to /\ RowBecomes(d, last[d], to)
  /\ \A j \in Cycles : task'[d][j] = IF j = k THEN "DONE" ELSE task[d][j]
  /\ \A j \in Cycles : decided'[d][j] = IF j = k THEN last[d] ELSE decided[d][j]
  /\ cycles'[d] = cycles[d] /\ submitted'[d] = submitted[d]
  /\ SameVersions(d) /\ SameSuccession(d) /\ releasers'[d] = releasers[d]

Returned(d) == \E k \in Cycles : Decides(d, k, "Draft") /\ approvers'[d] = approvers[d]

ApprovedBy(d) ==
  \E k \in Cycles, u \in Users :
    /\ Decides(d, k, "Approved") /\ author[d][last[d]] # u
    /\ \A w \in Versions :
         approvers'[d][w] = approvers[d][w] \cup (IF w = last[d] THEN {u} ELSE {})

CutOver(d) ==
  \E v \in Versions, s \in Users \cup {System} :
    /\ docState[d] = "Approved" /\ vstate[d][v] = "Approved" /\ s \notin BarredFromRelease(d, v)
    /\ docState'[d] = "Effective" /\ eff'[d] = v
    /\ \A w \in Versions :
         /\ vstate'[d][w] = IF w = v THEN "Effective"
                            ELSE IF vstate[d][w] = "Effective" THEN "Superseded"
                            ELSE vstate[d][w]
         /\ supersededBy'[d][w] = IF w # v /\ vstate[d][w] = "Effective" THEN v
                                  ELSE supersededBy[d][w]
         /\ releasers'[d][w] = releasers[d][w] \cup (IF w = v THEN {s} ELSE {})
    /\ approvers'[d] = approvers[d] /\ SameVersions(d) /\ SameCycles(d)

Revised(d) ==
  /\ docState[d] = "Effective" /\ docState'[d] = "UnderRevision" /\ vstate'[d] = vstate[d]
  /\ SameVersions(d) /\ SameSuccession(d) /\ SameSignatures(d) /\ SameCycles(d)

Retired(d) ==
  /\ docState[d] = "Effective" /\ docState'[d] = "Obsolete"
  /\ eff[d] \in Versions /\ eff'[d] = 0 /\ RowBecomes(d, eff[d], "Obsolete")
  /\ supersededBy'[d] = supersededBy[d]
  /\ SameVersions(d) /\ SameSignatures(d) /\ SameCycles(d)

Archived(d) ==
  /\ docState'[d] = docState[d]
  /\ \E v \in Versions : vstate[d][v] = "Superseded" /\ RowBecomes(d, v, "Obsolete")
  /\ SameVersions(d) /\ SameSuccession(d) /\ SameSignatures(d) /\ SameCycles(d)

Moves(d) ==
  \/ Created(d) \/ Imported(d) \/ CheckedIn(d) \/ Submitted(d) \/ Returned(d) \/ ApprovedBy(d)
  \/ CutOver(d) \/ Revised(d) \/ Retired(d) \/ Archived(d)

\* A step touches the rows of one document, in one of these ways, or of none.
StepIs ==
  \/ \A e \in Docs : Untouched(e)
  \/ \E d \in Docs : Moves(d) /\ \A e \in Docs \ {d} : Untouched(e)

-----------------------------------------------------------------------------
(* Each of these keeps the document orderly.                                 *)

\* Facts about one document that every case starts from.
LEMMA RowTypes ==
  ASSUME Types, NEW d \in Docs
  PROVE  /\ last[d] \in 0..MaxVersions /\ eff[d] \in 0..MaxVersions /\ cycles[d] \in 0..MaxCycles
         /\ \A v \in Versions : supersededBy[d][v] \in 0..MaxVersions
         /\ docState[d] \in DocStates
         /\ \A v \in Versions : vstate[d][v] \in VersionStates
         /\ \A v \in Versions : approvers[d][v] \subseteq Users
         /\ Versions \subseteq Nat \ {0} /\ 0 \notin Versions
  BY ConstantsAssumption DEF Types, TypeOK, Versions


\* A decision finds the document in review, and the version its cycle was opened for.
LEMMA DecisionFinds ==
  ASSUME Types, NEW d \in Docs, Orderly(d), NEW k \in Cycles, task[d][k] = "PENDING",
         last[d] \in Versions
  PROVE  /\ docState[d] = "InReview" /\ k = cycles[d] /\ submitted[d][k] = last[d]
         /\ vstate[d][last[d]] = "InReview"
  BY RowTypes DEF Orderly, CyclesFit, NewestFits, LatestState

LEMMA MovesKeepVersions ==
  ASSUME Types, NEW d \in Docs, Orderly(d), Moves(d)
  PROVE  VersionsAgree(d)'
<1> USE RowTypes, ConstantsAssumption
  DEF Orderly, VersionsAgree, NewestFits, LatestState, SameVersions, SameSuccession,
      SameSignatures, SameCycles, RowBecomes, Decides
<1>1. CASE Created(d)
  BY <1>1 DEF Created
<1>2. CASE Imported(d)
  BY <1>2 DEF Imported
<1>3. CASE CheckedIn(d)
  BY <1>3 DEF CheckedIn
<1>4. CASE Submitted(d)
  BY <1>4 DEF Submitted
<1>5. CASE Returned(d)
  <2>1. PICK k \in Cycles : Decides(d, k, "Draft")
    BY <1>5 DEF Returned
  <2>2. docState[d] = "InReview" /\ vstate[d][last[d]] = "InReview" /\ last[d] \in Versions
    BY <2>1, DecisionFinds
  <2> QED
    BY <2>1, <2>2
<1>6. CASE ApprovedBy(d)
  <2>1. PICK k \in Cycles : Decides(d, k, "Approved")
    BY <1>6 DEF ApprovedBy
  <2>2. docState[d] = "InReview" /\ vstate[d][last[d]] = "InReview" /\ last[d] \in Versions
    BY <2>1, DecisionFinds
  <2> QED
    BY <2>1, <2>2
<1>7. CASE CutOver(d)
  BY <1>7 DEF CutOver
<1>8. CASE Revised(d)
  BY <1>8 DEF Revised
<1>9. CASE Retired(d)
  BY <1>9 DEF Retired
<1>10. CASE Archived(d)
  BY <1>10 DEF Archived
<1> QED
  BY <1>1, <1>2, <1>3, <1>4, <1>5, <1>6, <1>7, <1>8, <1>9, <1>10 DEF Moves


LEMMA MovesKeepNewest ==
  ASSUME Types, NEW d \in Docs, Orderly(d), Moves(d)
  PROVE  NewestFits(d)'
<1> USE RowTypes, ConstantsAssumption
  DEF Orderly, VersionsAgree, NewestFits, LatestState, SameVersions, SameSuccession,
      SameSignatures, SameCycles, RowBecomes, Decides
<1>1. CASE Created(d)
  BY <1>1 DEF Created
<1>2. CASE Imported(d)
  <2>1. 1 \in Versions
    BY DEF Versions
  <2> QED
    BY <1>2, <2>1 DEF Imported
<1>3. CASE CheckedIn(d)
  <2>1. last[d] + 1 \in Versions /\ last[d] + 1 # 0
    BY <1>3 DEF CheckedIn, Versions
  <2> QED
    BY <1>3, <2>1 DEF CheckedIn
<1>4. CASE Submitted(d)
  BY <1>4 DEF Submitted
<1>5. CASE Returned(d)
  BY <1>5 DEF Returned
<1>6. CASE ApprovedBy(d)
  BY <1>6 DEF ApprovedBy
<1>7. CASE CutOver(d)
  BY <1>7 DEF CutOver
<1>8. CASE Revised(d)
  BY <1>8 DEF Revised
<1>9. CASE Retired(d)
  BY <1>9 DEF Retired
<1>10. CASE Archived(d)
  <2>1. PICK v \in Versions : vstate[d][v] = "Superseded" /\ RowBecomes(d, v, "Obsolete")
    BY <1>10 DEF Archived
  <2>2. last[d] # 0 => last[d] \in Versions
    BY DEF Versions
  <2>3. last[d] # 0 /\ last[d] # v => vstate'[d][last[d]] = vstate[d][last[d]]
    BY <2>1, <2>2
  <2>4. last'[d] = last[d] /\ docState'[d] = docState[d]
    BY <1>10 DEF Archived
  <2> QED
    BY <2>1, <2>2, <2>3, <2>4
<1> QED
  BY <1>1, <1>2, <1>3, <1>4, <1>5, <1>6, <1>7, <1>8, <1>9, <1>10 DEF Moves


LEMMA MovesKeepSignatures ==
  ASSUME Types, NEW d \in Docs, Orderly(d), Moves(d)
  PROVE  SignaturesFit(d)'
<1> USE RowTypes, ConstantsAssumption
  DEF Orderly, VersionsAgree, NewestFits, SignaturesFit, LatestState, SameVersions, SameSuccession,
      SameSignatures, SameCycles, RowBecomes, Decides, BarredFromRelease
<1>1. CASE Created(d)
  BY <1>1 DEF Created
<1>2. CASE Imported(d)
  BY <1>2 DEF Imported
<1>3. CASE CheckedIn(d)
  BY <1>3 DEF CheckedIn
<1>4. CASE Submitted(d)
  BY <1>4 DEF Submitted
<1>5. CASE Returned(d)
  BY <1>5, DecisionFinds DEF Returned
<1>6. CASE ApprovedBy(d)
  BY <1>6, DecisionFinds DEF ApprovedBy
<1>7. CASE CutOver(d)
  BY <1>7 DEF CutOver
<1>8. CASE Revised(d)
  BY <1>8 DEF Revised
<1>9. CASE Retired(d)
  BY <1>9 DEF Retired
<1>10. CASE Archived(d)
  BY <1>10 DEF Archived
<1> QED
  BY <1>1, <1>2, <1>3, <1>4, <1>5, <1>6, <1>7, <1>8, <1>9, <1>10 DEF Moves


LEMMA MovesKeepCycles ==
  ASSUME Types, NEW d \in Docs, Orderly(d), Moves(d)
  PROVE  CyclesFit(d)'
<1> USE RowTypes, ConstantsAssumption
  DEF Orderly, NewestFits, CyclesFit, VersionsAgree, LatestState, SameVersions, SameSuccession,
      SameSignatures, SameCycles, RowBecomes, Decides
<1>1. CASE Created(d)
  BY <1>1 DEF Created
<1>2. CASE Imported(d)
  BY <1>2 DEF Imported
<1>3. CASE CheckedIn(d)
  BY <1>3 DEF CheckedIn
<1>4. CASE Submitted(d)
  <2>1. cycles[d] + 1 \in Cycles
    BY <1>4 DEF Submitted, Cycles
  <2> QED
    BY <1>4, <2>1 DEF Submitted
<1>5. CASE Returned(d)
  BY <1>5 DEF Returned
<1>6. CASE ApprovedBy(d)
  BY <1>6 DEF ApprovedBy
<1>7. CASE CutOver(d)
  BY <1>7 DEF CutOver
<1>8. CASE Revised(d)
  BY <1>8 DEF Revised
<1>9. CASE Retired(d)
  BY <1>9 DEF Retired
<1>10. CASE Archived(d)
  BY <1>10 DEF Archived
<1> QED
  BY <1>1, <1>2, <1>3, <1>4, <1>5, <1>6, <1>7, <1>8, <1>9, <1>10 DEF Moves

-----------------------------------------------------------------------------
(* Every step is one of these moves.                                         *)

\* The cutover, signed by somebody the duties do not exclude.
LEMMA CutoverIs ==
  ASSUME Types, NEW d \in Docs, NEW v \in Versions, NEW s \in Users \cup {System},
         Cutover(d, v, s), s \notin BarredFromRelease(d, v)
  PROVE  StepIs
<1>1. CutOver(d)
  <2>1. docState[d] = "Approved" /\ vstate[d][v] = "Approved"
    BY DEF Cutover, Releasable, LegalFrom
  <2>2. docState'[d] = "Effective" /\ eff'[d] = v
    BY DEF Cutover, Types, TypeOK
  <2>3. ASSUME NEW w \in Versions
        PROVE  /\ vstate'[d][w] = IF w = v THEN "Effective"
                                  ELSE IF vstate[d][w] = "Effective" THEN "Superseded"
                                  ELSE vstate[d][w]
               /\ supersededBy'[d][w] = IF w # v /\ vstate[d][w] = "Effective" THEN v
                                        ELSE supersededBy[d][w]
    BY DEF Cutover, PriorEffective, Types, TypeOK
  <2>4. ASSUME NEW w \in Versions
        PROVE  releasers'[d][w] = releasers[d][w] \cup (IF w = v THEN {s} ELSE {})
    BY DEF Cutover, Types, TypeOK
  <2>5. approvers'[d] = approvers[d] /\ SameVersions(d) /\ SameCycles(d)
    BY DEF Cutover, SameVersions, SameCycles, taskVars
  <2> QED
    BY <2>1, <2>2, <2>3, <2>4, <2>5 DEF CutOver
<1>2. ASSUME NEW e \in Docs \ {d} PROVE Untouched(e)
  BY DEF Cutover, Types, TypeOK, Untouched, SameVersions, SameSuccession, SameSignatures,
         SameCycles, taskVars
<1> QED
  BY <1>1, <1>2 DEF StepIs, Moves

\* A step that leaves every document row alone.
LEMMA QuietIs ==
  ASSUME UNCHANGED <<docVars, last, vstate, author, supersededBy>>,
         UNCHANGED <<approvers, releasers, taskVars>>
  PROVE  StepIs
  BY DEF StepIs, Untouched, SameVersions, SameSuccession, SameSignatures, SameCycles, docVars,
         taskVars

LEMMA DocumentStepIs ==
  ASSUME OrderInv, NEW d \in Docs, DocumentStep(d)
  PROVE  StepIs
<1> USE ConstantsAssumption DEF OrderInv
<1> DEFINE Others == \A e \in Docs \ {d} : Untouched(e)
<1>0. ASSUME Moves(d), Others PROVE StepIs
  BY <1>0 DEF StepIs
<1> HIDE DEF Others
<1>1. CASE CreateDocument(d)
  <2>1. Created(d)
    BY <1>1 DEF CreateDocument, Created, Types, TypeOK, SameVersions, SameSuccession,
         SameSignatures, SameCycles, versionVars, signVars, taskVars
  <2>2. Others
    BY <1>1 DEF Others, CreateDocument, Untouched, Types, TypeOK, SameVersions, SameSuccession,
         SameSignatures, SameCycles, versionVars, signVars, taskVars
  <2> QED
    BY <1>0, <2>1, <2>2 DEF Moves
<1>2. ASSUME NEW u \in Users, ImportBaseline(d, u) PROVE StepIs
  <2>0. 1 \in Versions
    BY DEF Versions
  <2>1. Imported(d)
    <3>1. /\ docState[d] = "Absent" /\ docState'[d] = "Effective"
          /\ eff'[d] = 1 /\ last'[d] = 1 /\ RowBecomes(d, 1, "Effective")
      BY <1>2, <2>0 DEF ImportBaseline, Types, TypeOK, RowBecomes
    <3>2. \A w \in Versions : author'[d][w] = IF w = 1 THEN u ELSE author[d][w]
      BY <1>2, <2>0 DEF ImportBaseline, Types, TypeOK
    <3>3. supersededBy'[d] = supersededBy[d] /\ SameSignatures(d) /\ SameCycles(d)
      BY <1>2 DEF ImportBaseline, SameSignatures, SameCycles, taskVars
    <3> QED
      BY <3>1, <3>2, <3>3 DEF Imported
  <2>2. Others
    BY <1>2 DEF Others, ImportBaseline, Untouched, Types, TypeOK, SameVersions, SameSuccession,
         SameSignatures, SameCycles, taskVars
  <2> QED
    BY <1>0, <2>1, <2>2 DEF Moves
<1>3. ASSUME NEW u \in Users, Checkin(d, u) PROVE StepIs
  <2>0. last[d] + 1 \in Versions
    BY <1>3 DEF Checkin, Types, TypeOK, Versions
  <2>1. CheckedIn(d)
    <3>1. /\ docState[d] \in {"Draft", "UnderRevision"} /\ docState'[d] = docState[d]
          /\ last[d] < MaxVersions /\ last'[d] = last[d] + 1
      BY <1>3 DEF Checkin, HoldsDraft, Editable, docVars, Types, TypeOK
    <3>2. RowBecomes(d, last[d] + 1, "Draft")
      BY <1>3, <2>0 DEF Checkin, Types, TypeOK, RowBecomes
    <3>3. \A w \in Versions : author'[d][w] = IF w = last[d] + 1 THEN u ELSE author[d][w]
      BY <1>3, <2>0 DEF Checkin, Types, TypeOK
    <3>4. SameSuccession(d) /\ SameSignatures(d) /\ SameCycles(d)
      BY <1>3 DEF Checkin, SameSuccession, SameSignatures, SameCycles, docVars, signVars, taskVars
    <3> QED
      BY <3>1, <3>2, <3>3, <3>4 DEF CheckedIn
  <2>2. Others
    BY <1>3 DEF Others, Checkin, Untouched, Types, TypeOK, SameVersions, SameSuccession,
         SameSignatures, SameCycles, docVars, signVars, taskVars
  <2> QED
    BY <1>0, <2>1, <2>2 DEF Moves
<1>4. CASE SubmitReview(d)
  <2>0. last[d] \in Versions /\ cycles[d] + 1 \in Cycles /\ vstate[d][last[d]] = "Draft"
    <3>1. last[d] # 0 /\ vstate[d][last[d]] = "Draft"
      BY <1>4 DEF SubmitReview, AdvanceLatest, LatestState
    <3>2. cycles[d] < MaxCycles
      BY <1>4 DEF SubmitReview, InstantiateApproval
    <3>3. last[d] \in 0..MaxVersions /\ cycles[d] \in 0..MaxCycles
      BY RowTypes
    <3> QED
      BY <3>1, <3>2, <3>3, ConstantsAssumption DEF Versions, Cycles
  <2>1. Submitted(d)
    <3>1. /\ docState[d] \in {"Draft", "UnderRevision"} /\ docState'[d] = "InReview"
          /\ RowBecomes(d, last[d], "InReview")
      BY <1>4, <2>0 DEF SubmitReview, AdvanceLatest, LegalFrom, Types, TypeOK, RowBecomes
    <3>2. cycles[d] < MaxCycles /\ cycles'[d] = cycles[d] + 1
      BY <1>4 DEF SubmitReview, InstantiateApproval, Types, TypeOK
    <3>3. ASSUME NEW k \in Cycles
          PROVE  /\ task'[d][k] = IF k = cycles[d] + 1 THEN "PENDING" ELSE task[d][k]
                 /\ submitted'[d][k] = IF k = cycles[d] + 1 THEN last[d] ELSE submitted[d][k]
      BY <1>4, <2>0 DEF SubmitReview, InstantiateApproval, Types, TypeOK
    <3>4. /\ decided'[d] = decided[d]
          /\ SameVersions(d) /\ SameSuccession(d) /\ SameSignatures(d)
      BY <1>4 DEF SubmitReview, SameVersions, SameSuccession, SameSignatures, signVars
    <3> QED
      BY <2>0, <3>1, <3>2, <3>3, <3>4 DEF Submitted
  <2>2. Others
    BY <1>4 DEF Others, SubmitReview, AdvanceLatest, InstantiateApproval, Untouched, Types, TypeOK,
         SameVersions, SameSuccession, SameSignatures, SameCycles, signVars
  <2> QED
    BY <1>0, <2>1, <2>2 DEF Moves
<1>5. ASSUME NEW v \in Versions, ArchiveVersion(d, v) PROVE StepIs
  <2>1. Archived(d)
    BY <1>5 DEF ArchiveVersion, Archivable, Archived, RowBecomes, Types, TypeOK, SameVersions,
         SameSuccession, SameSignatures, SameCycles, docVars, signVars, taskVars
  <2>2. Others
    BY <1>5 DEF Others, ArchiveVersion, Untouched, Types, TypeOK, SameVersions, SameSuccession,
         SameSignatures, SameCycles, docVars, signVars, taskVars
  <2> QED
    BY <1>0, <2>1, <2>2 DEF Moves
<1>6. ASSUME NEW v \in Versions, SweepCutover(d, v) PROVE StepIs
  <2>1. vstate[d][v] = "Approved"
    BY <1>6 DEF SweepCutover, Cutover, Releasable
  <2>2. author[d][v] \in Users /\ approvers[d][v] \subseteq Users
    BY <2>1 DEF Orderly, SignaturesFit, Types, TypeOK
  <2>3. System \notin BarredFromRelease(d, v)
    BY <2>2 DEF BarredFromRelease
  <2> QED
    BY <1>6, <2>3, CutoverIs DEF SweepCutover
<1>7. ASSUME NEW t \in Tokens,
             \/ \E u \in Users : Checkout(d, u, t)
             \/ AcquireThenCrash(d, t) \/ ReleaseAfterCommit(d, t) \/ CrashAfterCommit(d, t)
      PROVE  StepIs
  BY <1>7, QuietIs
  DEF Checkout, AcquireThenCrash, ReleaseAfterCommit, CrashAfterCommit, versionVars, signVars
<1>8. ASSUME \/ LockLapse(d) \/ BreakLock(d)
             \/ \E u \in Users : CheckinNoChange(d, u)
             \/ \E v \in Versions : SweepSkip(d, v)
      PROVE  StepIs
  BY <1>8, QuietIs DEF LockLapse, BreakLock, CheckinNoChange, SweepSkip, versionVars, signVars
<1> QED
  BY <1>1, <1>2, <1>3, <1>4, <1>5, <1>6, <1>7, <1>8 DEF DocumentStep

\* What a request may rely on when it commits, with only decisions overlapped.
Informed(q) ==
  /\ q.op \in {"approve", "request_changes"} => DecisionFits(q)
  /\ q.op \in {"start_revision", "obsolete"} => q.state = docState[q.doc] /\ q.eff = eff[q.doc]
  /\ q.op = "release" => MayRelease(q)

LEMMA FreshIsInformed ==
  ASSUME OrderInv, NEW q \in FreshRequests, Admitted(q)
  PROVE  Informed(q)
<1>1. q \in Requests
  BY FreshRequestType DEF OrderInv, Types
<1>2. /\ q.state = docState[q.doc] /\ q.eff = eff[q.doc] /\ q.latest = last[q.doc]
      /\ q.doc \in Docs /\ q.task \in 0..MaxCycles
  BY <1>1 DEF FreshRequests, Request, Requests
<1>3. ASSUME q.op \in {"approve", "request_changes"} PROVE DecisionFits(q)
  <2>1. Decidable(q) /\ (q.op = "approve" => MayApprove(q))
    BY <1>3 DEF Admitted
  <2>2. q.task \in Cycles /\ q.latest \in Versions
    <3>1. q.task # 0 /\ last[q.doc] # 0 /\ last[q.doc] \in 0..MaxVersions
      BY <1>2, <2>1 DEF Decidable, OrderInv, Types, TypeOK
    <3> QED
      BY <1>2, <3>1, ConstantsAssumption DEF Cycles, Versions
  <2>3. task[q.doc][q.task] = "PENDING"
    BY <2>1 DEF Decidable
  <2>4. q.task = cycles[q.doc]
    BY <1>2, <2>2, <2>3 DEF OrderInv, Orderly, CyclesFit
  <2>5. q.op = "approve" => author[q.doc][q.latest] # q.user
    BY <2>1, <2>2, ConstantsAssumption DEF MayApprove, Versions
  <2>6. q.task <= cycles[q.doc] /\ q.latest <= last[q.doc]
    BY <1>2, <2>2, <2>4, ConstantsAssumption DEF Cycles, Versions
  <2> QED
    BY <1>2, <1>3, <2>2, <2>5, <2>6 DEF DecisionFits
<1>4. q.op = "release" => MayRelease(q)
  BY DEF Admitted
<1> QED
  BY <1>2, <1>3, <1>4 DEF Informed

LEMMA HandleIs ==
  ASSUME OrderInv, NEW q \in Requests, Informed(q), Handle(q)
  PROVE  StepIs
<1> USE ConstantsAssumption DEF OrderInv
<1>0. q.doc \in Docs /\ q.user \in Users
  BY DEF Requests
<1> DEFINE Others == \A e \in Docs \ {q.doc} : Untouched(e)
<1>1. ASSUME Moves(q.doc), Others PROVE StepIs
  BY <1>0, <1>1 DEF StepIs
<1> HIDE DEF Others
<1>2. ASSUME NEW t \in Tokens, StartRevision(q, t) PROVE StepIs
  <2>1. docState[q.doc] = "Effective"
    BY <1>2 DEF StartRevision, Informed, LegalFrom
  <2>2. Revised(q.doc)
    BY <1>0, <1>2, <2>1 DEF StartRevision, Revised, Types, TypeOK, SameVersions, SameSuccession,
         SameSignatures, SameCycles, versionVars, signVars, taskVars
  <2>3. Others
    BY <1>0, <1>2 DEF Others, StartRevision, Untouched, Types, TypeOK, SameVersions, SameSuccession,
         SameSignatures, SameCycles, versionVars, signVars, taskVars
  <2> QED
    BY <1>1, <2>2, <2>3 DEF Moves
<1>3. CASE Obsolete(q)
  <2>1. docState[q.doc] = "Effective" /\ q.eff = eff[q.doc]
    BY <1>3 DEF Obsolete, Informed, LegalFrom
  <2>2. eff[q.doc] \in Versions
    BY <1>0, <1>3, <2>1 DEF Obsolete, Versions, Types, TypeOK
  <2>3. docState'[q.doc] = "Obsolete" /\ eff'[q.doc] = 0
    BY <1>0, <1>3 DEF Obsolete, Types, TypeOK
  <2>4. RowBecomes(q.doc, eff[q.doc], "Obsolete")
    BY <1>0, <1>3, <2>1, <2>2 DEF Obsolete, RowBecomes, Types, TypeOK
  <2>5. /\ supersededBy'[q.doc] = supersededBy[q.doc]
        /\ SameVersions(q.doc) /\ SameSignatures(q.doc) /\ SameCycles(q.doc)
    BY <1>3 DEF Obsolete, SameVersions, SameSignatures, SameCycles, signVars, taskVars
  <2>6. Retired(q.doc)
    BY <2>1, <2>2, <2>3, <2>4, <2>5 DEF Retired
  <2>7. Others
    BY <1>0, <1>3 DEF Others, Obsolete, Untouched, Types, TypeOK, SameVersions, SameSuccession,
         SameSignatures, SameCycles, signVars, taskVars
  <2> QED
    BY <1>1, <2>6, <2>7 DEF Moves
<1>4. ASSUME NEW to \in {"Approved", "Draft"}, Decidable(q), DecisionFits(q),
             RecordDecision(q, to, to), UNCHANGED <<eff, last, author, supersededBy>>,
             UNCHANGED <<releasers, cycles, submitted>>
      PROVE  Decides(q.doc, q.task, to)
  <2>1. task[q.doc][q.task] = "PENDING" /\ last[q.doc] \in Versions /\ q.task \in Cycles
    BY <1>0, <1>4 DEF Decidable, DecisionFits, Versions, Types, TypeOK
  <2>2. docState'[q.doc] = to /\ RowBecomes(q.doc, last[q.doc], to)
    BY <1>0, <1>4, <2>1 DEF RecordDecision, RowBecomes, Types, TypeOK
  <2>3. ASSUME NEW j \in Cycles
        PROVE  /\ task'[q.doc][j] = IF j = q.task THEN "DONE" ELSE task[q.doc][j]
               /\ decided'[q.doc][j] = IF j = q.task THEN last[q.doc] ELSE decided[q.doc][j]
    BY <1>0, <1>4, <2>1 DEF RecordDecision, Types, TypeOK
  <2> QED
    BY <1>4, <2>1, <2>2, <2>3 DEF Decides, SameVersions, SameSuccession
<1>5. ASSUME NEW from \in 0..MaxTime, Approve(q, from) PROVE StepIs
  <2>1. DecisionFits(q) /\ Decidable(q)
    BY <1>5 DEF Approve, Informed
  <2>2. Decides(q.doc, q.task, "Approved")
    BY <1>4, <1>5, <2>1 DEF Approve
  <2>3. /\ q.task \in Cycles /\ last[q.doc] \in Versions /\ q.latest = last[q.doc]
        /\ author[q.doc][last[q.doc]] # q.user
    BY <1>5, <2>1, <2>2 DEF Approve, Decides, DecisionFits
  <2>4. \A w \in Versions :
          approvers'[q.doc][w] = approvers[q.doc][w] \cup (IF w = last[q.doc] THEN {q.user} ELSE {})
    BY <1>0, <1>5, <2>3 DEF Approve, Types, TypeOK
  <2>5. ApprovedBy(q.doc)
    BY <1>0, <2>2, <2>3, <2>4 DEF ApprovedBy
  <2>6. Others
    BY <1>0, <1>5 DEF Others, Approve, RecordDecision, Untouched, Types, TypeOK, SameVersions,
         SameSuccession, SameSignatures, SameCycles
  <2> QED
    BY <1>1, <2>5, <2>6 DEF Moves
<1>6. CASE RequestChanges(q)
  <2>1. DecisionFits(q) /\ Decidable(q)
    BY <1>6 DEF RequestChanges, Informed
  <2>2. Decides(q.doc, q.task, "Draft")
    BY <1>4, <1>6, <2>1 DEF RequestChanges, signVars
  <2>3. q.task \in Cycles
    BY <2>1 DEF DecisionFits
  <2>4. Returned(q.doc)
    BY <1>6, <2>2, <2>3 DEF Returned, RequestChanges, signVars
  <2>5. Others
    BY <1>0, <1>6 DEF Others, RequestChanges, RecordDecision, Untouched, Types, TypeOK, SameVersions,
         SameSuccession, SameSignatures, SameCycles, signVars
  <2> QED
    BY <1>1, <2>4, <2>5 DEF Moves
<1>7. CASE Release(q)
  BY <1>0, <1>7, CutoverIs DEF Release, Informed, MayRelease
<1> QED
  BY <1>2, <1>3, <1>5, <1>6, <1>7 DEF Handle

LEMMA NextIs ==
  ASSUME OnlyDecisionsOverlap, OrderInv, [Next]_vars
  PROVE  StepIs
<1>1. CASE \E d \in Docs : DocumentStep(d)
  BY <1>1, DocumentStepIs
<1>2. CASE Serve
  <2>1. PICK q \in FreshRequests : Admitted(q) /\ Handle(q)
    BY <1>2 DEF Serve
  <2>2. q \in Requests
    BY FreshRequestType DEF OrderInv, Types
  <2> QED
    BY <2>1, <2>2, FreshIsInformed, HandleIs
<1>3. CASE Commit
  <2>1. PICK q \in inflight : Handle(q)
    BY <1>3 DEF Commit
  <2>2. q \in Requests /\ DecisionFits(q)
    BY <2>1 DEF OrderInv, Types, TypeOK
  <2>3. Informed(q)
    BY <2>2 DEF Informed, DecisionFits
  <2> QED
    BY <2>1, <2>2, <2>3, HandleIs
<1>4. CASE Load \/ Abort
  BY <1>4, QuietIs DEF Load, Abort, versionVars, signVars
<1>5. CASE SweepScan \/ SweepCrash \/ Tick
  BY <1>5, QuietIs DEF SweepScan, SweepCrash, Tick, versionVars, signVars
<1>6. CASE UNCHANGED vars
  BY <1>6, QuietIs DEF vars, versionVars, signVars
<1> QED
  BY <1>1, <1>2, <1>3, <1>4, <1>5, <1>6 DEF Next

-----------------------------------------------------------------------------
(* The invariant is inductive.                                               *)

LEMMA UntouchedKeeps ==
  ASSUME NEW d \in Docs, Orderly(d), Untouched(d)
  PROVE  Orderly(d)'
  BY DEF Orderly, VersionsAgree, NewestFits, SignaturesFit, CyclesFit, LatestState, Untouched,
         SameVersions, SameSuccession, SameSignatures, SameCycles

LEMMA StepKeepsOrder ==
  ASSUME Types, StepIs, \A d \in Docs : Orderly(d)
  PROVE  \A d \in Docs : Orderly(d)'
<1> TAKE d \in Docs
<1>1. CASE Untouched(d)
  BY <1>1, UntouchedKeeps
<1>2. CASE Moves(d)
  BY <1>2, MovesKeepVersions, MovesKeepNewest, MovesKeepSignatures, MovesKeepCycles DEF Orderly
<1> QED
  BY <1>1, <1>2 DEF StepIs

\* A step never takes versions or cycles away, never rewrites an author, and keeps the newest
\* version of a document whose task stays open.
Extends(d) ==
  /\ last[d] <= last'[d] /\ cycles[d] <= cycles'[d]
  /\ \A v \in Versions : v <= last[d] => author'[d][v] = author[d][v]
  /\ \A k \in Cycles : k <= cycles[d] /\ task'[d][k] = "PENDING" =>
       task[d][k] = "PENDING" /\ last'[d] = last[d]

LEMMA StepExtends ==
  ASSUME Types, StepIs, NEW d \in Docs, Orderly(d)
  PROVE  Extends(d)
<1> USE RowTypes, ConstantsAssumption
  DEF Extends, SameVersions, SameCycles, Cycles, Versions
<1>1. CASE Untouched(d)
  BY <1>1 DEF Untouched
<1>2. CASE Created(d) \/ Revised(d) \/ Retired(d) \/ Archived(d) \/ CutOver(d)
  BY <1>2 DEF Created, Revised, Retired, Archived, CutOver
<1>3. CASE Imported(d)
  <2>1. last[d] = 0 /\ docState[d] # "InReview"
    BY <1>3 DEF Imported, Orderly, VersionsAgree
  <2>2. \A k \in Cycles : task[d][k] # "PENDING"
    BY <2>1 DEF Orderly, CyclesFit
  <2> QED
    BY <1>3, <2>1, <2>2 DEF Imported
<1>4. CASE CheckedIn(d)
  <2>1. \A k \in Cycles : task[d][k] # "PENDING"
    BY <1>4 DEF CheckedIn, Orderly, CyclesFit
  <2> QED
    BY <1>4, <2>1 DEF CheckedIn
<1>5. CASE Submitted(d)
  BY <1>5 DEF Submitted
<1>6. CASE Returned(d) \/ ApprovedBy(d)
  BY <1>6 DEF Returned, ApprovedBy, Decides
<1> QED
  BY <1>1, <1>2, <1>3, <1>4, <1>5, <1>6 DEF StepIs, Moves

\* So a loaded decision stays fit to be committed.
LEMMA DecisionStaysFit ==
  ASSUME Types, NEW q \in Requests, DecisionFits(q), Extends(q.doc), Types'
  PROVE  DecisionFits(q)'
<1>1. /\ q.doc \in Docs
      /\ last[q.doc] \in Nat /\ last'[q.doc] \in Nat /\ cycles[q.doc] \in Nat
      /\ cycles'[q.doc] \in Nat
  BY ConstantsAssumption DEF Requests, Types, TypeOK
<1>2. q.latest \in Nat /\ q.task \in Nat
  BY ConstantsAssumption DEF Requests
<1> QED
  BY <1>1, <1>2 DEF DecisionFits, Extends

LEMMA NextKeepsOrder ==
  ASSUME OnlyDecisionsOverlap, OrderInv, [Next]_vars
  PROVE  OrderInv'
<1>1. Types'
  BY NextTypes DEF OrderInv
<1>2. StepIs
  BY NextIs
<1>3. \A d \in Docs : Orderly(d)'
  BY <1>2, StepKeepsOrder DEF OrderInv
<1>4. ASSUME NEW q \in inflight PROVE DecisionFits(q)'
  <2>1. q \in Requests /\ q.doc \in Docs
    BY DEF OrderInv, Types, TypeOK, Requests
  <2> QED
    BY <1>1, <1>2, <2>1, StepExtends, DecisionStaysFit DEF OrderInv
<1>5. CASE inflight' \subseteq inflight
  BY <1>1, <1>3, <1>4, <1>5 DEF OrderInv
<1>6. CASE Load
  <2>1. PICK q \in FreshRequests :
          q.op \in Overlapping /\ Admitted(q) /\ inflight' = inflight \cup {q}
    BY <1>6 DEF Load
  <2>2. DecisionFits(q)
    BY <2>1, FreshIsInformed DEF Informed, OnlyDecisionsOverlap
  <2>3. DecisionFits(q)'
    BY <1>6, <2>2 DEF Load, DecisionFits, versionVars, taskVars
  <2> QED
    BY <1>1, <1>3, <1>4, <2>1, <2>3 DEF OrderInv
<1>7. CASE ~Load
  <2>1. CASE \E d \in Docs : DocumentStep(d)
    BY <1>5, <2>1
    DEF DocumentStep, CreateDocument, ImportBaseline, Checkout, AcquireThenCrash, Checkin,
        CheckinNoChange, ReleaseAfterCommit, CrashAfterCommit, LockLapse, BreakLock, SubmitReview,
        ArchiveVersion, SweepCutover, SweepSkip
  <2>2. CASE Serve \/ Commit \/ Abort \/ SweepScan \/ SweepCrash \/ Tick \/ UNCHANGED vars
    BY <1>5, <2>2 DEF Serve, Commit, Abort, SweepScan, SweepCrash, Tick, vars
  <2> QED
    BY <1>7, <2>1, <2>2 DEF Next
<1> QED
  BY <1>6, <1>7

LEMMA InitOrder == Init => OrderInv
<1> SUFFICES ASSUME Init PROVE OrderInv
  OBVIOUS
<1>1. Types /\ inflight = {}
  BY InitTypes DEF Init
<1>2. ASSUME NEW d \in Docs PROVE Orderly(d)
  BY ConstantsAssumption
  DEF Init, Orderly, VersionsAgree, NewestFits, SignaturesFit, CyclesFit, LatestState, Versions
<1> QED
  BY <1>1, <1>2 DEF OrderInv

LEMMA OrderAlways ==
  ASSUME OnlyDecisionsOverlap
  PROVE  Spec => []OrderInv
  BY InitOrder, NextKeepsOrder, PTL DEF Spec

-----------------------------------------------------------------------------
(* Theorems.                                                                 *)

\* However late, twice or after a resubmission a task is decided, its cycle has one open task,
\* decides the version it was opened for, and neither the approval nor the release is signed by
\* somebody SoD-1 or SoD-2 excludes.
THEOREM ApprovalsStaySound ==
  ASSUME OnlyDecisionsOverlap
  PROVE  Spec => []ApprovalsAreSound
<1>1. OrderInv => ApprovalsAreSound
  BY DEF OrderInv, Orderly, SignaturesFit, CyclesFit, ApprovalsAreSound, OnePendingTask,
         OneInstanceOneVersion, AuthorNeverApproves, ReleaserIsIndependent
<1> QED
  BY <1>1, OrderAlways, PTL

\* A version never comes back from a state it was retired from.
LEMMA StepResurrectsNothing ==
  ASSUME OrderInv, StepIs, NEW d \in Docs, NEW v \in Versions
  PROVE  /\ vstate[d][v] = "Effective" => vstate'[d][v] \in {"Effective", "Superseded", "Obsolete"}
         /\ vstate[d][v] = "Superseded" => vstate'[d][v] \in {"Superseded", "Obsolete"}
         /\ vstate[d][v] = "Obsolete" => vstate'[d][v] = "Obsolete"
<1>0. Types /\ Orderly(d)
  BY DEF OrderInv
<1> USE RowTypes DEF RowBecomes
<1>1. CASE Untouched(d) \/ Created(d) \/ Revised(d)
  BY <1>1 DEF Untouched, Created, Revised
<1>2. CASE Imported(d) \/ CheckedIn(d)
  BY <1>0, <1>2 DEF Imported, CheckedIn, Orderly, VersionsAgree, Versions
<1>3. CASE Submitted(d)
  BY <1>3 DEF Submitted
<1>4. CASE Returned(d) \/ ApprovedBy(d)
  BY <1>0, <1>4, DecisionFinds DEF Returned, ApprovedBy, Decides
<1>5. CASE CutOver(d)
  BY <1>5 DEF CutOver
<1>6. CASE Retired(d)
  BY <1>0, <1>6 DEF Retired, Orderly, VersionsAgree
<1>7. CASE Archived(d)
  BY <1>7 DEF Archived
<1> QED
  BY <1>1, <1>2, <1>3, <1>4, <1>5, <1>6, <1>7 DEF StepIs, Moves

\* The rows of a document tell one story: the pointer names the Effective version, the document's
\* state agrees with its newest version, a superseded version was followed by a later one, and no
\* version that has governed comes back to be approved.
THEOREM DocumentsStayConsistent ==
  ASSUME OnlyDecisionsOverlap
  PROVE  Spec => DocumentIsConsistent
<1>1. OrderInv => PointerMatchesState /\ StateMatchesLatest /\ SupersededByLater
  BY DEF OrderInv, Orderly, VersionsAgree, NewestFits, PointerMatchesState, StateMatchesLatest,
         SupersededByLater
<1>2. OrderInv /\ [Next]_vars =>
        [\A d \in Docs, v \in Versions :
           /\ vstate[d][v] = "Effective" => vstate'[d][v] \in {"Effective", "Superseded", "Obsolete"}
           /\ vstate[d][v] = "Superseded" => vstate'[d][v] \in {"Superseded", "Obsolete"}
           /\ vstate[d][v] = "Obsolete" => vstate'[d][v] = "Obsolete"]_vars
  BY NextIs, StepResurrectsNothing
<1> QED
  BY <1>1, <1>2, OrderAlways, PTL DEF Spec, DocumentIsConsistent, NoResurrection

\* What one move does to the register.
LEMMA MoveOnRegister ==
  ASSUME Types, NEW d \in Docs, Orderly(d), Moves(d)
  PROVE  \/ eff'[d] = eff[d] /\ (docState'[d] = "Obsolete" <=> docState[d] = "Obsolete")
         \/ /\ eff'[d] \in Versions /\ eff'[d] > eff[d]
            /\ docState[d] # "Obsolete" /\ docState'[d] # "Obsolete"
         \/ eff[d] # 0 /\ eff'[d] = 0 /\ docState'[d] = "Obsolete"
<1> USE RowTypes DEF SameSuccession
<1>1. CASE Created(d) \/ CheckedIn(d) \/ Submitted(d) \/ Revised(d) \/ Archived(d)
  BY <1>1 DEF Created, CheckedIn, Submitted, Revised, Archived
<1>2. CASE Returned(d) \/ ApprovedBy(d)
  BY <1>2, DecisionFinds DEF Returned, ApprovedBy, Decides
<1>3. CASE Imported(d)
  <2>1. eff[d] = 0
    BY <1>3, ConstantsAssumption DEF Imported, Orderly, VersionsAgree, Versions
  <2> QED
    BY <1>3, <2>1, ConstantsAssumption DEF Imported, Versions
<1>4. CASE CutOver(d)
  <2>1. PICK v \in Versions : vstate[d][v] = "Approved" /\ eff'[d] = v
    BY <1>4 DEF CutOver
  <2>2. v = last[d] /\ eff[d] # v
    BY <2>1 DEF Orderly, VersionsAgree
  <2>3. eff[d] # 0 => eff[d] \in Versions
    BY ConstantsAssumption DEF Versions
  <2>4. eff[d] # 0 => eff[d] <= last[d]
    BY <2>3 DEF Orderly, VersionsAgree
  <2> QED
    BY <1>4, <2>1, <2>2, <2>4, ConstantsAssumption DEF CutOver, Versions
<1>5. CASE Retired(d)
  BY <1>5 DEF Retired
<1> QED
  BY <1>1, <1>2, <1>3, <1>4, <1>5 DEF Moves

\* The vault implements the register: a release or an import moves a document to a later version
\* in one step, with no instant at which nothing governs, and only a retirement, which is final,
\* leaves it ungoverned.
THEOREM VaultImplementsRegister ==
  ASSUME OnlyDecisionsOverlap
  PROVE  Spec => ImplementsRegister
<1> DEFINE retiredDocs == {d \in Docs : docState[d] = "Obsolete"}
<1>1. Init => Register!Init
  BY DEF Init, Register!Init
<1>2. ASSUME OrderInv, OrderInv', [Next]_vars
      PROVE  [Register!Next]_<<eff, retiredDocs>>
  <2>1. StepIs /\ eff \in [Docs -> 0..MaxVersions] /\ eff' \in [Docs -> 0..MaxVersions]
    BY <1>2, NextIs DEF OrderInv, Types, TypeOK
  <2>2. CASE \A e \in Docs : Untouched(e)
    <3>1. \A e \in Docs : eff'[e] = eff[e] /\ docState'[e] = docState[e]
      BY <2>2 DEF Untouched, SameSuccession
    <3> QED
      BY <2>1, <3>1
  <2>3. ASSUME NEW d \in Docs, Moves(d), \A e \in Docs \ {d} : Untouched(e)
        PROVE  [Register!Next]_<<eff, retiredDocs>>
    <3>1. \A e \in Docs \ {d} : eff'[e] = eff[e] /\ docState'[e] = docState[e]
      BY <2>3 DEF Untouched, SameSuccession
    <3>2. eff' = [eff EXCEPT ![d] = eff'[d]]
      BY <2>1, <3>1
    <3>3. \/ eff'[d] = eff[d] /\ (docState'[d] = "Obsolete" <=> docState[d] = "Obsolete")
          \/ /\ eff'[d] \in Versions /\ eff'[d] > eff[d]
             /\ docState[d] # "Obsolete" /\ docState'[d] # "Obsolete"
          \/ eff[d] # 0 /\ eff'[d] = 0 /\ docState'[d] = "Obsolete"
      BY <1>2, <2>3, MoveOnRegister DEF OrderInv
    <3>4. CASE eff'[d] = eff[d] /\ (docState'[d] = "Obsolete" <=> docState[d] = "Obsolete")
      <4>1. eff' = eff
        BY <2>1, <3>2, <3>4
      <4>2. retiredDocs' = retiredDocs
        BY <3>1, <3>4
      <4> QED
        BY <4>1, <4>2
    <3>5. CASE /\ eff'[d] \in Versions /\ eff'[d] > eff[d]
               /\ docState[d] # "Obsolete" /\ docState'[d] # "Obsolete"
      <4>1. retiredDocs' = retiredDocs /\ d \notin retiredDocs
        BY <3>1, <3>5
      <4>2. Register!Adopt(d, eff'[d])
        BY <3>2, <3>5, <4>1 DEF Register!Adopt
      <4> QED
        BY <3>5, <4>2 DEF Register!Next, Versions
    <3>6. CASE eff[d] # 0 /\ eff'[d] = 0 /\ docState'[d] = "Obsolete"
      <4>1. retiredDocs' = retiredDocs \cup {d}
        BY <3>1, <3>6
      <4>2. Register!Retire(d)
        BY <3>2, <3>6, <4>1 DEF Register!Retire
      <4> QED
        BY <4>2 DEF Register!Next
    <3> QED
      BY <3>3, <3>4, <3>5, <3>6
  <2> QED
    BY <2>1, <2>2, <2>3 DEF StepIs
<1> QED
  BY <1>1, <1>2, OrderAlways, PTL DEF Spec, ImplementsRegister, Register!Spec

-----------------------------------------------------------------------------
(* Periodic review.  Its specification admits no overlap at all, so the      *)
(* order of the vault holds in it without the hypothesis on Overlapping.     *)

ReviewPeriods == Periods \cup {DefaultPeriod}
DueDates == {t + p : t \in 0..MaxTime, p \in ReviewPeriods}
ReviewRows == [state: {"PENDING", "COMPLETED", "REJECTED"}, due: Nat, told: {0, 1}]

ReviewTypes ==
  /\ period \in [Docs -> ReviewPeriods \cup {0}]
  /\ lastReviewed \in [Docs -> 0..MaxTime]
  /\ nextDue \in [Docs -> DueDates \cup {0}]
  /\ reviews \in [Docs -> Seq(ReviewRows)]
  /\ confirmed \subseteq Docs \X Versions
  /\ DOMAIN sweeping = ReviewSweeps

\* The clock of a document: nothing before it exists, and the right date while it governs.
ClockRight(d) ==
  /\ docState[d] = "Absent" => period[d] = 0 /\ lastReviewed[d] = 0 /\ nextDue[d] = 0
  /\ docState[d] = "Effective" =>
       /\ eff[d] \in Versions /\ effFrom[d][eff[d]] # 0
       /\ nextDue[d] = NextReviewDue(period[d], lastReviewed[d], effFrom[d][eff[d]])

\* A review falls on a working day and was reported, if at all, after it.
RowFits(r) == r.due \notin RestDays /\ (r.told = 1 => r.due < now)

ReviewsFit(d) ==
  \A i \in 1..Len(reviews[d]) :
    RowFits(reviews[d][i]) /\ (reviews[d][i].state = "PENDING" => i = Len(reviews[d]))

ConfirmationsFit ==
  \A c \in confirmed : vstate[c[1]][c[2]] \in {"Effective", "Superseded", "Obsolete"}

\* What a sweep has read or written still fits the rows: nobody opened a review in the
\* meantime, and what it reports is late and not yet reported.
SweepFits(s) ==
  sweeping[s] # Idle =>
    /\ sweeping[s].phase = "read" => sweeping[s].due \in [Docs -> DueDates \cup {0}]
    /\ sweeping[s].phase = "written" =>
         \A d \in Docs :
           /\ d \in DOMAIN sweeping[s].opened =>
                /\ ~HasOpenReview(d)
                /\ sweeping[s].opened[d] \in ReviewRows /\ RowFits(sweeping[s].opened[d])
           /\ \A i \in sweeping[s].told[d] :
                i \in 1..Len(reviews[d]) /\ reviews[d][i].told = 0 /\ reviews[d][i].due < now

OneSweep == \A s, t \in ReviewSweeps : s # t => sweeping[s] = Idle \/ sweeping[t] = Idle

ReviewInv ==
  /\ OrderInv /\ inflight = {} /\ ReviewTypes
  /\ \A d \in Docs : ClockRight(d) /\ ReviewsFit(d)
  /\ ConfirmationsFit /\ OneSweep
  /\ \A s \in ReviewSweeps : SweepFits(s)

-----------------------------------------------------------------------------
(* The vault under review.                                                   *)

\* The vault of the review specification takes steps of the vault, and none is overlapped.
LEMMA ReviewedStepIs ==
  ASSUME OrderInv, inflight = {}, ReviewedVaultAction
  PROVE  Next /\ StepIs /\ inflight' = {}
<1> USE ReviewAssumption
<1>1. CASE \E d \in Docs : \/ CreateDocument(d) \/ SubmitReview(d)
                           \/ ImportBaseline(d, Owner) \/ Checkin(d, Owner)
                           \/ \E t \in Tokens : Checkout(d, Owner, t) \/ ReleaseAfterCommit(d, t)
  <2>1. PICK d \in Docs : \/ CreateDocument(d) \/ SubmitReview(d)
                          \/ ImportBaseline(d, Owner) \/ Checkin(d, Owner)
                          \/ \E t \in Tokens : Checkout(d, Owner, t) \/ ReleaseAfterCommit(d, t)
    BY <1>1
  <2>2. DocumentStep(d)
    BY <2>1 DEF DocumentStep
  <2>3. inflight' = inflight
    BY <2>1 DEF CreateDocument, SubmitReview, ImportBaseline, Checkin, Checkout, ReleaseAfterCommit
  <2> QED
    BY <2>2, <2>3, DocumentStepIs DEF Next
<1>2. CASE Serve
  <2>1. PICK q \in FreshRequests : Admitted(q) /\ Handle(q) /\ UNCHANGED inflight
    BY <1>2 DEF Serve
  <2>2. q \in Requests
    BY FreshRequestType DEF OrderInv, Types
  <2>3. StepIs
    BY <2>1, <2>2, FreshIsInformed, HandleIs
  <2> QED
    BY <1>2, <2>1, <2>3 DEF Next
<1>3. CASE Tick
  <2>1. StepIs
    BY <1>3, QuietIs DEF Tick, versionVars, signVars
  <2> QED
    BY <1>3, <2>1 DEF Next, Tick
<1> QED
  BY <1>1, <1>2, <1>3 DEF ReviewedVaultAction

LEMMA ReviewedKeepsOrder ==
  ASSUME OrderInv, inflight = {}, ReviewedVaultAction
  PROVE  OrderInv' /\ inflight' = {}
<1>1. Next /\ StepIs /\ inflight' = {}
  BY ReviewedStepIs
<1>2. Types'
  BY <1>1, NextTypes DEF OrderInv
<1>3. \A d \in Docs : Orderly(d)'
  BY <1>1, StepKeepsOrder DEF OrderInv
<1> QED
  BY <1>1, <1>2, <1>3 DEF OrderInv

\* A document starts to govern from a cutover or an import; otherwise its pointer stays.
LEMMA StartsToGovern ==
  ASSUME OrderInv, StepIs, NEW d \in Docs
  PROVE  /\ docState'[d] = "Absent" => docState[d] = "Absent"
         /\ docState'[d] = "Effective" =>
              \/ docState[d] = "Effective" /\ eff'[d] = eff[d]
              \/ docState[d] \in {"Approved", "Absent"} /\ eff'[d] \in Versions
         /\ docState'[d] = "Effective" /\ docState[d] # "Effective" => Imported(d) \/ CutOver(d)
<1>0. 1 \in Versions
  BY ConstantsAssumption DEF Versions
<1>1. CASE Untouched(d)
  BY <1>1 DEF Untouched, SameSuccession
<1>2. CASE Created(d) \/ CheckedIn(d) \/ Submitted(d) \/ Revised(d) \/ Retired(d) \/ Archived(d)
  BY <1>2 DEF Created, CheckedIn, Submitted, Revised, Retired, Archived, SameSuccession
<1>3. CASE Imported(d) \/ CutOver(d)
  BY <1>0, <1>3 DEF Imported, CutOver
<1>4. CASE Returned(d) \/ ApprovedBy(d)
  BY <1>4 DEF Returned, ApprovedBy, Decides
<1> QED
  BY <1>1, <1>2, <1>3, <1>4 DEF StepIs, Moves

\* The date a governing document took effect is set when it starts to govern, and stays.
StartIsKept(d) ==
  docState'[d] = "Effective" =>
    \/ docState[d] = "Effective" /\ effFrom'[d] = effFrom[d]
    \/ docState[d] # "Effective" /\ effFrom'[d][eff'[d]] # 0

LEMMA CutoverKeepsStart ==
  ASSUME Types, NEW d \in Docs, NEW v \in Versions, NEW s, Cutover(d, v, s), NEW e \in Docs
  PROVE  StartIsKept(e)
<1>1. docState[d] = "Approved" /\ docState'[d] = "Effective" /\ eff'[d] = v
  BY DEF Cutover, Releasable, LegalFrom, Types, TypeOK
<1>2. effFrom'[d][v] # 0
  BY ConstantsAssumption DEF Cutover, Types, TypeOK
<1>3. e # d => docState'[e] = docState[e] /\ effFrom'[e] = effFrom[e] /\ eff'[e] = eff[e]
  BY DEF Cutover, Types, TypeOK
<1>4. e # d /\ docState[e] # "Effective" => docState'[e] # "Effective"
  BY <1>3
<1> QED
  BY <1>1, <1>2, <1>3, <1>4 DEF StartIsKept

LEMMA HandleKeepsStart ==
  ASSUME Types, NEW q \in Requests, Handle(q), NEW e \in Docs
  PROVE  StartIsKept(e)
<1>0. q.doc \in Docs
  BY DEF Requests
<1>1. CASE \E t \in Tokens : StartRevision(q, t)
  BY <1>0, <1>1 DEF StartRevision, versionVars, StartIsKept, Types, TypeOK
<1>2. CASE Obsolete(q)
  BY <1>0, <1>2 DEF Obsolete, StartIsKept, Types, TypeOK
<1>3. CASE \E from \in 0..MaxTime : Approve(q, from)
  BY <1>0, <1>3 DEF Approve, RecordDecision, StartIsKept, Types, TypeOK
<1>4. CASE RequestChanges(q)
  BY <1>0, <1>4 DEF RequestChanges, RecordDecision, StartIsKept, Types, TypeOK
<1>5. CASE Release(q)
  BY <1>0, <1>5, CutoverKeepsStart DEF Release
<1> QED
  BY <1>1, <1>2, <1>3, <1>4, <1>5 DEF Handle

LEMMA ReviewedKeepsStart ==
  ASSUME OrderInv, ReviewedVaultAction, NEW e \in Docs
  PROVE  StartIsKept(e)
<1>0. Types
  BY DEF OrderInv
<1>1. CASE \E d \in Docs : CreateDocument(d)
  BY <1>0, <1>1 DEF CreateDocument, versionVars, StartIsKept, Types, TypeOK
<1>2. CASE \E d \in Docs : SubmitReview(d)
  BY <1>0, <1>2 DEF SubmitReview, AdvanceLatest, StartIsKept, Types, TypeOK
<1>3. ASSUME NEW d \in Docs, ImportBaseline(d, Owner) PROVE StartIsKept(e)
  <2>1. 1 \in Versions
    BY ConstantsAssumption DEF Versions
  <2>2. docState[d] = "Absent" /\ eff'[d] = 1 /\ effFrom'[d][1] # 0
    BY <1>0, <1>3, <2>1, ConstantsAssumption DEF ImportBaseline, Types, TypeOK
  <2>3. e # d => docState'[e] = docState[e] /\ effFrom'[e] = effFrom[e]
    BY <1>0, <1>3 DEF ImportBaseline, Types, TypeOK
  <2> QED
    BY <2>2, <2>3 DEF StartIsKept
<1>4. CASE \E d \in Docs : Checkin(d, Owner)
  BY <1>4 DEF Checkin, docVars, StartIsKept
<1>5. CASE \E d \in Docs, t \in Tokens : Checkout(d, Owner, t) \/ ReleaseAfterCommit(d, t)
  BY <1>5 DEF Checkout, ReleaseAfterCommit, docVars, versionVars, StartIsKept
<1>6. CASE Serve
  <2>1. PICK q \in FreshRequests : Handle(q)
    BY <1>6 DEF Serve
  <2>2. q \in Requests
    BY <1>0, FreshRequestType DEF Types
  <2> QED
    BY <1>0, <2>1, <2>2, HandleKeepsStart
<1>7. CASE Tick
  BY <1>7 DEF Tick, docVars, versionVars, StartIsKept
<1> QED
  BY <1>1, <1>2, <1>3, <1>4, <1>5, <1>6, <1>7 DEF ReviewedVaultAction

-----------------------------------------------------------------------------
(* The clock.                                                                *)

LEMMA NextDueType ==
  ASSUME NEW p \in ReviewPeriods \cup {0}, NEW r \in 0..MaxTime, NEW f \in 0..MaxTime
  PROVE  NextReviewDue(p, r, f) \in DueDates \cup {0}
<1>1. CASE p = 0 \/ (r = 0 /\ f = 0)
  BY <1>1 DEF NextReviewDue
<1>2. CASE p # 0 /\ ~(r = 0 /\ f = 0)
  <2>1. PICK t \in 0..MaxTime : NextReviewDue(p, r, f) = t + p
    BY <1>2 DEF NextReviewDue
  <2>2. p \in ReviewPeriods
    BY <1>2
  <2> QED
    BY <2>1, <2>2 DEF DueDates
<1> QED
  BY <1>1, <1>2

\* The date in the words of the property: the later anchor and a period.
LEMMA NextDueIsLater ==
  ASSUME NEW p \in Nat, NEW r \in Nat, NEW f \in Nat, f # 0
  PROVE  IF p = 0 THEN NextReviewDue(p, r, f) = 0
         ELSE /\ NextReviewDue(p, r, f) >= r + p /\ NextReviewDue(p, r, f) >= f + p
              /\ NextReviewDue(p, r, f) \in {r + p, f + p}
  BY DEF NextReviewDue

LEMMA EffectiveFromType ==
  ASSUME Types, NEW d \in Docs
  PROVE  EffectiveFrom(d) \in 0..MaxTime
  BY ConstantsAssumption DEF EffectiveFrom, Types, TypeOK, Versions

LEMMA VaultKeepsTypes ==
  ASSUME ReviewInv, ReviewedVaultStep
  PROVE  ReviewTypes'
<1>1. Types'
  BY ReviewedKeepsOrder DEF ReviewInv, ReviewedVaultStep, OrderInv
<1>2. ASSUME NEW d \in Docs PROVE PeriodAfter(d) \in ReviewPeriods \cup {0}
  BY DEF PeriodAfter, ReviewInv, ReviewTypes, ReviewPeriods
<1>3. ASSUME NEW d \in Docs PROVE CutoverSetsDue(d) \in DueDates \cup {0}
  <2>1. CASE docState[d] = "Approved" /\ docState'[d] = "Effective"
    <3>1. StepIs
      BY ReviewedStepIs DEF ReviewInv, ReviewedVaultStep
    <3>2. eff'[d] \in Versions
      BY <2>1, <3>1, StartsToGovern DEF ReviewInv
    <3>3. effFrom'[d][eff'[d]] \in 0..MaxTime
      BY <1>1, <3>2 DEF Types, TypeOK
    <3>4. period[d] \in ReviewPeriods \cup {0} /\ lastReviewed[d] \in 0..MaxTime
      BY DEF ReviewInv, ReviewTypes
    <3> QED
      BY <2>1, <3>3, <3>4, NextDueType DEF CutoverSetsDue
  <2>2. CASE ~(docState[d] = "Approved" /\ docState'[d] = "Effective")
    BY <2>2 DEF CutoverSetsDue, ReviewInv, ReviewTypes
  <2> QED
    BY <2>1, <2>2
<1> QED
  BY <1>2, <1>3 DEF ReviewInv, ReviewTypes, ReviewedVaultStep

LEMMA VaultKeepsClock ==
  ASSUME ReviewInv, ReviewedVaultStep, NEW d \in Docs
  PROVE  ClockRight(d)'
<1>1. StepIs
  BY ReviewedStepIs DEF ReviewInv, ReviewedVaultStep
<1>2. StartIsKept(d)
  BY ReviewedKeepsStart DEF ReviewInv, ReviewedVaultStep
<1>3. /\ docState'[d] = "Absent" => docState[d] = "Absent"
      /\ docState'[d] = "Effective" =>
           \/ docState[d] = "Effective" /\ eff'[d] = eff[d]
           \/ docState[d] \in {"Approved", "Absent"} /\ eff'[d] \in Versions
  BY <1>1, StartsToGovern DEF ReviewInv
<1>4. period'[d] = PeriodAfter(d) /\ nextDue'[d] = CutoverSetsDue(d)
      /\ lastReviewed'[d] = lastReviewed[d]
  BY DEF ReviewedVaultStep
<1>5. ClockRight(d)
  BY DEF ReviewInv
<1>6. CASE docState'[d] = "Absent"
  <2>1. PeriodAfter(d) = period[d] /\ CutoverSetsDue(d) = nextDue[d]
    BY <1>3, <1>6 DEF PeriodAfter, CutoverSetsDue
  <2> QED
    BY <1>3, <1>4, <1>5, <1>6, <2>1 DEF ClockRight
<1>7. CASE docState'[d] = "Effective"
  <2>0. PeriodAfter(d) = period[d]
    BY <1>7 DEF PeriodAfter
  <2>1. CASE docState[d] = "Effective"
    <3>1. CutoverSetsDue(d) = nextDue[d] /\ eff'[d] = eff[d] /\ effFrom'[d] = effFrom[d]
      BY <1>2, <1>3, <1>7, <2>1 DEF CutoverSetsDue, StartIsKept
    <3> QED
      BY <1>4, <1>5, <1>7, <2>0, <2>1, <3>1 DEF ClockRight
  <2>2. CASE docState[d] = "Approved"
    <3>1. eff'[d] \in Versions /\ effFrom'[d][eff'[d]] # 0
      BY <1>2, <1>3, <1>7, <2>2 DEF StartIsKept
    <3>2. nextDue'[d] = NextReviewDue(period'[d], lastReviewed'[d], effFrom'[d][eff'[d]])
      BY <1>4, <1>7, <2>0, <2>2 DEF CutoverSetsDue
    <3> QED
      BY <1>7, <3>1, <3>2 DEF ClockRight
  <2>3. CASE docState[d] = "Absent"
    <3>1. eff'[d] \in Versions /\ effFrom'[d][eff'[d]] # 0
      BY <1>2, <1>3, <1>7, <2>3 DEF StartIsKept
    <3>2. period'[d] = 0 /\ nextDue'[d] = 0
      BY <1>4, <1>5, <2>0, <2>3 DEF ClockRight, CutoverSetsDue
    <3>3. nextDue'[d] = NextReviewDue(period'[d], lastReviewed'[d], effFrom'[d][eff'[d]])
      BY <3>2 DEF NextReviewDue
    <3> QED
      BY <1>7, <3>1, <3>3 DEF ClockRight
  <2> QED
    BY <1>3, <1>7, <2>1, <2>2, <2>3
<1> QED
  BY <1>6, <1>7 DEF ClockRight

\* The clock only moves forward.
LEMMA TimePasses ==
  ASSUME Types, ReviewedVaultAction
  PROVE  now' \in Nat /\ now <= now'
<1>1. now \in Nat
  BY ConstantsAssumption DEF Types, TypeOK
<1>2. CASE Tick
  BY <1>1, <1>2 DEF Tick
<1>3. CASE ~Tick
  <2>1. now' = now
    BY <1>3
    DEF ReviewedVaultAction, CreateDocument, SubmitReview, ImportBaseline, Checkin, Checkout,
        ReleaseAfterCommit, Serve, Handle, StartRevision, Obsolete, Approve, RequestChanges,
        Release, Cutover
  <2> QED
    BY <1>1, <2>1
<1> QED
  BY <1>2, <1>3

LEMMA VaultKeepsReviews ==
  ASSUME ReviewInv, ReviewedVaultStep
  PROVE  ReviewInv'
<1>0. Types /\ UNCHANGED <<lastReviewed, reviews, confirmed, sweeping>>
  BY DEF ReviewInv, OrderInv, ReviewedVaultStep
<1>1. OrderInv' /\ inflight' = {} /\ StepIs
  BY ReviewedKeepsOrder, ReviewedStepIs DEF ReviewInv, ReviewedVaultStep
<1>2. ReviewTypes'
  BY VaultKeepsTypes
<1>3. \A d \in Docs : ClockRight(d)'
  BY VaultKeepsClock
<1>4. now \in Nat /\ now' \in Nat /\ now <= now'
  BY <1>0, TimePasses, ConstantsAssumption DEF ReviewedVaultStep, Types, TypeOK
<1>5. ASSUME NEW r \in ReviewRows, RowFits(r) PROVE RowFits(r)'
  BY <1>4, <1>5 DEF RowFits, ReviewRows
<1>6. ASSUME NEW d \in Docs PROVE ReviewsFit(d)'
  <2>1. \A i \in 1..Len(reviews[d]) : reviews[d][i] \in ReviewRows
    BY DEF ReviewInv, ReviewTypes
  <2>2. ReviewsFit(d)
    BY DEF ReviewInv
  <2> QED
    BY <1>0, <1>5, <2>1, <2>2 DEF ReviewsFit
<1>7. ConfirmationsFit'
  <2>1. \A c \in confirmed : c[1] \in Docs /\ c[2] \in Versions
    BY DEF ReviewInv, ReviewTypes
  <2> QED
    BY <1>0, <1>1, <2>1, StepResurrectsNothing DEF ConfirmationsFit, ReviewInv
<1>8. OneSweep'
  BY <1>0 DEF OneSweep, ReviewInv
<1>9. ASSUME NEW s \in ReviewSweeps PROVE SweepFits(s)'
  <2>1. SweepFits(s)
    BY DEF ReviewInv
  <2>2. ASSUME NEW d \in Docs, NEW i \in 1..Len(reviews[d]), reviews[d][i].due < now
        PROVE  reviews[d][i].due < now'
    <3>1. reviews[d][i] \in ReviewRows
      BY DEF ReviewInv, ReviewTypes
    <3>2. reviews[d][i].due \in Nat
      BY <3>1 DEF ReviewRows
    <3> QED
      BY <1>4, <2>2, <3>2
  <2> QED
    BY <1>0, <1>5, <2>1, <2>2 DEF SweepFits, HasOpenReview
<1> QED
  BY <1>1, <1>2, <1>3, <1>6, <1>7, <1>8, <1>9 DEF ReviewInv

-----------------------------------------------------------------------------
(* The edit of a period, the decision and the sweep leave the vault alone.    *)

LEMMA QuietKeepsOrder ==
  ASSUME OrderInv, inflight = {}, UNCHANGED vars
  PROVE  OrderInv' /\ inflight' = {}
<1>1. Types'
  BY NextTypes DEF OrderInv
<1>2. StepIs
  BY QuietIs DEF vars, versionVars, signVars
<1>3. \A d \in Docs : Orderly(d)'
  BY <1>2, StepKeepsOrder DEF OrderInv
<1>4. inflight' = {}
  BY DEF vars
<1> QED
  BY <1>1, <1>3, <1>4 DEF OrderInv

LEMMA QuietVault ==
  ASSUME UNCHANGED vars
  PROVE  /\ docState' = docState /\ eff' = eff /\ effFrom' = effFrom /\ vstate' = vstate
         /\ now' = now
  BY DEF vars, docVars, versionVars

LEMMA PatchKeepsReviews ==
  ASSUME ReviewInv, NEW x \in Docs, NEW p \in Periods, PatchPeriod(x, p)
  PROVE  ReviewInv'
<1>0. /\ UNCHANGED <<lastReviewed, reviews, confirmed, sweeping>>
      /\ docState' = docState /\ eff' = eff /\ effFrom' = effFrom /\ vstate' = vstate /\ now' = now
  BY QuietVault DEF PatchPeriod
<1>1. OrderInv' /\ inflight' = {}
  BY QuietKeepsOrder DEF ReviewInv, PatchPeriod
<1>2. ReviewTypes'
  <2>1. NextReviewDue(p, lastReviewed[x], EffectiveFrom(x)) \in DueDates \cup {0}
    BY NextDueType, EffectiveFromType DEF ReviewInv, OrderInv, ReviewTypes, ReviewPeriods
  <2> QED
    BY <1>0, <2>1 DEF PatchPeriod, ReviewInv, ReviewTypes, ReviewPeriods
<1>3. ASSUME NEW d \in Docs PROVE ClockRight(d)'
  <2>1. ClockRight(d)
    BY DEF ReviewInv
  <2>2. CASE d = x
    <3>1. docState[d] # "Absent" /\ period'[d] = p
          /\ nextDue'[d] = NextReviewDue(p, lastReviewed[d], EffectiveFrom(d))
      BY <2>2 DEF PatchPeriod, ReviewInv, ReviewTypes
    <3>2. eff[d] \in Versions => EffectiveFrom(d) = effFrom[d][eff[d]]
      BY DEF EffectiveFrom, Versions
    <3> QED
      BY <1>0, <2>1, <3>1, <3>2 DEF ClockRight
  <2>3. CASE d # x
    <3>1. period'[d] = period[d] /\ nextDue'[d] = nextDue[d]
      BY <2>3 DEF PatchPeriod, ReviewInv, ReviewTypes
    <3> QED
      BY <1>0, <2>1, <3>1 DEF ClockRight
  <2> QED
    BY <2>2, <2>3
<1>4. \A d \in Docs : ReviewsFit(d)'
  BY <1>0 DEF ReviewInv, ReviewsFit, RowFits
<1>5. ConfirmationsFit' /\ OneSweep'
  BY <1>0 DEF ReviewInv, ConfirmationsFit, OneSweep
<1>6. \A s \in ReviewSweeps : SweepFits(s)'
  BY <1>0 DEF ReviewInv, SweepFits, RowFits, HasOpenReview
<1> QED
  BY <1>1, <1>2, <1>3, <1>4, <1>5, <1>6 DEF ReviewInv

\* A non-empty set of naturals has a least element.
LEMMA LeastDay ==
  ASSUME NEW T, T \subseteq Nat, T # {}
  PROVE  \E x \in T : \A y \in T : x <= y
<1>1. PICK x \in T : \A y \in T : ~ (<<y, x>> \in OpToRel(<, Nat))
  BY WFMin, NatLessThanWellFounded, Zenon
<1>2. SUFFICES ASSUME NEW y \in T, y < x PROVE FALSE
  BY <1>2
<1>3. <<y, x>> \in Nat \X Nat
  OBVIOUS
<1>4. <<y, x>> \in OpToRel(<, Nat)
  BY <1>2, <1>3, Zenon DEF OpToRel
<1> QED
  BY <1>1, <1>4

\* The walk finds a working day for every date the clock can show.
LEMMA WalkFindsWorkingDay ==
  ASSUME NEW t \in DueDates
  PROVE  WorkingDay(t) \in Nat /\ WorkingDay(t) \notin RestDays
<1> USE ConstantsAssumption, ReviewAssumption
<1> DEFINE reach == {w \in t..(t + SnapDays) : w \notin RestDays}
<1>1. t \in Nat /\ reach # {}
  <2>1. PICK a \in 0..MaxTime, p \in ReviewPeriods : t = a + p
    BY DEF DueDates
  <2>2. PICK w \in (a + p)..(a + p + SnapDays) : w \notin RestDays
    BY CalendarAssumption DEF ReviewPeriods
  <2>3. a \in Nat /\ p \in Nat
    BY DEF ReviewPeriods
  <2> QED
    BY <2>1, <2>2, <2>3
<1>2. reach \subseteq Nat
  BY <1>1
<1>3. \E x \in reach : \A y \in reach : x <= y
  <2> HIDE DEF reach
  <2> QED
    BY <1>1, <1>2, LeastDay
<1>4. WorkingDay(t) = CHOOSE w \in reach : \A x \in reach : w <= x
  BY <1>1 DEF WorkingDay
<1>5. WorkingDay(t) \in reach
  <2> HIDE DEF reach
  <2> QED
    BY <1>3, <1>4
<1> QED
  BY <1>2, <1>5

\* What a step that only touches a sweep or the reviews leaves standing.
LEMMA ClockUntouched ==
  ASSUME ReviewInv, UNCHANGED <<vars, period, lastReviewed, nextDue, confirmed>>
  PROVE  OrderInv' /\ inflight' = {} /\ (\A d \in Docs : ClockRight(d)') /\ ConfirmationsFit'
<1>1. UNCHANGED vars
  OBVIOUS
<1>2. OrderInv' /\ inflight' = {}
  BY <1>1, QuietKeepsOrder DEF ReviewInv
<1> QED
  BY <1>1, <1>2, QuietVault DEF ReviewInv, ClockRight, ConfirmationsFit

\* The other deliveries are idle, so what one of them holds is all there is.
LEMMA OnlyThisSweep ==
  ASSUME ReviewInv, NEW s \in ReviewSweeps, NEW e, sweeping' = [sweeping EXCEPT ![s] = e],
         \A t \in ReviewSweeps \ {s} : sweeping[t] = Idle
  PROVE  /\ DOMAIN sweeping' = ReviewSweeps /\ sweeping'[s] = e /\ OneSweep'
         /\ \A t \in ReviewSweeps \ {s} : SweepFits(t)'
<1>1. DOMAIN sweeping = ReviewSweeps
  BY DEF ReviewInv, ReviewTypes
<1>2. \A t \in ReviewSweeps \ {s} : sweeping'[t] = Idle
  BY <1>1
<1>3. sweeping'[s] = e
  BY <1>1
<1> QED
  BY <1>1, <1>2, <1>3 DEF OneSweep, SweepFits

LEMMA ReadKeepsReviews ==
  ASSUME ReviewInv, NEW s \in ReviewSweeps, ReviewSweepRead(s)
  PROVE  ReviewInv'
<1> DEFINE found == [d \in Docs |-> IF InWindow(d) THEN nextDue[d] ELSE 0]
           mine == [phase |-> "read", due |-> found]
<1>0. UNCHANGED <<vars, period, lastReviewed, nextDue, reviews, confirmed>> /\ now' = now
  BY QuietVault DEF ReviewSweepRead
<1>1. OrderInv' /\ inflight' = {} /\ (\A d \in Docs : ClockRight(d)') /\ ConfirmationsFit'
  BY <1>0, ClockUntouched
<1>2. sweeping' = [sweeping EXCEPT ![s] = mine] /\ \A t \in ReviewSweeps \ {s} : sweeping[t] = Idle
  BY DEF ReviewSweepRead, SingleFlight
<1>3. found \in [Docs -> DueDates \cup {0}]
  BY DEF ReviewInv, ReviewTypes
<1>4. mine.phase = "read" /\ mine.due = found
  OBVIOUS
<1> HIDE DEF mine, found
<1>5. /\ DOMAIN sweeping' = ReviewSweeps /\ sweeping'[s] = mine /\ OneSweep'
      /\ \A t \in ReviewSweeps \ {s} : SweepFits(t)'
  BY <1>2, OnlyThisSweep
<1>6. SweepFits(s)'
  BY <1>3, <1>4, <1>5 DEF SweepFits
<1>7. ReviewTypes' /\ \A d \in Docs : ReviewsFit(d)'
  BY <1>0, <1>5 DEF ReviewInv, ReviewTypes, ReviewsFit, RowFits
<1> QED
  BY <1>1, <1>5, <1>6, <1>7 DEF ReviewInv

LEMMA NewReviewFits ==
  ASSUME Types, NEW t \in DueDates
  PROVE  NewReview(WorkingDay(t)) \in ReviewRows /\ RowFits(NewReview(WorkingDay(t)))
<1>1. WorkingDay(t) \in Nat /\ WorkingDay(t) \notin RestDays
  BY WalkFindsWorkingDay
<1>2. PICK w \in Nat : w = WorkingDay(t) /\ w \notin RestDays
  BY <1>1
<1>3. NewReview(w) \in ReviewRows
  BY DEF NewReview, ReviewRows
<1>4. RowFits(NewReview(w))
  BY <1>2 DEF NewReview, RowFits
<1> QED
  BY <1>2, <1>3, <1>4

LEMMA WriteKeepsReviews ==
  ASSUME ReviewInv, NEW s \in ReviewSweeps, ReviewSweepWrite(s)
  PROVE  ReviewInv'
<1> DEFINE fresh == {x \in Docs : sweeping[s].due[x] # 0 /\ NoOpenInstance(x)}
           openings == [d \in fresh |-> NewReview(WorkingDay(sweeping[s].due[d]))]
           late == [d \in Docs |-> {i \in DOMAIN reviews[d] : ToReport(reviews[d][i])}]
           mine == [phase |-> "written", opened |-> openings, told |-> late]
<1>0. UNCHANGED <<vars, period, lastReviewed, nextDue, reviews, confirmed>> /\ now' = now
  BY QuietVault DEF ReviewSweepWrite
<1>1. OrderInv' /\ inflight' = {} /\ (\A d \in Docs : ClockRight(d)') /\ ConfirmationsFit'
  BY <1>0, ClockUntouched
<1>2. sweeping' = [sweeping EXCEPT ![s] = mine] /\ \A t \in ReviewSweeps \ {s} : sweeping[t] = Idle
  BY DEF ReviewSweepWrite, ReviewInv, OneSweep
<1>3. ASSUME NEW d \in fresh
      PROVE  /\ d \in Docs /\ ~HasOpenReview(d)
             /\ openings[d] \in ReviewRows /\ RowFits(openings[d])
  <2>1. sweeping[s].due \in [Docs -> DueDates \cup {0}]
    BY DEF ReviewSweepWrite, ReviewInv, SweepFits
  <2>2. PICK t \in DueDates : t = sweeping[s].due[d]
    BY <2>1
  <2>3. openings[d] = NewReview(WorkingDay(t))
    BY <2>2
  <2>4. Types
    BY DEF ReviewInv, OrderInv
  <2> QED
    BY <2>3, <2>4, NewReviewFits DEF NoOpenInstance
<1>4. ASSUME NEW d \in Docs, NEW i \in late[d]
      PROVE  i \in 1..Len(reviews[d]) /\ reviews[d][i].told = 0 /\ reviews[d][i].due < now
  BY DEF ToReport, ReviewInv, ReviewTypes
<1>5. mine.phase = "written" /\ mine.opened = openings /\ mine.told = late /\ DOMAIN openings = fresh
  OBVIOUS
<1> HIDE DEF mine, openings, late, fresh
<1>6. /\ DOMAIN sweeping' = ReviewSweeps /\ sweeping'[s] = mine /\ OneSweep'
      /\ \A t \in ReviewSweeps \ {s} : SweepFits(t)'
  BY <1>2, OnlyThisSweep
<1>7. SweepFits(s)'
  <2>1. sweeping'[s].phase # "read"
    BY <1>5, <1>6
  <2>2. ASSUME NEW d \in Docs
        PROVE  /\ d \in DOMAIN sweeping'[s].opened =>
                    /\ ~HasOpenReview(d)'
                    /\ sweeping'[s].opened[d] \in ReviewRows
                    /\ sweeping'[s].opened[d].due \notin RestDays
                    /\ sweeping'[s].opened[d].told = 1 => sweeping'[s].opened[d].due < now'
               /\ \A i \in sweeping'[s].told[d] :
                    i \in 1..Len(reviews'[d]) /\ reviews'[d][i].told = 0 /\ reviews'[d][i].due < now'
    BY <1>0, <1>3, <1>4, <1>5, <1>6 DEF HasOpenReview, RowFits
  <2> QED
    BY <2>1, <2>2 DEF SweepFits, RowFits
<1>8. ReviewTypes' /\ \A d \in Docs : ReviewsFit(d)'
  BY <1>0, <1>6 DEF ReviewInv, ReviewTypes, ReviewsFit, RowFits
<1> QED
  BY <1>1, <1>6, <1>7, <1>8 DEF ReviewInv

\* A sweep that ends, committed or killed, leaves nothing behind.
LEMMA EndedSweepFits ==
  ASSUME ReviewInv, NEW s \in ReviewSweeps, sweeping[s] # Idle,
         sweeping' = [sweeping EXCEPT ![s] = Idle]
  PROVE  DOMAIN sweeping' = ReviewSweeps /\ OneSweep' /\ \A t \in ReviewSweeps : SweepFits(t)'
<1>1. \A t \in ReviewSweeps \ {s} : sweeping[t] = Idle
  BY DEF ReviewInv, OneSweep
<1>2. /\ DOMAIN sweeping' = ReviewSweeps /\ sweeping'[s] = Idle /\ OneSweep'
      /\ \A t \in ReviewSweeps \ {s} : SweepFits(t)'
  BY <1>1, OnlyThisSweep
<1>3. SweepFits(s)'
  BY <1>2 DEF SweepFits
<1> QED
  BY <1>2, <1>3

LEMMA CrashKeepsReviews ==
  ASSUME ReviewInv, NEW s \in ReviewSweeps, ReviewSweepCrash(s)
  PROVE  ReviewInv'
<1>0. UNCHANGED <<vars, period, lastReviewed, nextDue, reviews, confirmed>> /\ now' = now
  BY QuietVault DEF ReviewSweepCrash
<1>1. OrderInv' /\ inflight' = {} /\ (\A d \in Docs : ClockRight(d)') /\ ConfirmationsFit'
  BY <1>0, ClockUntouched
<1>2. DOMAIN sweeping' = ReviewSweeps /\ OneSweep' /\ \A t \in ReviewSweeps : SweepFits(t)'
  BY EndedSweepFits DEF ReviewSweepCrash
<1>3. ReviewTypes' /\ \A d \in Docs : ReviewsFit(d)'
  BY <1>0, <1>2 DEF ReviewInv, ReviewTypes, ReviewsFit, RowFits
<1> QED
  BY <1>1, <1>2, <1>3 DEF ReviewInv

\* A committed report is the first of its review, and comes after the review's date.
LEMMA ReportedFits ==
  ASSUME ReviewInv, NEW s \in ReviewSweeps, sweeping[s] # Idle, sweeping[s].phase = "written",
         NEW d \in Docs
  PROVE  /\ ReportedBy(s, d) \in Seq(ReviewRows) /\ Len(ReportedBy(s, d)) = Len(reviews[d])
         /\ \A i \in 1..Len(reviews[d]) : /\ RowFits(ReportedBy(s, d)[i])
                                          /\ ReportedBy(s, d)[i].state = reviews[d][i].state
<1> DEFINE n == Len(reviews[d])
           rows == ReportedBy(s, d)
<1>1. reviews[d] \in Seq(ReviewRows) /\ n \in Nat /\ DOMAIN reviews[d] = 1..n
  BY DEF ReviewInv, ReviewTypes
<1>2. ASSUME NEW i \in 1..n
      PROVE  rows[i] \in ReviewRows /\ RowFits(rows[i]) /\ rows[i].state = reviews[d][i].state
  <2>1. PICK r \in ReviewRows : r = reviews[d][i]
    BY <1>1
  <2>2. RowFits(r)
    BY <2>1 DEF ReviewInv, ReviewsFit
  <2>3. CASE i \in sweeping[s].told[d]
    <3>1. r.told = 0 /\ r.due < now
      BY <2>1, <2>3 DEF ReviewInv, SweepFits
    <3>2. rows[i] = [r EXCEPT !.told = r.told + 1]
      BY <1>1, <2>1, <2>3 DEF ReportedBy
    <3>3. PICK x : x = [state |-> r.state, due |-> r.due, told |-> 1]
      OBVIOUS
    <3>4. rows[i] = x
      BY <3>1, <3>2, <3>3 DEF ReviewRows
    <3>5. x \in ReviewRows /\ x.due = r.due /\ x.state = r.state
      BY <3>3 DEF ReviewRows
    <3> QED
      BY <2>1, <2>2, <3>1, <3>4, <3>5 DEF RowFits
  <2>4. CASE i \notin sweeping[s].told[d]
    <3>1. rows[i] = r
      BY <1>1, <2>1, <2>4 DEF ReportedBy
    <3> QED
      BY <2>1, <2>2, <3>1
  <2> QED
    BY <2>3, <2>4
<1>3. rows = [i \in 1..n |-> rows[i]]
  BY <1>1 DEF ReportedBy
<1> HIDE DEF rows
<1>4. rows \in Seq(ReviewRows) /\ Len(rows) = n
  <2>1. rows \in [1..n -> ReviewRows]
    BY <1>2, <1>3
  <2> QED
    BY <1>1, <2>1
<1> QED
  BY <1>2, <1>4 DEF rows

LEMMA CommitKeepsReviews ==
  ASSUME ReviewInv, NEW s \in ReviewSweeps, ReviewSweepCommit(s)
  PROVE  ReviewInv'
<1>0. /\ UNCHANGED <<vars, period, lastReviewed, nextDue, confirmed>> /\ now' = now
      /\ sweeping[s] # Idle /\ sweeping[s].phase = "written"
  BY QuietVault DEF ReviewSweepCommit
<1>1. OrderInv' /\ inflight' = {} /\ (\A d \in Docs : ClockRight(d)') /\ ConfirmationsFit'
  BY <1>0, ClockUntouched
<1>2. DOMAIN sweeping' = ReviewSweeps /\ OneSweep' /\ \A t \in ReviewSweeps : SweepFits(t)'
  BY EndedSweepFits DEF ReviewSweepCommit
<1>3. ASSUME NEW d \in Docs PROVE reviews'[d] \in Seq(ReviewRows) /\ ReviewsFit(d)'
  <2>1. PICK rows \in Seq(ReviewRows) : rows = ReportedBy(s, d)
    BY <1>0, ReportedFits
  <2>2. /\ Len(rows) = Len(reviews[d]) /\ Len(rows) \in Nat
        /\ \A i \in 1..Len(rows) : RowFits(rows[i]) /\ rows[i].state = reviews[d][i].state
    BY <1>0, <2>1, ReportedFits
  <2>3. ReviewsFit(d) /\ DOMAIN reviews[d] = 1..Len(reviews[d])
    BY DEF ReviewInv, ReviewTypes
  <2>4. CASE d \in DOMAIN sweeping[s].opened
    <3>1. PICK r \in ReviewRows : r = sweeping[s].opened[d] /\ RowFits(r)
      BY <1>0, <2>4 DEF ReviewInv, SweepFits
    <3>2. ~HasOpenReview(d)
      BY <1>0, <2>4 DEF ReviewInv, SweepFits
    <3>3. reviews'[d] = Append(rows, r)
      BY <2>1, <2>4, <3>1 DEF ReviewSweepCommit
    <3>4. \A i \in 1..Len(rows) : rows[i].state # "PENDING"
      BY <2>2, <2>3, <3>2 DEF HasOpenReview, Open
    <3>5. /\ reviews'[d] \in Seq(ReviewRows) /\ Len(reviews'[d]) = Len(rows) + 1
          /\ \A i \in 1..Len(rows) : reviews'[d][i] = rows[i]
          /\ reviews'[d][Len(rows) + 1] = r
      BY <3>3
    <3>6. ASSUME NEW i \in 1..Len(rows) + 1
          PROVE  /\ reviews'[d][i].due \notin RestDays
                 /\ reviews'[d][i].told = 1 => reviews'[d][i].due < now
                 /\ reviews'[d][i].state = "PENDING" => i = Len(rows) + 1
      <4>1. CASE i = Len(rows) + 1
        BY <3>1, <3>5, <4>1 DEF RowFits
      <4>2. CASE i \in 1..Len(rows)
        BY <2>2, <3>4, <3>5, <4>2 DEF RowFits
      <4> QED
        BY <2>2, <4>1, <4>2
    <3> QED
      BY <1>0, <3>5, <3>6 DEF ReviewsFit, RowFits
  <2>5. CASE d \notin DOMAIN sweeping[s].opened
    <3>1. reviews'[d] = rows
      BY <2>1, <2>5 DEF ReviewSweepCommit
    <3> QED
      BY <1>0, <2>2, <2>3, <3>1 DEF ReviewsFit, RowFits
  <2> QED
    BY <2>4, <2>5
<1>4. ReviewTypes'
  <2>1. reviews' = [d \in Docs |-> reviews'[d]]
    BY DEF ReviewSweepCommit
  <2>2. reviews' \in [Docs -> Seq(ReviewRows)]
    BY <1>3, <2>1
  <2>3. UNCHANGED <<period, lastReviewed, nextDue, confirmed>>
    BY <1>0
  <2> QED
    BY <1>2, <2>2, <2>3 DEF ReviewInv, ReviewTypes
<1> QED
  BY <1>1, <1>2, <1>3, <1>4 DEF ReviewInv

\* A decision closes the row it decides and changes no other, and no date or report.
LEMMA DecisionCloses ==
  ASSUME ReviewInv, NEW x \in Docs, NEW k \in 1..MaxReviews, NEW o, DecideReview(x, k, o),
         NEW d \in Docs
  PROVE  /\ reviews'[d] \in Seq(ReviewRows) /\ Len(reviews'[d]) = Len(reviews[d])
         /\ \A i \in 1..Len(reviews[d]) :
              /\ reviews'[d][i].due = reviews[d][i].due /\ reviews'[d][i].told = reviews[d][i].told
              /\ reviews'[d][i].state = "PENDING" => reviews[d][i].state = "PENDING"
<1> DEFINE n == Len(reviews[d])
           to == IF o = "complete" THEN "COMPLETED" ELSE "REJECTED"
<1>1. reviews[d] \in Seq(ReviewRows) /\ n \in Nat /\ DOMAIN reviews[d] = 1..n
  BY DEF ReviewInv, ReviewTypes
<1>2. CASE d # x
  <2>1. reviews'[d] = reviews[d]
    BY <1>2 DEF DecideReview, ReviewInv, ReviewTypes
  <2> QED
    BY <1>1, <2>1
<1>3. CASE d = x
  <2>0. k \in 1..n
    BY <1>1, <1>3 DEF DecideReview
  <2>1. reviews'[d] = [reviews[d] EXCEPT ![k] = [reviews[d][k] EXCEPT !.state = to]]
    BY <1>3 DEF DecideReview, ReviewInv, ReviewTypes
  <2>2. PICK r \in ReviewRows : r = reviews[d][k]
    BY <1>1, <2>0
  <2>3. PICK y : y = [state |-> to, due |-> r.due, told |-> r.told]
    OBVIOUS
  <2>4. reviews'[d] = [reviews[d] EXCEPT ![k] = y]
    BY <2>1, <2>2, <2>3 DEF ReviewRows
  <2>5. y \in ReviewRows /\ y.due = r.due /\ y.told = r.told /\ y.state # "PENDING"
    BY <2>3 DEF ReviewRows
  <2>6. /\ reviews'[d] \in Seq(ReviewRows) /\ Len(reviews'[d]) = n
        /\ \A i \in 1..n : reviews'[d][i] = IF i = k THEN y ELSE reviews[d][i]
    BY <1>1, <2>0, <2>4, <2>5
  <2> QED
    BY <2>2, <2>5, <2>6
<1> QED
  BY <1>2, <1>3

LEMMA DecideKeepsReviews ==
  ASSUME ReviewInv, NEW x \in Docs, NEW k \in 1..MaxReviews,
         NEW o \in {"complete", "changes_requested"}, DecideReview(x, k, o)
  PROVE  ReviewInv'
<1>0. /\ UNCHANGED <<vars, period, sweeping>>
      /\ docState' = docState /\ eff' = eff /\ effFrom' = effFrom /\ vstate' = vstate /\ now' = now
  BY QuietVault DEF DecideReview
<1>1. OrderInv' /\ inflight' = {}
  BY QuietKeepsOrder DEF ReviewInv, DecideReview
<1>2. Types /\ now \in 1..MaxTime /\ EffectiveFrom(x) \in 0..MaxTime
  BY EffectiveFromType DEF ReviewInv, OrderInv, Types, TypeOK
<1>3. ReviewTypes' /\ ConfirmationsFit'
  <2>1. reviews' \in [Docs -> Seq(ReviewRows)]
    <3>1. \A d \in Docs : reviews'[d] \in Seq(ReviewRows)
      BY DecisionCloses
    <3>2. reviews' = [d \in Docs |-> reviews'[d]]
      BY DEF DecideReview, ReviewInv, ReviewTypes
    <3> QED
      BY <3>1, <3>2
  <2>2. CASE o = "complete"
    <3>1. eff[x] \in Versions /\ vstate[x][eff[x]] = "Effective"
      <4>1. eff[x] \in Versions
        BY <1>2, <2>2 DEF DecideReview, Types, TypeOK, Versions
      <4> QED
        BY <4>1 DEF ReviewInv, OrderInv, Orderly, VersionsAgree
    <3>2. confirmed' = confirmed \cup {<<x, eff[x]>>}
      BY <2>2 DEF DecideReview
    <3>3. ClockReset(x) \in DueDates \cup {0}
      BY <1>2, NextDueType, ConstantsAssumption DEF ClockReset, ReviewInv, ReviewTypes
    <3>4. /\ lastReviewed' \in [Docs -> 0..MaxTime] /\ nextDue' \in [Docs -> DueDates \cup {0}]
      <4>1. /\ lastReviewed' = [lastReviewed EXCEPT ![x] = now]
            /\ nextDue' = [nextDue EXCEPT ![x] = ClockReset(x)]
        BY <2>2 DEF DecideReview
      <4>2. now \in 0..MaxTime
        BY <1>2, ConstantsAssumption
      <4>3. /\ lastReviewed \in [Docs -> 0..MaxTime] /\ nextDue \in [Docs -> DueDates \cup {0}]
        BY DEF ReviewInv, ReviewTypes
      <4> QED
        BY <3>3, <4>1, <4>2, <4>3
    <3>5. ReviewTypes'
      BY <1>0, <2>1, <3>1, <3>2, <3>4 DEF ReviewInv, ReviewTypes
    <3>6. ConfirmationsFit'
      BY <1>0, <3>1, <3>2 DEF ReviewInv, ConfirmationsFit
    <3> QED
      BY <3>5, <3>6
  <2>3. CASE o # "complete"
    <3>1. UNCHANGED <<confirmed, lastReviewed, nextDue>>
      BY <2>3 DEF DecideReview
    <3> QED
      BY <1>0, <2>1, <3>1 DEF ReviewInv, ReviewTypes, ConfirmationsFit
  <2> QED
    BY <2>2, <2>3
<1>4. ASSUME NEW d \in Docs PROVE ClockRight(d)'
  <2>1. ClockRight(d)
    BY DEF ReviewInv
  <2>2. CASE o = "complete" /\ d = x
    <3>1. lastReviewed'[d] = now /\ nextDue'[d] = ClockReset(d) /\ eff[d] # 0
      BY <2>2 DEF DecideReview, ReviewInv, ReviewTypes
    <3>2. docState[d] # "Absent"
      <4>1. eff[d] \in Versions /\ eff[d] > 0
        <5>1. PICK v \in 0..MaxVersions : v = eff[d]
          BY <1>2, RowTypes
        <5> QED
          BY <3>1, <5>1, ConstantsAssumption DEF Versions
      <4>2. VersionsAgree(d)
        BY DEF ReviewInv, OrderInv, Orderly
      <4> QED
        BY <4>1, <4>2 DEF VersionsAgree
    <3>3. ClockReset(d) = NextReviewDue(period[d], now, effFrom[d][eff[d]])
      BY <3>1 DEF ClockReset, EffectiveFrom
    <3> QED
      BY <1>0, <2>1, <3>1, <3>2, <3>3 DEF ClockRight
  <2>3. CASE ~(o = "complete" /\ d = x)
    <3>1. lastReviewed'[d] = lastReviewed[d] /\ nextDue'[d] = nextDue[d]
      BY <2>3 DEF DecideReview, ReviewInv, ReviewTypes
    <3> QED
      BY <1>0, <2>1, <3>1 DEF ClockRight
  <2> QED
    BY <2>2, <2>3
<1>5. ASSUME NEW d \in Docs PROVE ReviewsFit(d)'
  <2>1. ReviewsFit(d)
    BY DEF ReviewInv
  <2> QED
    BY <1>0, <2>1, DecisionCloses DEF ReviewsFit, RowFits
<1>6. OneSweep'
  BY <1>0 DEF ReviewInv, OneSweep
<1>7. ASSUME NEW s \in ReviewSweeps PROVE SweepFits(s)'
  <2>1. SweepFits(s)
    BY DEF ReviewInv
  <2>2. ASSUME NEW d \in Docs, ~HasOpenReview(d) PROVE ~HasOpenReview(d)'
    <3>1. /\ DOMAIN reviews[d] = 1..Len(reviews[d]) /\ DOMAIN reviews'[d] = 1..Len(reviews'[d])
      BY DecisionCloses DEF ReviewInv, ReviewTypes
    <3> QED
      BY <2>2, <3>1, DecisionCloses DEF HasOpenReview, Open
  <2>3. ASSUME NEW d \in Docs
        PROVE  /\ Len(reviews'[d]) = Len(reviews[d])
               /\ \A i \in 1..Len(reviews[d]) : /\ reviews'[d][i].due = reviews[d][i].due
                                                /\ reviews'[d][i].told = reviews[d][i].told
    BY DecisionCloses
  <2> QED
    BY <1>0, <2>1, <2>2, <2>3 DEF SweepFits, RowFits
<1> QED
  BY <1>1, <1>3, <1>4, <1>5, <1>6, <1>7 DEF ReviewInv

LEMMA InitReviews == Init /\ ReviewInit => ReviewInv
<1> SUFFICES ASSUME Init, ReviewInit PROVE ReviewInv
  OBVIOUS
<1>1. OrderInv /\ inflight = {}
  BY InitOrder DEF Init
<1>2. ReviewTypes
  <2>1. << >> \in Seq(ReviewRows)
    OBVIOUS
  <2> QED
    BY <2>1, ConstantsAssumption DEF ReviewInit, ReviewTypes
<1>3. ASSUME NEW d \in Docs PROVE ClockRight(d) /\ ReviewsFit(d)
  BY DEF Init, ReviewInit, ClockRight, ReviewsFit
<1>4. ConfirmationsFit /\ OneSweep /\ \A s \in ReviewSweeps : SweepFits(s)
  BY DEF ReviewInit, ConfirmationsFit, OneSweep, SweepFits
<1> QED
  BY <1>1, <1>2, <1>3, <1>4 DEF ReviewInv

LEMMA NextKeepsReviews ==
  ASSUME ReviewInv, [ReviewNext]_<<vars, reviewVars>>
  PROVE  ReviewInv'
<1>1. CASE ReviewNext
  BY <1>1, VaultKeepsReviews, PatchKeepsReviews, ReadKeepsReviews, WriteKeepsReviews,
     CommitKeepsReviews, CrashKeepsReviews, DecideKeepsReviews DEF ReviewNext
<1>2. CASE UNCHANGED <<vars, reviewVars>>
  <2>1. UNCHANGED <<vars, period, lastReviewed, nextDue, reviews, confirmed, sweeping>> /\ now' = now
    BY <1>2, QuietVault DEF reviewVars
  <2>2. OrderInv' /\ inflight' = {} /\ (\A d \in Docs : ClockRight(d)') /\ ConfirmationsFit'
    BY <2>1, ClockUntouched
  <2>3. ReviewTypes' /\ (\A d \in Docs : ReviewsFit(d)') /\ OneSweep'
    BY <2>1 DEF ReviewInv, ReviewTypes, ReviewsFit, RowFits, OneSweep
  <2>4. \A s \in ReviewSweeps : SweepFits(s)'
    BY <2>1 DEF ReviewInv, SweepFits, RowFits, HasOpenReview
  <2> QED
    BY <2>2, <2>3, <2>4 DEF ReviewInv
<1> QED
  BY <1>1, <1>2

\* Through releases, edits of the period, decisions and redelivered, killed or overtaken sweeps,
\* in any order: the stored date of an Effective document is one period after the later of its
\* release and its last review; a document has one open review, due on a working day and reported
\* overdue at most once; and a confirmation names a version that governed.
THEOREM ReviewsStaySound == ReviewSpec => []ReviewsAreSound
<1>1. ReviewInv => ReviewsAreSound
  <2> SUFFICES ASSUME ReviewInv PROVE ReviewsAreSound
    OBVIOUS
  <2>0. now \in Nat /\ Types
    BY ConstantsAssumption DEF ReviewInv, OrderInv, Types, TypeOK
  <2>1. ASSUME NEW d \in Docs, docState[d] = "Effective"
        PROVE  /\ period[d] \in Nat /\ lastReviewed[d] \in Nat /\ EffectiveFrom(d) \in Nat
               /\ EffectiveFrom(d) # 0
               /\ nextDue[d] = NextReviewDue(period[d], lastReviewed[d], EffectiveFrom(d))
    <3>1. period[d] \in Nat /\ lastReviewed[d] \in Nat
      <4>1. period[d] \in ReviewPeriods \cup {0} /\ lastReviewed[d] \in 0..MaxTime
        BY DEF ReviewInv, ReviewTypes
      <4>2. ReviewPeriods \cup {0} \subseteq Nat
        BY ReviewAssumption DEF ReviewPeriods
      <4>3. 0..MaxTime \subseteq Nat
        BY ConstantsAssumption
      <4> QED
        BY <4>1, <4>2, <4>3, Zenon
    <3>2. EffectiveFrom(d) \in Nat
      BY <2>0, EffectiveFromType, ConstantsAssumption
    <3>3. EffectiveFrom(d) = effFrom[d][eff[d]] /\ EffectiveFrom(d) # 0
      BY <2>1 DEF ReviewInv, ClockRight, EffectiveFrom, Versions
    <3> QED
      BY <2>1, <3>1, <3>2, <3>3 DEF ReviewInv, ClockRight
  <2>2. DueDateIsRight
    BY <2>1, NextDueIsLater DEF DueDateIsRight
  <2>3. OneReviewPerCycle
    <3>1. ASSUME NEW d \in Docs, NEW i \in DOMAIN reviews[d]
          PROVE  i \in 1..Len(reviews[d]) /\ reviews[d][i].told \in {0, 1}
      <4>1. i \in 1..Len(reviews[d]) /\ reviews[d][i] \in ReviewRows
        BY DEF ReviewInv, ReviewTypes
      <4> QED
        BY <4>1 DEF ReviewRows
    <3> QED
      BY <3>1 DEF ReviewInv, ReviewsFit, RowFits, OneReviewPerCycle, Open
  <2>4. ConfirmedGoverned
    <3>1. ASSUME NEW d \in Docs, docState[d] = "Effective", period[d] # 0, lastReviewed[d] = now
          PROVE  nextDue[d] > now
      <4>1. nextDue[d] >= now + period[d] /\ nextDue[d] \in Nat /\ period[d] \in Nat
        BY <2>1, <3>1, NextDueIsLater DEF NextReviewDue
      <4> QED
        BY <2>0, <3>1, <4>1
    <3> QED
      BY <3>1 DEF ReviewInv, ConfirmationsFit, ConfirmedGoverned
  <2> QED
    BY <2>2, <2>3, <2>4 DEF ReviewsAreSound
<1> QED
  BY <1>1, InitReviews, NextKeepsReviews, PTL DEF ReviewSpec

-----------------------------------------------------------------------------
(* Change requests and the leadership gate on top of the vault.              *)

Decided == {"Approved", "Effective", "Superseded", "Obsolete"}

\* What the vault remembers of approvals and releases beyond OrderInv: an Approved version is
\* signed, a retired document has none, and one that nothing governs was never released.
ReleasesFit(d) ==
  /\ \A v \in Versions : vstate[d][v] = "Approved" => approvers[d][v] # {}
  /\ docState[d] = "Obsolete" => \A v \in Versions : vstate[d][v] # "Approved"
  /\ eff[d] = 0 /\ docState[d] # "Obsolete" => \A v \in Versions : releasers[d][v] = {}

ChangeRows ==
  [state: {"Absent", "Approved", "Implemented", "Closed"}, type: ChangeTypes,
   doc: Docs \cup {NoDoc}, from: GoLive \cup {0}, version: 0..MaxVersions]

\* The version a request claimed: decided, signed, dated, and released once it is no longer
\* Approved; nothing older was released if the request is to create the document.
ResultFits(c, d, v) ==
  /\ d \in Docs /\ v \in Versions /\ claimedBy[d][v] = c
  /\ vstate[d][v] \in Decided /\ approvers[d][v] # {} /\ effFrom[d][v] # 0
  /\ vstate[d][v] # "Approved" => releasers[d][v] # {}
  /\ change[c].type = "CREATE" => \A w \in Versions : w < v => releasers[d][w] = {}

ChangeFits(c) ==
  /\ change[c].state # "Absent" /\ change[c].type # "CREATE" => change[c].doc \in Docs
  /\ Scheduled(c) => ResultFits(c, change[c].doc, change[c].version)
  /\ change[c].state = "Closed" /\ change[c].type = "RETIRE" => docState[change[c].doc] = "Obsolete"
  /\ change[c].state = "Closed" /\ change[c].type # "RETIRE" => ResultState(c) # "Approved"

ClaimFits(d, v) ==
  claimedBy[d][v] # NoChange =>
    /\ claimedBy[d][v] \in Changes /\ Scheduled(claimedBy[d][v])
    /\ change[claimedBy[d][v]].doc = d /\ change[claimedBy[d][v]].version = v

\* An open authorization is for a version Top Management has not signed.
AuthorizationFits(d) ==
  \/ authorization[d] = NoAuthorization
  \/ authorization[d].version \in Versions /\ verified[d][authorization[d].version] = 0

ChangeTypesFit ==
  /\ change \in [Changes -> ChangeRows]
  /\ DOMAIN claimedBy = Docs /\ \A d \in Docs : DOMAIN claimedBy[d] = Versions
  /\ gateOn \in BOOLEAN /\ DOMAIN authorization = Docs
  /\ verified \in [Docs -> [Versions -> {0, 1}]]

ChangeInv ==
  /\ OrderInv /\ inflight = {} /\ ChangeTypesFit
  /\ \A d \in Docs : ReleasesFit(d) /\ AuthorizationFits(d)
  /\ \A c \in Changes : ChangeFits(c)
  /\ \A d \in Docs, v \in Versions : ClaimFits(d, v)

-----------------------------------------------------------------------------
(* The vault under the requests.                                             *)

LEMMA VaultActionIs ==
  ASSUME OrderInv, inflight = {}, VaultAction
  PROVE  Next /\ StepIs /\ inflight' = {}
<1> USE ChangesAssumption
<1>1. ASSUME NEW d \in Docs, \/ CreateDocument(d) \/ SubmitReview(d)
                             \/ \E u \in Writers : ImportBaseline(d, u) \/ Checkin(d, u)
                             \/ \E u \in Writers, t \in Tokens : Checkout(d, u, t)
                             \/ \E t \in Tokens : ReleaseAfterCommit(d, t)
                             \/ \E v \in Versions : SweepCutover(d, v) \/ SweepSkip(d, v)
      PROVE  Next /\ StepIs /\ inflight' = {}
  <2>1. DocumentStep(d)
    BY <1>1 DEF DocumentStep
  <2>2. inflight' = inflight
    BY <1>1 DEF CreateDocument, SubmitReview, ImportBaseline, Checkin, Checkout, ReleaseAfterCommit,
                SweepCutover, SweepSkip
  <2> QED
    BY <2>1, <2>2, DocumentStepIs DEF Next
<1>2. CASE Serve
  <2>1. PICK q \in FreshRequests : Admitted(q) /\ Handle(q) /\ UNCHANGED inflight
    BY <1>2 DEF Serve
  <2>2. q \in Requests
    BY FreshRequestType DEF OrderInv, Types
  <2>3. StepIs
    BY <2>1, <2>2, FreshIsInformed, HandleIs
  <2> QED
    BY <1>2, <2>1, <2>3 DEF Next
<1>3. CASE SweepScan \/ Tick
  <2>1. StepIs
    BY <1>3, QuietIs DEF Tick, SweepScan, versionVars, signVars
  <2> QED
    BY <1>3, <2>1 DEF Next, Tick, SweepScan
<1> QED
  BY <1>1, <1>2, <1>3 DEF VaultAction

LEMMA StepKeepsVault ==
  ASSUME OrderInv, inflight = {}, Types', StepIs, inflight' = {}
  PROVE  OrderInv'
<1>1. \A d \in Docs : Orderly(d)'
  BY StepKeepsOrder DEF OrderInv
<1> QED
  BY <1>1 DEF OrderInv

\* What a step does to a version that was decided, and to a document that was retired.
VersionKept(d) ==
  /\ docState[d] = "Obsolete" => docState'[d] = "Obsolete"
  /\ \A v \in Versions : vstate[d][v] \in Decided =>
       /\ vstate'[d][v] \in Decided
       /\ vstate'[d][v] = "Approved" => vstate[d][v] = "Approved"
       /\ vstate[d][v] = "Approved" /\ vstate'[d][v] # "Approved" => releasers'[d][v] # {}
       /\ approvers[d][v] # {} => approvers'[d][v] # {}
       /\ releasers[d][v] # {} => releasers'[d][v] # {}
       /\ \A w \in Versions : w < v => releasers'[d][w] = releasers[d][w]

LEMMA StepKeepsVersions ==
  ASSUME OrderInv, StepIs, NEW d \in Docs
  PROVE  VersionKept(d)
<1>0. Orderly(d) /\ Types
  BY DEF OrderInv
<1>1. CASE Untouched(d) \/ Created(d) \/ Revised(d)
  BY <1>1 DEF Untouched, Created, Revised, SameSignatures, VersionKept
<1>2. CASE Imported(d)
  <2>1. \A v \in Versions : vstate[d][v] = "Absent"
    BY RowTypes, <1>0, <1>2 DEF Imported, Orderly, VersionsAgree
  <2> QED
    BY <1>2, <2>1 DEF Imported, VersionKept, Decided
<1>3. CASE CheckedIn(d)
  <2>1. last[d] + 1 \in Versions /\ vstate[d][last[d] + 1] = "Absent"
    BY RowTypes, <1>0, <1>3, ConstantsAssumption DEF CheckedIn, Orderly, VersionsAgree, Versions
  <2> QED
    BY <1>3, <2>1 DEF CheckedIn, VersionKept, RowBecomes, SameSignatures, Decided
<1>4. CASE Submitted(d)
  BY <1>4 DEF Submitted, VersionKept, RowBecomes, SameSignatures, Decided
<1>5. CASE Returned(d) \/ ApprovedBy(d)
  <2>1. docState[d] = "InReview" /\ last[d] \in Versions /\ vstate[d][last[d]] = "InReview"
    BY RowTypes, <1>0, <1>5, DecisionFinds DEF Returned, ApprovedBy, Decides
  <2>2. \A v \in Versions : v # last[d] => vstate'[d][v] = vstate[d][v]
    BY <1>5 DEF Returned, ApprovedBy, Decides, RowBecomes
  <2>3. releasers'[d] = releasers[d]
    BY <1>5 DEF Returned, ApprovedBy, Decides
  <2>4. \A v \in Versions : v # last[d] => approvers'[d][v] = approvers[d][v]
    <3>1. CASE Returned(d)
      BY <3>1 DEF Returned
    <3>2. CASE ApprovedBy(d)
      BY <3>2 DEF ApprovedBy
    <3> QED
      BY <1>5, <3>1, <3>2
  <2> QED
    BY <2>1, <2>2, <2>3, <2>4 DEF VersionKept, Decided
<1>6. CASE CutOver(d)
  <2>1. PICK n \in Versions, s \in Users \cup {System} :
          /\ docState[d] = "Approved" /\ vstate[d][n] = "Approved"
          /\ \A w \in Versions :
               /\ vstate'[d][w] = IF w = n THEN "Effective"
                                  ELSE IF vstate[d][w] = "Effective" THEN "Superseded"
                                  ELSE vstate[d][w]
               /\ releasers'[d][w] = releasers[d][w] \cup (IF w = n THEN {s} ELSE {})
          /\ approvers'[d] = approvers[d]
    BY <1>6 DEF CutOver
  <2>2. n = last[d] /\ \A v \in Versions : vstate[d][v] \in Decided => v <= n
    BY RowTypes, <1>0, <2>1 DEF Orderly, VersionsAgree, Decided, Versions
  <2>3. \A w \in Versions : w # n => releasers'[d][w] = releasers[d][w]
    BY <2>1
  <2>4. \A v, w \in Versions : vstate[d][v] \in Decided /\ w < v => w # n
    BY <2>2, ConstantsAssumption DEF Versions
  <2> QED
    BY <2>1, <2>3, <2>4 DEF VersionKept, Decided
<1>7. CASE Retired(d)
  <2>1. vstate[d][eff[d]] = "Effective"
    BY RowTypes, <1>0, <1>7 DEF Retired, Orderly, VersionsAgree
  <2> QED
    BY <1>7, <2>1 DEF Retired, VersionKept, RowBecomes, SameSignatures, Decided
<1>8. CASE Archived(d)
  BY <1>8 DEF Archived, VersionKept, RowBecomes, SameSignatures, Decided
<1> QED
  BY <1>1, <1>2, <1>3, <1>4, <1>5, <1>6, <1>7, <1>8 DEF StepIs, Moves

LEMMA StepKeepsReleases ==
  ASSUME OrderInv, StepIs, NEW d \in Docs, ReleasesFit(d)
  PROVE  ReleasesFit(d)'
<1>0. Orderly(d) /\ Types
  BY DEF OrderInv
<1>1. CASE Untouched(d)
  BY <1>1 DEF Untouched, SameSignatures, SameSuccession, ReleasesFit
<1>2. CASE Created(d) \/ Revised(d) \/ Archived(d)
  BY <1>2 DEF Created, Revised, Archived, SameSignatures, SameSuccession, ReleasesFit, RowBecomes
<1>3. CASE Imported(d)
  <2>1. \A v \in Versions : vstate'[d][v] # "Approved"
    BY RowTypes, <1>0, <1>3 DEF Imported, Orderly, VersionsAgree, RowBecomes
  <2> QED
    BY <1>3, <2>1 DEF Imported, ReleasesFit
<1>4. CASE CheckedIn(d) \/ Submitted(d)
  BY <1>4 DEF CheckedIn, Submitted, SameSignatures, SameSuccession, ReleasesFit, RowBecomes
<1>5. CASE Returned(d) \/ ApprovedBy(d)
  <2>1. docState[d] = "InReview" /\ last[d] \in Versions /\ vstate[d][last[d]] = "InReview"
    BY RowTypes, <1>0, <1>5, DecisionFinds DEF Returned, ApprovedBy, Decides
  <2>2. releasers'[d] = releasers[d] /\ eff'[d] = eff[d] /\ docState'[d] \in {"Draft", "Approved"}
    BY <1>5 DEF Returned, ApprovedBy, Decides, SameSuccession
  <2>3. \A v \in Versions : vstate'[d][v] = "Approved" => approvers'[d][v] # {}
    BY <1>5, <2>1, SMTT(20) DEF Returned, ApprovedBy, Decides, RowBecomes, ReleasesFit
  <2> QED
    BY <2>1, <2>2, <2>3 DEF ReleasesFit
<1>6. CASE CutOver(d)
  <2>1. /\ docState'[d] = "Effective" /\ eff'[d] \in Versions /\ approvers'[d] = approvers[d]
        /\ \A w \in Versions : vstate'[d][w] = "Approved" => vstate[d][w] = "Approved"
    BY <1>6 DEF CutOver
  <2> QED
    BY RowTypes, <1>0, <2>1 DEF ReleasesFit
<1>7. CASE Retired(d)
  <2>1. LatestState(d) = "Effective" /\ \A v \in Versions : vstate[d][v] # "Approved"
    BY RowTypes, <1>0, <1>7 DEF Retired, Orderly, NewestFits, VersionsAgree, LatestState
  <2> QED
    BY <1>7, <2>1 DEF Retired, ReleasesFit, RowBecomes
<1> QED
  BY <1>1, <1>2, <1>3, <1>4, <1>5, <1>6, <1>7 DEF StepIs, Moves

\* The date of a decided version stays set.
DatesKept(d) ==
  \A v \in Versions : vstate[d][v] \in Decided /\ effFrom[d][v] # 0 => effFrom'[d][v] # 0

LEMMA CutoverKeepsDates ==
  ASSUME Types, NEW d \in Docs, NEW v \in Versions, NEW s, Cutover(d, v, s), NEW e \in Docs
  PROVE  DatesKept(e)
<1>1. effFrom' = [effFrom EXCEPT ![d][v] = IF @ = 0 THEN now ELSE @]
  BY DEF Cutover
<1>2. now # 0
  BY ConstantsAssumption DEF Types, TypeOK
<1> QED
  BY <1>1, <1>2 DEF DatesKept, Types, TypeOK

LEMMA HandleKeepsDates ==
  ASSUME OrderInv, NEW q \in FreshRequests, Admitted(q), Handle(q), NEW e \in Docs
  PROVE  DatesKept(e)
<1>0. q \in Requests /\ q.doc \in Docs /\ Types
  BY FreshRequestType DEF Requests, OrderInv, Types
<1>1. CASE \E t \in Tokens : StartRevision(q, t)
  BY <1>1 DEF StartRevision, versionVars, DatesKept
<1>2. CASE Obsolete(q) \/ RequestChanges(q)
  BY <1>2 DEF Obsolete, RequestChanges, DatesKept
<1>3. ASSUME NEW from \in 0..MaxTime, Approve(q, from) PROVE DatesKept(e)
  <2>1. q.op = "approve" /\ Decidable(q) /\ effFrom' = [effFrom EXCEPT ![q.doc][last[q.doc]] = from]
    BY <1>3 DEF Approve
  <2>2. DecisionFits(q)
    BY <2>1, FreshIsInformed DEF Informed
  <2>3. /\ q.task \in Cycles /\ task[q.doc][q.task] = "PENDING"
        /\ q.latest \in Versions /\ q.latest = last[q.doc]
    BY <2>1, <2>2 DEF DecisionFits, Decidable
  <2>4. vstate[q.doc][last[q.doc]] = "InReview" /\ last[q.doc] \in Versions
    BY <1>0, <2>3, DecisionFinds DEF OrderInv
  <2> QED
    BY <1>0, <2>1, <2>4 DEF DatesKept, Decided, Types, TypeOK
<1>4. CASE Release(q)
  BY <1>0, <1>4, CutoverKeepsDates DEF Release
<1> QED
  BY <1>1, <1>2, <1>3, <1>4 DEF Handle

LEMMA VaultKeepsDates ==
  ASSUME OrderInv, VaultAction, NEW e \in Docs
  PROVE  DatesKept(e)
<1>0. Types
  BY DEF OrderInv
<1>1. CASE UNCHANGED effFrom
  BY <1>1 DEF DatesKept
<1>2. ASSUME NEW d \in Docs, NEW u, ImportBaseline(d, u) PROVE DatesKept(e)
  <2>1. effFrom' = [effFrom EXCEPT ![d][1] = now] /\ now # 0
    BY <1>0, <1>2, ConstantsAssumption DEF ImportBaseline, Types, TypeOK
  <2> QED
    BY <1>0, <2>1 DEF DatesKept, Types, TypeOK
<1>3. ASSUME NEW d \in Docs, NEW v \in Versions, SweepCutover(d, v) PROVE DatesKept(e)
  BY <1>0, <1>3, CutoverKeepsDates DEF SweepCutover
<1>4. CASE Serve
  BY <1>4, HandleKeepsDates DEF Serve
<1> QED
  BY <1>1, <1>2, <1>3, <1>4
  DEF VaultAction, CreateDocument, SubmitReview, Checkin, Checkout, ReleaseAfterCommit, SweepSkip,
      SweepScan, Tick, versionVars

-----------------------------------------------------------------------------
(* The requests when the vault takes a step of its own.                      *)

\* The vault moves on.
VaultMoves == OrderInv' /\ inflight' = {} /\ StepIs /\ \A d \in Docs : DatesKept(d)

LEMMA ResultStays ==
  ASSUME ChangeInv, NEW c \in Changes, NEW d, NEW v, ResultFits(c, d, v),
         VersionKept(d), DatesKept(d), claimedBy'[d][v] = c, change'[c].type = change[c].type
  PROVE  ResultFits(c, d, v)'
<1>1. d \in Docs /\ v \in Versions /\ vstate[d][v] \in Decided
  BY DEF ResultFits
<1>2. \A w \in Versions : w < v => releasers'[d][w] = releasers[d][w]
  BY <1>1 DEF VersionKept
<1> QED
  BY <1>1, <1>2 DEF ResultFits, VersionKept, DatesKept

\* A request that is not itself concerned stays in order.
LEMMA RowStays ==
  ASSUME ChangeInv, VaultMoves, NEW c \in Changes, change'[c] = change[c],
         \A d \in Docs, v \in Versions : claimedBy[d][v] = c => claimedBy'[d][v] = c
  PROVE  ChangeFits(c)'
<1>1. ASSUME NEW d \in Docs PROVE VersionKept(d)
  BY <1>1, StepKeepsVersions DEF VaultMoves, ChangeInv
<1>2. ChangeFits(c)
  BY DEF ChangeInv
<1>3. Scheduled(c) => ResultFits(c, change[c].doc, change[c].version)'
  <2>1. SUFFICES ASSUME Scheduled(c) PROVE ResultFits(c, change[c].doc, change[c].version)'
    OBVIOUS
  <2>2. PICK d, v : d = change[c].doc /\ v = change[c].version
    OBVIOUS
  <2>3. ResultFits(c, d, v)
    BY <1>2, <2>1, <2>2 DEF ChangeFits
  <2>4. d \in Docs /\ claimedBy'[d][v] = c
    BY <2>3 DEF ResultFits
  <2>5. ResultFits(c, d, v)'
    BY <1>1, <2>3, <2>4, ResultStays DEF VaultMoves
  <2> QED
    BY <2>2, <2>5 DEF ResultFits
<1>4. change[c].state = "Closed" /\ change[c].type = "RETIRE" =>
        docState'[change[c].doc] = "Obsolete"
  BY <1>1, <1>2 DEF ChangeFits, VersionKept
<1>5. change[c].state = "Closed" /\ change[c].type # "RETIRE" =>
        vstate'[change[c].doc][change[c].version] # "Approved"
  <2>1. SUFFICES ASSUME change[c].state = "Closed", change[c].type # "RETIRE"
                 PROVE  vstate'[change[c].doc][change[c].version] # "Approved"
    OBVIOUS
  <2>2. Scheduled(c) /\ ResultState(c) # "Approved"
    BY <1>2, <2>1 DEF Scheduled, ChangeFits
  <2>3. ResultFits(c, change[c].doc, change[c].version)
    BY <1>2, <2>2 DEF ChangeFits
  <2> QED
    BY <1>1, <2>2, <2>3 DEF ResultFits, VersionKept, ResultState
<1> QED
  BY <1>2, <1>3, <1>4, <1>5 DEF ChangeFits, Scheduled, ResultState

LEMMA ChangesStay ==
  ASSUME ChangeInv, VaultMoves, UNCHANGED <<change, claimedBy>>
  PROVE  /\ \A c \in Changes : ChangeFits(c)'
         /\ \A d \in Docs, v \in Versions : ClaimFits(d, v)'
         /\ change' \in [Changes -> ChangeRows]
         /\ DOMAIN claimedBy' = Docs /\ \A d \in Docs : DOMAIN claimedBy'[d] = Versions
<1>1. \A c \in Changes : ChangeFits(c)'
  BY RowStays
<1>2. \A d \in Docs, v \in Versions : ClaimFits(d, v)'
  BY DEF ChangeInv, ClaimFits, Scheduled
<1> QED
  BY <1>1, <1>2 DEF ChangeInv, ChangeTypesFit

LEMMA GateStays ==
  ASSUME ChangeInv, UNCHANGED <<gateOn, authorization, verified>>
  PROVE  /\ \A d \in Docs : AuthorizationFits(d)'
         /\ gateOn' \in BOOLEAN /\ DOMAIN authorization' = Docs
         /\ verified' \in [Docs -> [Versions -> {0, 1}]]
  BY DEF ChangeInv, AuthorizationFits, ChangeTypesFit

LEMMA Assembled ==
  ASSUME ChangeInv, VaultMoves, ChangeTypesFit', \A d \in Docs : AuthorizationFits(d)',
         \A c \in Changes : ChangeFits(c)', \A d \in Docs, v \in Versions : ClaimFits(d, v)'
  PROVE  ChangeInv'
<1>1. \A d \in Docs : ReleasesFit(d)'
  BY StepKeepsReleases DEF VaultMoves, ChangeInv
<1> QED
  BY <1>1 DEF ChangeInv, VaultMoves

LEMMA QuietVaultMoves ==
  ASSUME ChangeInv, UNCHANGED vars
  PROVE  VaultMoves
<1>1. OrderInv' /\ inflight' = {}
  BY QuietKeepsOrder DEF ChangeInv
<1>2. StepIs
  BY QuietIs DEF vars, versionVars, signVars
<1>3. \A d \in Docs : DatesKept(d)
  BY DEF vars, versionVars, DatesKept
<1> QED
  BY <1>1, <1>2, <1>3 DEF VaultMoves

LEMMA VaultStepKeeps ==
  ASSUME ChangeInv, VaultStep
  PROVE  VaultMoves /\ ChangeInv'
<1>1. VaultAction /\ UNCHANGED <<change, claimedBy, gateOn, authorization, verified>>
  BY DEF VaultStep, changeVars, gateVars
<1>2. OrderInv /\ inflight = {} /\ Next /\ StepIs /\ inflight' = {}
  BY <1>1, VaultActionIs DEF ChangeInv
<1>3. Types'
  BY <1>2, NextTypes DEF OrderInv
<1>4. VaultMoves
  BY <1>1, <1>2, <1>3, StepKeepsVault, VaultKeepsDates DEF VaultMoves
<1> QED
  BY <1>1, <1>4, ChangesStay, GateStays, Assembled DEF ChangeTypesFit

LEMMA HeldKeeps ==
  ASSUME ChangeInv, NEW d \in Docs, NEW v \in Versions, SweepHeld(d, v)
  PROVE  VaultMoves /\ ChangeInv'
<1>1. /\ UNCHANGED <<docVars, versionVars, signVars, lockVars, taskVars, inflight, now>>
      /\ UNCHANGED <<change, claimedBy, gateOn, authorization, verified>>
      /\ due' = [due EXCEPT ![d] = @ \ {v}]
  BY DEF SweepHeld, changeVars, gateVars
<1>2. Types'
  BY <1>1 DEF ChangeInv, OrderInv, Types, TypeOK, DraftHasToken, docVars, versionVars, signVars,
              lockVars, taskVars
<1>3. StepIs
  BY <1>1, QuietIs DEF versionVars, signVars
<1>4. OrderInv' /\ inflight' = {}
  BY <1>1, <1>2, <1>3, StepKeepsVault DEF ChangeInv
<1>5. \A e \in Docs : DatesKept(e)
  BY <1>1 DEF versionVars, DatesKept
<1>6. VaultMoves
  BY <1>3, <1>4, <1>5 DEF VaultMoves
<1> QED
  BY <1>1, <1>6, ChangesStay, GateStays, Assembled DEF ChangeTypesFit

LEMMA GateKeeps ==
  ASSUME ChangeInv,
         \/ \E b \in BOOLEAN : SetGate(b)
         \/ \E d \in Docs, v \in Versions : RequestAuthorization(d, v)
         \/ \E d \in Docs, u \in Users, o \in {"verify", "reject"} : DecideAuthorization(d, u, o)
         \/ \E m \in SUBSET Directors : ChangeRole(m)
  PROVE  VaultMoves /\ ChangeInv'
<1>1. UNCHANGED <<vars, changeVars>>
  BY DEF SetGate, RequestAuthorization, DecideAuthorization, ChangeRole
<1>2. UNCHANGED vars /\ UNCHANGED <<change, claimedBy>>
  BY <1>1 DEF changeVars
<1>3. VaultMoves
  BY <1>2, QuietVaultMoves
<1>4. ASSUME \A d \in Docs : AuthorizationFits(d)', gateOn' \in BOOLEAN, DOMAIN authorization' = Docs,
             verified' \in [Docs -> [Versions -> {0, 1}]]
      PROVE  ChangeInv'
  BY <1>2, <1>3, <1>4, ChangesStay, Assembled DEF ChangeTypesFit
<1>5. ASSUME NEW m \in SUBSET Directors, ChangeRole(m) PROVE ChangeInv'
  BY <1>4, <1>5, GateStays DEF ChangeRole
<1>6. ASSUME NEW b \in BOOLEAN, SetGate(b) PROVE ChangeInv'
  <2>1. gateOn' \in BOOLEAN /\ UNCHANGED <<authorization, verified>>
    BY <1>6 DEF SetGate
  <2>2. \A d \in Docs : AuthorizationFits(d)'
    BY <2>1 DEF ChangeInv, AuthorizationFits
  <2> QED
    BY <1>4, <2>1, <2>2 DEF ChangeInv, ChangeTypesFit
<1>7. ASSUME NEW d \in Docs, NEW v \in Versions, RequestAuthorization(d, v) PROVE ChangeInv'
  <2>1. /\ authorization' = [authorization EXCEPT ![d] = [version |-> v, pool |-> topManagement]]
        /\ UNCHANGED <<gateOn, verified>> /\ verified[d][v] = 0
    BY <1>7 DEF RequestAuthorization, Authorizable
  <2>2. ASSUME NEW e \in Docs PROVE AuthorizationFits(e)'
    BY <2>1 DEF ChangeInv, AuthorizationFits, ChangeTypesFit
  <2> QED
    BY <1>4, <2>1, <2>2 DEF ChangeInv, ChangeTypesFit
<1>8. ASSUME NEW d \in Docs, NEW u \in Users, NEW o \in {"verify", "reject"},
             DecideAuthorization(d, u, o)
      PROVE  ChangeInv'
  <2>1. /\ u \in authorization[d].pool
        /\ authorization' = [authorization EXCEPT ![d] = NoAuthorization]
        /\ UNCHANGED gateOn
        /\ verified' = IF o = "verify" THEN [verified EXCEPT ![d][authorization[d].version] = @ + 1]
                       ELSE verified
    BY <1>8 DEF DecideAuthorization, MayAuthorize
  <2>2. authorization[d] # NoAuthorization
    BY <2>1 DEF NoAuthorization
  <2>3. PICK v \in Versions : v = authorization[d].version /\ verified[d][v] = 0
    BY <2>2 DEF ChangeInv, AuthorizationFits
  <2>4. verified' \in [Docs -> [Versions -> {0, 1}]]
    BY <2>1, <2>3 DEF ChangeInv, ChangeTypesFit
  <2>5. \A e \in Docs : e # d => verified'[e] = verified[e] /\ authorization'[e] = authorization[e]
    BY <2>1 DEF ChangeInv, ChangeTypesFit
  <2>6. authorization'[d] = NoAuthorization /\ DOMAIN authorization' = Docs
    BY <2>1 DEF ChangeInv, ChangeTypesFit
  <2>7. \A e \in Docs : AuthorizationFits(e)'
    BY <2>5, <2>6 DEF ChangeInv, AuthorizationFits
  <2> QED
    BY <1>4, <2>1, <2>4, <2>6, <2>7 DEF ChangeInv, ChangeTypesFit
<1> QED
  BY <1>3, <1>5, <1>6, <1>7, <1>8

-----------------------------------------------------------------------------
(* The steps of a request.                                                   *)

LEMMA ApprovalKeeps ==
  ASSUME ChangeInv, NEW c \in Changes, NEW ty \in ChangeTypes, NEW d \in Docs \cup {NoDoc},
         NEW from \in GoLive, ChangeApproved(c, ty, d, from)
  PROVE  VaultMoves /\ ChangeInv'
<1>1. PICK x : x = [state |-> "Approved", type |-> ty, doc |-> d, from |-> from, version |-> 0]
  OBVIOUS
<1>2. /\ change' = [change EXCEPT ![c] = x] /\ UNCHANGED <<vars, claimedBy>>
      /\ UNCHANGED <<gateOn, authorization, verified>>
      /\ change[c].state = "Absent" /\ (ty # "CREATE" => d \in Docs)
  BY <1>1 DEF ChangeApproved, gateVars
<1>3. x \in ChangeRows
  BY <1>1, ConstantsAssumption DEF ChangeRows
<1>4. change' \in [Changes -> ChangeRows] /\ change'[c] = x
      /\ \A b \in Changes : b # c => change'[b] = change[b]
  BY <1>2, <1>3 DEF ChangeInv, ChangeTypesFit
<1>5. VaultMoves
  BY <1>2, QuietVaultMoves
<1>6. ASSUME NEW b \in Changes PROVE ChangeFits(b)'
  <2>1. CASE b = c
    <3>1. change'[b] = x /\ x.state = "Approved" /\ x.type = ty /\ x.doc = d
      BY <1>1, <1>4, <2>1
    <3> QED
      BY <1>2, <3>1 DEF ChangeFits, Scheduled
  <2>2. CASE b # c
    BY <1>2, <1>4, <1>5, <2>2, RowStays
  <2> QED
    BY <2>1, <2>2
<1>7. ASSUME NEW e \in Docs, NEW v \in Versions PROVE ClaimFits(e, v)'
  <2>1. ClaimFits(e, v)
    BY DEF ChangeInv
  <2>2. claimedBy[e][v] # c
    BY <1>2, <2>1 DEF ClaimFits, Scheduled, NoChange, Changes
  <2> QED
    BY <1>2, <1>4, <2>1, <2>2 DEF ClaimFits, Scheduled
<1> QED
  BY <1>2, <1>4, <1>5, <1>6, <1>7, GateStays, Assembled DEF ChangeTypesFit, ChangeInv

LEMMA CloseKeeps ==
  ASSUME ChangeInv, NEW c \in Changes, CloseChange(c)
  PROVE  VaultMoves /\ ChangeInv'
<1>1. PICK old : old = change[c] /\ old \in ChangeRows
  BY DEF ChangeInv, ChangeTypesFit
<1>2. PICK x : x = [old EXCEPT !.state = "Closed"]
  OBVIOUS
<1>3. /\ x \in ChangeRows /\ x.state = "Closed" /\ x.type = old.type /\ x.doc = old.doc
      /\ x.version = old.version
  BY <1>1, <1>2 DEF ChangeRows
<1>4. /\ change' = [change EXCEPT ![c] = x] /\ UNCHANGED <<vars, claimedBy>>
      /\ UNCHANGED <<gateOn, authorization, verified>>
      /\ old.state = "Implemented" /\ ChangeEffective(c)
  BY <1>1, <1>2 DEF CloseChange, gateVars, ChangeInv, ChangeTypesFit
<1>5. change' \in [Changes -> ChangeRows] /\ change'[c] = x
      /\ \A b \in Changes : b # c => change'[b] = change[b]
  BY <1>3, <1>4 DEF ChangeInv, ChangeTypesFit
<1>6. VaultMoves
  BY <1>4, QuietVaultMoves
<1>7. ASSUME NEW b \in Changes PROVE ChangeFits(b)'
  <2>1. CASE b = c
    <3>1. ChangeFits(c) /\ (Scheduled(c) <=> old.type # "RETIRE")
      BY <1>1, <1>4 DEF ChangeInv, Scheduled
    <3>2. old.type # "RETIRE" => ResultFits(c, old.doc, old.version)'
      <4>1. SUFFICES ASSUME old.type # "RETIRE" PROVE ResultFits(c, old.doc, old.version)'
        OBVIOUS
      <4>2. PICK d \in Docs, v \in Versions : d = old.doc /\ v = old.version /\ ResultFits(c, d, v)
        BY <1>1, <3>1, <4>1 DEF ChangeFits, ResultFits
      <4>3. VersionKept(d) /\ DatesKept(d)
        BY <1>6, StepKeepsVersions DEF VaultMoves, ChangeInv
      <4>4. claimedBy'[d][v] = c /\ change'[c].type = change[c].type
        BY <1>1, <1>3, <1>4, <1>5, <4>2 DEF ResultFits
      <4>5. ResultFits(c, d, v)'
        BY <4>2, <4>3, <4>4, ResultStays
      <4> QED
        BY <4>2, <4>5
    <3>3. old.type = "RETIRE" => docState'[old.doc] = "Obsolete"
      BY <1>1, <1>4 DEF ChangeEffective, vars, docVars
    <3>4. old.type # "CREATE" => old.doc \in Docs
      BY <1>1, <1>4, <3>1 DEF ChangeFits
    <3>5. change'[b].doc = old.doc /\ change'[b].version = old.version /\ change'[b].type = old.type
      BY <1>3, <1>5, <2>1
    <3>6. Scheduled(b)' => old.type # "RETIRE"
      BY <3>5 DEF Scheduled
    <3>7. Scheduled(b)' => ResultFits(b, change[b].doc, change[b].version)'
      BY <2>1, <3>2, <3>5, <3>6 DEF ResultFits
    <3>8. old.type # "RETIRE" => vstate'[old.doc][old.version] # "Approved"
      BY <1>1, <1>4 DEF ChangeEffective, vars, versionVars
    <3> QED
      BY <3>3, <3>4, <3>5, <3>7, <3>8 DEF ChangeFits, ResultState
  <2>2. CASE b # c
    BY <1>4, <1>5, <1>6, <2>2, RowStays
  <2> QED
    BY <2>1, <2>2
<1>8. ASSUME NEW e \in Docs, NEW v \in Versions PROVE ClaimFits(e, v)'
  <2>1. ClaimFits(e, v)
    BY DEF ChangeInv
  <2>2. ASSUME NEW b \in Changes, Scheduled(b) PROVE Scheduled(b)' /\ change'[b].doc = change[b].doc
                                                    /\ change'[b].version = change[b].version
    BY <1>1, <1>3, <1>5, <2>2 DEF Scheduled
  <2> QED
    BY <1>4, <2>1, <2>2 DEF ClaimFits
<1> QED
  BY <1>4, <1>5, <1>6, <1>7, <1>8, GateStays, Assembled DEF ChangeTypesFit, ChangeInv

LEMMA ScheduleMovesVault ==
  ASSUME ChangeInv, NEW c \in Changes, NEW d \in Docs, NEW v \in Versions, ScheduleChange(c, d, v)
  PROVE  VaultMoves /\ effFrom'[d][v] # 0
<1>1. PICK t \in 1..MaxTime : effFrom' = [effFrom EXCEPT ![d][v] = t]
  <2>1. now \in 1..MaxTime /\ change[c].from \in GoLive \cup {0}
    BY DEF ChangeInv, OrderInv, Types, TypeOK, ChangeTypesFit, ChangeRows
  <2>2. PICK t : t = IF change[c].from = 0 THEN now ELSE change[c].from
    OBVIOUS
  <2>3. t \in 1..MaxTime
    <3>0. 0 \in 0..LastChange /\ GoLive \subseteq 0..LastChange
      BY ChangesAssumption
    <3>1. PICK f \in 0..LastChange : f = change[c].from
      BY <2>1, <3>0
    <3>2. f # 0 => f \in 1..MaxTime
      BY ConstantsAssumption, ChangesAssumption
    <3> QED
      BY <2>1, <2>2, <3>1, <3>2
  <2> QED
    BY <2>2, <2>3 DEF ScheduleChange
<1>2. UNCHANGED <<docVars, last, vstate, author, supersededBy, signVars, lockVars, taskVars, inflight,
                  due, now>>
  BY DEF ScheduleChange
<1>3. effFrom' \in [Docs -> [Versions -> 0..MaxTime]]
  BY <1>1, ConstantsAssumption DEF ChangeInv, OrderInv, Types, TypeOK
<1>4. Types'
  BY <1>2, <1>3 DEF ChangeInv, OrderInv, Types, TypeOK, DraftHasToken, docVars, signVars, lockVars, taskVars
<1>5. StepIs
  BY <1>2, QuietIs DEF signVars
<1>6. OrderInv' /\ inflight' = {}
  BY <1>2, <1>4, <1>5, StepKeepsVault DEF ChangeInv
<1>7. effFrom'[d][v] # 0 /\ \A e \in Docs : DatesKept(e)
  BY <1>1 DEF DatesKept, ChangeInv, OrderInv, Types, TypeOK
<1> QED
  BY <1>5, <1>6, <1>7 DEF VaultMoves

LEMMA ScheduleKeeps ==
  ASSUME ChangeInv, NEW c \in Changes, NEW d \in Docs, NEW v \in Versions, ScheduleChange(c, d, v)
  PROVE  VaultMoves /\ ChangeInv'
<1>1. PICK old : old = change[c] /\ old \in ChangeRows
  BY DEF ChangeInv, ChangeTypesFit
<1>2. PICK x : x = [old EXCEPT !.state = "Implemented", !.doc = d, !.version = v]
  OBVIOUS
<1>3. /\ x \in ChangeRows /\ x.state = "Implemented" /\ x.type = old.type /\ x.doc = d
      /\ x.version = v
  <2>1. v \in 0..MaxVersions
    BY ConstantsAssumption DEF Versions
  <2>2. x.state = "Implemented" /\ x.type = old.type /\ x.doc = d /\ x.version = v
    BY <1>1, <1>2 DEF ChangeRows
  <2>3. x \in ChangeRows
    BY <1>1, <1>2, <2>1 DEF ChangeRows
  <2> QED
    BY <2>2, <2>3
<1>4. /\ change' = [change EXCEPT ![c] = x] /\ claimedBy' = [claimedBy EXCEPT ![d][v] = c]
      /\ UNCHANGED <<gateOn, authorization, verified, vstate, approvers, releasers>>
      /\ old.state = "Approved" /\ claimedBy[d][v] = NoChange /\ vstate[d][v] = "Approved"
      /\ (old.type = "CREATE" => eff[d] = 0)
  BY <1>1, <1>2 DEF ScheduleChange, Unclaimed, Resolves, gateVars, signVars, ChangeInv, ChangeTypesFit
<1>5. change' \in [Changes -> ChangeRows] /\ change'[c] = x
      /\ \A b \in Changes : b # c => change'[b] = change[b]
  BY <1>3, <1>4 DEF ChangeInv, ChangeTypesFit
<1>6. /\ DOMAIN claimedBy' = Docs /\ \A e \in Docs : DOMAIN claimedBy'[e] = Versions
      /\ \A e \in Docs, w \in Versions :
           claimedBy'[e][w] = IF e = d /\ w = v THEN c ELSE claimedBy[e][w]
  BY <1>4 DEF ChangeInv, ChangeTypesFit
<1>7. VaultMoves /\ effFrom'[d][v] # 0
  BY ScheduleMovesVault
<1>8. old.type = "CREATE" => \A w \in Versions : releasers[d][w] = {}
  BY <1>4 DEF ChangeInv, ReleasesFit
<1>9. approvers[d][v] # {}
  BY <1>4 DEF ChangeInv, ReleasesFit
<1>10. ASSUME NEW b \in Changes PROVE ChangeFits(b)'
  <2>1. CASE b = c
    <3>1. ResultFits(c, d, v)'
      BY <1>3, <1>4, <1>5, <1>6, <1>7, <1>8, <1>9 DEF ResultFits, Decided
    <3>2. change'[b] = x
      BY <1>5, <2>1
    <3>3. ResultFits(b, change[b].doc, change[b].version)'
      BY <1>3, <2>1, <3>1, <3>2
    <3> QED
      BY <1>3, <3>2, <3>3 DEF ChangeFits
  <2>2. CASE b # c
    <3>1. \A e \in Docs, w \in Versions : claimedBy[e][w] = b => claimedBy'[e][w] = b
      BY <1>4, <1>6 DEF NoChange, Changes
    <3> QED
      BY <1>5, <1>7, <2>2, <3>1, RowStays
  <2> QED
    BY <2>1, <2>2
<1>11. ASSUME NEW e \in Docs, NEW w \in Versions PROVE ClaimFits(e, w)'
  <2>1. CASE e = d /\ w = v
    <3>1. claimedBy'[e][w] = c /\ change'[c] = x
      BY <1>5, <1>6, <2>1
    <3>2. Scheduled(c)'
      BY <1>1, <1>3, <1>5 DEF Scheduled, ScheduleChange, Resolves
    <3> QED
      BY <1>3, <2>1, <3>1, <3>2 DEF ClaimFits
  <2>2. CASE ~(e = d /\ w = v)
    <3>1. claimedBy'[e][w] = claimedBy[e][w] /\ ClaimFits(e, w)
      BY <1>6, <2>2 DEF ChangeInv
    <3>2. claimedBy[e][w] # c
      BY <1>1, <1>4, <3>1 DEF ClaimFits, Scheduled, NoChange, Changes
    <3> QED
      BY <1>5, <3>1, <3>2 DEF ClaimFits, Scheduled
  <2> QED
    BY <2>1, <2>2
<1> QED
  BY <1>4, <1>5, <1>6, <1>7, <1>10, <1>11, GateStays, Assembled DEF ChangeTypesFit, ChangeInv

LEMMA RetireMovesVault ==
  ASSUME ChangeInv, NEW c \in Changes, NEW u \in Users, ImplementRetire(c, u)
  PROVE  VaultMoves
<1>1. change[c].state = "Approved" /\ change[c].type = "RETIRE"
  BY DEF ImplementRetire
<1>2. PICK d \in Docs : d = change[c].doc
  BY <1>1 DEF ChangeInv, ChangeFits
<1>3. PICK q : q = Request("obsolete", d, u, 0, 0)
  OBVIOUS
<1>4. Obsolete(q) /\ UNCHANGED inflight
  BY <1>2, <1>3 DEF ImplementRetire
<1>5. q \in FreshRequests
  BY <1>3 DEF FreshRequests
<1>6. Admitted(q) /\ Handle(q)
  BY <1>4 DEF Obsolete, Admitted, Handle, LegalFrom
<1>7. Serve
  BY <1>4, <1>5, <1>6 DEF Serve
<1>8. VaultAction
  BY <1>7 DEF VaultAction
<1>9. OrderInv /\ inflight = {} /\ Next /\ StepIs /\ inflight' = {}
  BY <1>8, VaultActionIs DEF ChangeInv
<1>10. Types'
  BY <1>9, NextTypes DEF OrderInv
<1> QED
  BY <1>8, <1>9, <1>10, StepKeepsVault, VaultKeepsDates DEF VaultMoves

LEMMA RetireKeeps ==
  ASSUME ChangeInv, NEW c \in Changes, NEW u \in Users, ImplementRetire(c, u)
  PROVE  VaultMoves /\ ChangeInv'
<1>1. PICK old : old = change[c] /\ old \in ChangeRows
  BY DEF ChangeInv, ChangeTypesFit
<1>2. PICK x : x = [old EXCEPT !.state = "Implemented"]
  OBVIOUS
<1>3. x \in ChangeRows /\ x.state = "Implemented" /\ x.type = old.type /\ x.doc = old.doc
  BY <1>1, <1>2 DEF ChangeRows
<1>4. /\ change' = [change EXCEPT ![c] = x] /\ UNCHANGED claimedBy
      /\ UNCHANGED <<gateOn, authorization, verified>>
      /\ old.state = "Approved" /\ old.type = "RETIRE"
  BY <1>1, <1>2 DEF ImplementRetire, gateVars, ChangeInv, ChangeTypesFit
<1>5. change' \in [Changes -> ChangeRows] /\ change'[c] = x
      /\ \A b \in Changes : b # c => change'[b] = change[b]
  BY <1>3, <1>4 DEF ChangeInv, ChangeTypesFit
<1>6. VaultMoves
  BY RetireMovesVault
<1>7. ASSUME NEW b \in Changes PROVE ChangeFits(b)'
  <2>1. CASE b = c
    <3>1. change'[b] = x /\ old.doc \in Docs
      BY <1>1, <1>4, <1>5, <2>1 DEF ChangeInv, ChangeFits
    <3> QED
      BY <1>3, <1>4, <3>1 DEF ChangeFits, Scheduled
  <2>2. CASE b # c
    BY <1>4, <1>5, <1>6, <2>2, RowStays
  <2> QED
    BY <2>1, <2>2
<1>8. ASSUME NEW e \in Docs, NEW v \in Versions PROVE ClaimFits(e, v)'
  <2>1. ClaimFits(e, v)
    BY DEF ChangeInv
  <2>2. claimedBy[e][v] # c
    BY <1>1, <1>4, <2>1 DEF ClaimFits, Scheduled, NoChange, Changes
  <2> QED
    BY <1>4, <1>5, <2>1, <2>2 DEF ClaimFits, Scheduled
<1> QED
  BY <1>4, <1>5, <1>6, <1>7, <1>8, GateStays, Assembled DEF ChangeTypesFit, ChangeInv

LEMMA InitChanges == ChangeInit => ChangeInv
<1> SUFFICES ASSUME ChangeInit PROVE ChangeInv
  OBVIOUS
<1>1. OrderInv /\ inflight = {}
  BY InitOrder DEF ChangeInit, Init
<1>2. \A c \in Changes : change[c] = NotYet
  BY DEF ChangeInit
<1>3. NotYet \in ChangeRows /\ NotYet.state = "Absent"
  BY ConstantsAssumption DEF NotYet, ChangeRows, ChangeTypes
<1>4. change \in [Changes -> ChangeRows]
  BY <1>3 DEF ChangeInit
<1>5. ChangeTypesFit
  BY <1>4 DEF ChangeInit, ChangeTypesFit
<1>6. \A d \in Docs : ReleasesFit(d) /\ AuthorizationFits(d)
  BY DEF ChangeInit, Init, ReleasesFit, AuthorizationFits
<1>7. \A c \in Changes : ChangeFits(c)
  BY <1>2, <1>3 DEF ChangeFits, Scheduled
<1>8. \A d \in Docs, v \in Versions : ClaimFits(d, v)
  BY DEF ChangeInit, ClaimFits
<1> QED
  BY <1>1, <1>5, <1>6, <1>7, <1>8 DEF ChangeInv

LEMMA NextKeepsChanges ==
  ASSUME ChangeInv, [ChangeNext]_governanceVars
  PROVE  ChangeInv'
<1>1. CASE ChangeNext
  BY <1>1, VaultStepKeeps, HeldKeeps, ApprovalKeeps, ScheduleKeeps, RetireKeeps, CloseKeeps, GateKeeps
  DEF ChangeNext
<1>2. CASE UNCHANGED governanceVars
  <2>1. UNCHANGED vars /\ UNCHANGED <<change, claimedBy>> /\ UNCHANGED <<gateOn, authorization, verified>>
    BY <1>2 DEF governanceVars, changeVars, gateVars
  <2> QED
    BY <2>1, QuietVaultMoves, ChangesStay, GateStays, Assembled DEF ChangeTypesFit
<1> QED
  BY <1>1, <1>2

-----------------------------------------------------------------------------
(* What the invariant says.                                                  *)

LEMMA ChangeInvMeans ==
  ASSUME ChangeInv
  PROVE  LinksAreMutual /\ ClosedTookEffect /\ AuthorizedOnce
<1>1. ASSUME NEW c \in Changes, Scheduled(c)
      PROVE  /\ claimedBy[change[c].doc][change[c].version] = c
             /\ approvers[change[c].doc][change[c].version] # {}
             /\ effFrom[change[c].doc][change[c].version] # 0
             /\ ResultFits(c, change[c].doc, change[c].version)
  BY <1>1 DEF ChangeInv, ChangeFits, ResultFits
<1>2. \A d \in Docs, v \in Versions : claimedBy[d][v] # NoChange =>
        LET c == claimedBy[d][v] IN Scheduled(c) /\ change[c].doc = d /\ change[c].version = v
  BY DEF ChangeInv, ClaimFits
<1>3. LinksAreMutual
  BY <1>1, <1>2 DEF LinksAreMutual
<1>4. ASSUME NEW c \in Changes, change[c].state = "Closed"
      PROVE  IF change[c].type = "RETIRE" THEN docState[change[c].doc] = "Obsolete"
             ELSE releasers[change[c].doc][change[c].version] # {}
  <2>1. ChangeFits(c) /\ (change[c].type # "RETIRE" => Scheduled(c))
    BY <1>4 DEF ChangeInv, Scheduled
  <2> QED
    BY <1>1, <1>4, <2>1 DEF ChangeFits, ResultFits, ResultState
<1>5. \A c \in Changes : Scheduled(c) /\ change[c].type = "CREATE" =>
        \A w \in Versions : w < change[c].version => releasers[change[c].doc][w] = {}
  BY <1>1 DEF ResultFits
<1>6. ClosedTookEffect
  BY <1>4, <1>5 DEF ClosedTookEffect
<1>7. AuthorizedOnce
  <2>1. \A d \in Docs, v \in Versions : verified[d][v] \in {0, 1}
    BY DEF ChangeInv, ChangeTypesFit
  <2> QED
    BY <2>1 DEF AuthorizedOnce
<1> QED
  BY <1>3, <1>6, <1>7

\* A request that is held up after a step was held up before it, or the gate was switched.
GatesKept ==
  /\ gateOn' = gateOn
  /\ \A d \in Docs, v \in Versions : verified[d][v] > 0 => verified'[d][v] > 0

LEMMA HeldUpBefore ==
  ASSUME ChangeInv, VaultMoves, GatesKept, NEW c \in Changes, HeldUp(c)', Scheduled(c),
         change'[c].doc = change[c].doc, change'[c].version = change[c].version
  PROVE  HeldUp(c)
<1>1. PICK d, v : d = change[c].doc /\ v = change[c].version
  OBVIOUS
<1>2. ResultFits(c, d, v)
  BY <1>1 DEF ChangeInv, ChangeFits
<1>3. d \in Docs /\ v \in Versions /\ vstate[d][v] \in Decided
  BY <1>2 DEF ResultFits
<1>4. VersionKept(d)
  BY <1>3, StepKeepsVersions DEF ChangeInv, VaultMoves
<1>5. vstate'[d][v] = "Approved" /\ ~GateOpen(d, v)'
  BY <1>1 DEF HeldUp, ResultState, GateOpen
<1>6. vstate[d][v] = "Approved"
  BY <1>3, <1>4, <1>5 DEF VersionKept
<1>7. ~GateOpen(d, v)
  BY <1>3, <1>5 DEF GateOpen, GatesKept
<1> QED
  BY <1>1, <1>6, <1>7 DEF HeldUp, ResultState

\* A step switches the gate, or leaves a request its version, or schedules it.
LEMMA RequestMoves ==
  ASSUME ChangeInv, ChangeNext, gateOn' = gateOn, NEW c \in Changes
  PROVE  /\ VaultMoves /\ GatesKept
         /\ \/ /\ Scheduled(c)' => Scheduled(c)
               /\ Scheduled(c) => change'[c].doc = change[c].doc /\ change'[c].version = change[c].version
            \/ \E d \in Docs, v \in Versions : ScheduleChange(c, d, v)
<1> DEFINE Kept == /\ Scheduled(c)' => Scheduled(c)
                   /\ Scheduled(c) => change'[c].doc = change[c].doc /\ change'[c].version = change[c].version
<1>0. change'[c] = change[c] => Kept
  BY DEF Scheduled
<1>1. VaultMoves
  BY VaultStepKeeps, HeldKeeps, ApprovalKeeps, ScheduleKeeps, RetireKeeps, CloseKeeps, GateKeeps
  DEF ChangeNext
<1>2. GatesKept
  <2>1. CASE UNCHANGED verified
    BY <2>1 DEF GatesKept
  <2>2. ASSUME NEW d \in Docs, NEW u \in Users, NEW o \in {"verify", "reject"},
               DecideAuthorization(d, u, o)
        PROVE  GatesKept
    <3>1. verified' = [verified EXCEPT ![d][authorization[d].version] = @ + 1] \/ verified' = verified
      BY <2>2 DEF DecideAuthorization
    <3>2. \A e \in Docs, v \in Versions : verified[e][v] \in {0, 1}
      BY DEF ChangeInv, ChangeTypesFit
    <3>3. \A e \in Docs, v \in Versions : verified'[e][v] \in {verified[e][v], verified[e][v] + 1}
      BY <3>1, <3>2 DEF ChangeInv, ChangeTypesFit
    <3> QED
      BY <3>2, <3>3 DEF GatesKept
  <2> QED
    BY <2>1, <2>2
    DEF ChangeNext, VaultStep, SweepHeld, ChangeApproved, ScheduleChange, ImplementRetire, CloseChange,
        SetGate, RequestAuthorization, ChangeRole, gateVars
<1>3. CASE UNCHANGED change
  BY <1>0, <1>1, <1>2, <1>3
<1>4. ASSUME NEW b \in Changes, NEW ty \in ChangeTypes, NEW d \in Docs \cup {NoDoc}, NEW from \in GoLive,
             ChangeApproved(b, ty, d, from)
      PROVE  Kept
  <2>1. b # c => change'[c] = change[c]
    BY <1>4 DEF ChangeApproved
  <2>2. b = c => ~Scheduled(c) /\ change'[c].state = "Approved"
    BY <1>4 DEF ChangeApproved, Scheduled, ChangeInv, ChangeTypesFit
  <2> QED
    BY <1>0, <2>1, <2>2 DEF Scheduled
<1>5. ASSUME NEW b \in Changes, NEW u \in Users, ImplementRetire(b, u) PROVE Kept
  <2>1. b # c => change'[c] = change[c]
    BY <1>5 DEF ImplementRetire
  <2>2. b = c => change[c].type = "RETIRE" /\ change'[c].type = "RETIRE"
    BY <1>5 DEF ImplementRetire, ChangeInv, ChangeTypesFit, ChangeRows
  <2> QED
    BY <1>0, <2>1, <2>2 DEF Scheduled
<1>6. ASSUME NEW b \in Changes, CloseChange(b) PROVE Kept
  <2>1. b # c => change'[c] = change[c]
    BY <1>6 DEF CloseChange
  <2>2. b = c => /\ change[c].state = "Implemented" /\ change'[c].type = change[c].type
                 /\ change'[c].doc = change[c].doc /\ change'[c].version = change[c].version
    BY <1>6 DEF CloseChange, ChangeInv, ChangeTypesFit, ChangeRows
  <2> QED
    BY <1>0, <2>1, <2>2 DEF Scheduled
<1>7. ASSUME NEW b \in Changes, NEW d \in Docs, NEW v \in Versions, ScheduleChange(b, d, v)
      PROVE  Kept \/ ScheduleChange(c, d, v)
  <2>1. b # c => change'[c] = change[c]
    BY <1>7 DEF ScheduleChange
  <2> QED
    BY <1>0, <1>7, <2>1
<1> QED
  BY <1>1, <1>2, <1>3, <1>4, <1>5, <1>6, <1>7
  DEF ChangeNext, VaultStep, SweepHeld, SetGate, RequestAuthorization, DecideAuthorization, ChangeRole,
      changeVars

LEMMA GateHoldsUp ==
  ASSUME ChangeInv, ChangeNext, NEW c \in Changes, ~HeldUp(c), HeldUp(c)'
  PROVE  gateOn # gateOn'
<1> SUFFICES ASSUME gateOn' = gateOn PROVE FALSE
  OBVIOUS
<1>1. VaultMoves /\ GatesKept
  BY RequestMoves
<1>2. Scheduled(c)'
  BY DEF HeldUp
<1>3. PICK d \in Docs, v \in Versions : ScheduleChange(c, d, v)
  BY <1>1, <1>2, RequestMoves, HeldUpBefore
<1>4. GateOpen(d, v) /\ UNCHANGED <<gateOn, verified>>
  BY <1>3 DEF ScheduleChange, Preflight, gateVars
<1>5. change'[c].doc = d /\ change'[c].version = v
  BY <1>3 DEF ScheduleChange, ChangeInv, ChangeTypesFit, ChangeRows
<1> QED
  BY <1>4, <1>5 DEF HeldUp, GateOpen

\* However requests, releases, authorizations and the sweep interleave, an implemented change
\* is the one its version names, took effect before it was closed, and was not accepted into a
\* release that the leadership gate would refuse: for any documents, requests, users and dates.
THEOREM ChangesStayTraceable == ChangeSpec => ChangesAreTraceable
<1>1. ChangeInit => ChangeInv
  BY InitChanges
<1>2. ChangeInv /\ [ChangeNext]_governanceVars => ChangeInv'
  BY NextKeepsChanges
<1>3. ChangeInv => LinksAreMutual /\ ClosedTookEffect /\ AuthorizedOnce
  BY ChangeInvMeans
<1>4. ChangeInv /\ [ChangeNext]_governanceVars =>
        [\A c \in Changes : ~HeldUp(c) /\ HeldUp(c)' => gateOn # gateOn']_governanceVars
  BY GateHoldsUp
<1> QED
  BY <1>1, <1>2, <1>3, <1>4, PTL DEF ChangeSpec, ChangesAreTraceable, HeldUpOnlyByGate

=============================================================================
