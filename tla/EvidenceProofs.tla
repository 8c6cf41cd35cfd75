--------------------------- MODULE EvidenceProofs ---------------------------
(***************************************************************************)
(* Theorems about EvidencePacks and RecordDisposition, for every value of    *)
(* their constants.                                                          *)
(***************************************************************************)
EXTENDS RecordDisposition, EvidencePacks, TLAPS

-----------------------------------------------------------------------------
(* Evidence packs.  A worker that holds a pack's row is the only one that     *)
(* does, and finds the pack as it left it: BUILDING and without a record.     *)
(* What it has gathered is not erased under its hands, because an erasure     *)
(* waits for every build.                                                     *)

\* Worker w holds its pack's row.
Busy(w) == builder[w].pc \in HoldsLocks

WorkerFits(w) ==
  /\ builder[w].pc # "idle" => builder[w].pack \in Packs
  /\ builder[w].pc \in {"building", "gathered"} =>
       packStatus[builder[w].pack] = "BUILDING" /\ builder[w].pack \notin packRecord
  /\ builder[w].pc = "portfolio" => packStatus[builder[w].pack] # "UNAVAILABLE"
  /\ builder[w].pc = "gathered" =>
       \A r \in builder[w].got \cup Subjects[builder[w].pack] : gone[r] # "erased"

OneWorkerPerPack ==
  \A w, x \in Builders : Busy(w) /\ Busy(x) /\ builder[w].pack = builder[x].pack => w = x

\* The record, the bytes and the state of a pack agree; what is not yet a record copied nothing and
\* cannot be erased, and a registered pack is SEALED, invalidated with its record, or failed later.
PackFits(p) ==
  /\ p \notin packRecord => seals[p] = 0 /\ gone[p] # "erased" /\ contents[p] = {}
  /\ seals[p] <= 1
  /\ packStatus[p] = "SEALED" => p \in packRecord /\ p \in zipKept
  /\ p \in packRecord => packStatus[p] \notin {"Absent", "DRAFT"}
  /\ packStatus[p] = "UNAVAILABLE" => gone[p] = "erased"
  /\ packStatus[p] = "UNAVAILABLE" => p \notin zipKept /\ p \notin portfolio /\ shareLink[p] # "live"
  /\ packStatus[p] = "SEALED" => \A r \in Dependencies(p) : gone[r] # "erased"

PackInv ==
  /\ PackTypeOK
  /\ \A w \in Builders : WorkerFits(w)
  /\ OneWorkerPerPack
  /\ \A p \in Packs : PackFits(p)

\* affected_packs: the packs an erasure hits are closed under copying, so no sealed pack outside
\* them depends on the record, directly or through the record of another pack.
LEMMA AffectedIsClosed ==
  ASSUME NEW r
  PROVE  AffectedPacks(r) \subseteq SealedPacks /\ ClosedUnderCopying(AffectedPacks(r), r)
<1>1. ASSUME NEW p \in SealedPacks, Dependencies(p) \cap (AffectedPacks(r) \cup {r}) # {},
             NEW S \in SUBSET SealedPacks, ClosedUnderCopying(S, r)
      PROVE  p \in S
  <2>1. AffectedPacks(r) \subseteq S
    BY <1>1 DEF AffectedPacks
  <2>2. Dependencies(p) \cap (S \cup {r}) # {}
    BY <1>1, <2>1
  <2> QED
    BY <1>1, <2>2 DEF ClosedUnderCopying
<1>2. AffectedPacks(r) \subseteq SealedPacks
  BY DEF AffectedPacks
<1>3. ASSUME NEW p \in SealedPacks, Dependencies(p) \cap (AffectedPacks(r) \cup {r}) # {}
      PROVE  p \in AffectedPacks(r)
  BY <1>1, <1>3 DEF AffectedPacks
<1> QED
  BY <1>2, <1>3 DEF ClosedUnderCopying

\* What a worker's row may hold.
WorkerRows == [pc : BuilderSteps, pack : Packs \cup {NoPack}, got : SUBSET Subject]

LEMMA SteppedRow ==
  ASSUME NEW f \in [Builders -> WorkerRows], NEW w, NEW a \in BuilderSteps
  PROVE  [f EXCEPT ![w].pc = a] \in [Builders -> WorkerRows]
<1>1. CASE w \in Builders
  <2>1. f[w] \in WorkerRows
    BY <1>1
  <2>2. [f[w] EXCEPT !.pc = a] \in WorkerRows
    BY <2>1 DEF WorkerRows
  <2> QED
    BY <2>2
<1>2. CASE w \notin Builders
  BY <1>2
<1> QED
  BY <1>1, <1>2

LEMMA GatheredRow ==
  ASSUME NEW f \in [Builders -> WorkerRows], NEW w, NEW a \in BuilderSteps,
         NEW g \in SUBSET Subject
  PROVE  [f EXCEPT ![w].pc = a, ![w].got = g] \in [Builders -> WorkerRows]
<1>1. CASE w \in Builders
  <2>1. f[w] \in WorkerRows
    BY <1>1
  <2>2. [f[w] EXCEPT !.pc = a] \in WorkerRows
    BY <2>1 DEF WorkerRows
  <2>3. [f EXCEPT ![w].pc = a] \in [Builders -> WorkerRows]
    BY <2>2
  <2>4. PICK h \in [Builders -> WorkerRows] : h = [f EXCEPT ![w].pc = a]
    BY <2>3
  <2>5. [h[w] EXCEPT !.got = g] \in WorkerRows
    BY <1>1 DEF WorkerRows
  <2>6. [h EXCEPT ![w].got = g] \in [Builders -> WorkerRows]
    BY <2>5
  <2> QED
    BY <2>4, <2>6
<1>2. CASE w \notin Builders
  BY <1>2
<1> QED
  BY <1>1, <1>2

LEMMA PackStepKeepsTypes ==
  ASSUME PackInv, PackNext
  PROVE  PackTypeOK'
<1> USE PacksAssumption DEF PackInv, packRow, PackTypeOK, PackStates, BuilderSteps, HoldsLocks,
                            Subject, Resting
<1>1. ASSUME NEW p \in Packs, CreatePack(p) PROVE PackTypeOK'
  BY <1>1 DEF CreatePack
<1>2. ASSUME NEW p \in Packs, GeneratePack(p) PROVE PackTypeOK'
  BY <1>2 DEF GeneratePack
<1>3. ASSUME NEW p \in Packs, Redeliver(p) PROVE PackTypeOK'
  BY <1>3 DEF Redeliver
<1>4. ASSUME NEW p \in Packs, ReapStalled(p) PROVE PackTypeOK'
  BY <1>4 DEF ReapStalled, Reapable, ReapedAs
<1>5. ASSUME NEW p \in Packs, CreateShareLink(p) PROVE PackTypeOK'
  BY <1>5 DEF CreateShareLink, PackRowFree
<1>6. ASSUME NEW p \in Packs, RevokeShareLink(p) PROVE PackTypeOK'
  BY <1>6 DEF RevokeShareLink
<1>7. ASSUME NEW w \in Builders, NEW p \in Packs, Deliver(w, p) PROVE PackTypeOK'
  BY <1>7 DEF Deliver, Buildable
<1>8. ASSUME NEW w \in Builders, Gather(w) PROVE PackTypeOK'
  <2>0. builder[w].pack \in Packs
    BY <1>8 DEF Gather, WorkerFits
  <2>1. PICK may \in SUBSET Scope[builder[w].pack] :
          builder' = [builder EXCEPT ![w].pc = "gathered",
                                     ![w].got = Included(builder[w].pack, may)]
    BY <1>8 DEF Gather
  <2>2. Included(builder[w].pack, may) \in SUBSET Subject
    BY <2>0 DEF Included
  <2>3. builder' \in [Builders -> [pc : BuilderSteps, pack : Packs \cup {NoPack},
                                   got : SUBSET Subject]]
    <3>1. builder \in [Builders -> WorkerRows] /\ "gathered" \in BuilderSteps
      BY DEF WorkerRows
    <3>2. builder' \in [Builders -> WorkerRows]
      BY ONLY <2>1, <2>2, <3>1, GatheredRow
    <3> QED
      BY <3>2 DEF WorkerRows
  <2>4. UNCHANGED packRow /\ UNCHANGED <<gone, messages>>
    BY <1>8 DEF Gather
  <2> QED
    BY <2>3, <2>4
<1>9. ASSUME NEW w \in Builders, Seal(w) PROVE PackTypeOK'
  <2>0. builder[w].pack \in Packs
    BY <1>9 DEF Seal, WorkerFits
  <2>1. builder[w].got \cup Subjects[builder[w].pack] \in SUBSET Subject
    BY <2>0
  <2>2. contents' \in [Packs -> SUBSET Subject] /\ seals' \in [Packs -> Nat]
    BY <1>9, <2>0, <2>1 DEF Seal
  <2> QED
    BY <1>9, <2>0, <2>2, SMTT(20) DEF Seal, Step
<1>10. ASSUME NEW w \in Builders, BuildRaises(w) PROVE PackTypeOK'
  <2>1. builder' = [builder EXCEPT ![w].pc = "failing"] /\ UNCHANGED <<packRow, gone, messages>>
    BY <1>10 DEF BuildRaises, Step
  <2>2. builder \in [Builders -> WorkerRows] /\ "failing" \in BuilderSteps
    BY DEF WorkerRows
  <2>3. builder' \in [Builders -> WorkerRows]
    BY ONLY <2>1, <2>2, SteppedRow
  <2>4. builder' \in [Builders -> [pc : BuilderSteps, pack : Packs \cup {NoPack},
                                   got : SUBSET Subject]]
    BY <2>3 DEF WorkerRows
  <2> QED
    BY <2>1, <2>4
<1>11. ASSUME NEW w \in Builders, Fail(w) PROVE PackTypeOK'
  BY <1>11 DEF Fail, Rest
<1>12. ASSUME NEW w \in Builders, StartPortfolio(w) PROVE PackTypeOK'
  <2>1. builder' = [builder EXCEPT ![w].pc = "portfolio"] \/ builder' = [builder EXCEPT ![w] = Resting]
    BY <1>12 DEF StartPortfolio, Step, Rest
  <2>2. builder' \in [Builders -> [pc : BuilderSteps, pack : Packs \cup {NoPack},
                                   got : SUBSET Subject]]
    <3>1. CASE builder' = [builder EXCEPT ![w].pc = "portfolio"]
      <4>1. builder \in [Builders -> WorkerRows] /\ "portfolio" \in BuilderSteps
        BY DEF WorkerRows
      <4>2. builder' \in [Builders -> WorkerRows]
        BY ONLY <3>1, <4>1, SteppedRow
      <4> QED
        BY <4>2 DEF WorkerRows
    <3>2. CASE builder' = [builder EXCEPT ![w] = Resting]
      BY <3>2
    <3> QED
      BY <2>1, <3>1, <3>2
  <2>3. UNCHANGED packRow /\ UNCHANGED <<gone, messages>>
    BY <1>12 DEF StartPortfolio
  <2> QED
    BY <2>2, <2>3
<1>13. ASSUME NEW w \in Builders, FinishPortfolio(w) PROVE PackTypeOK'
  <2>0. builder[w].pack \in Packs
    BY <1>13 DEF FinishPortfolio, WorkerFits
  <2> QED
    BY <1>13, <2>0 DEF FinishPortfolio, Rest
<1>14. ASSUME NEW w \in Builders, BuilderDies(w) PROVE PackTypeOK'
  BY <1>14 DEF BuilderDies, Rest
<1>15. ASSUME NEW r \in Members, DestroyMember(r) PROVE PackTypeOK'
  BY <1>15 DEF DestroyMember
<1>16. ASSUME NEW r \in Subject, LegalErasure(r) PROVE PackTypeOK'
  BY <1>16 DEF LegalErasure, LinksAfterErasure, AffectedPacks, SealedPacks, ClosedUnderCopying
<1> QED
  BY <1>1, <1>2, <1>3, <1>4, <1>5, <1>6, <1>7, <1>8, <1>9, <1>10, <1>11, <1>12, <1>13, <1>14,
     <1>15, <1>16
  DEF PackNext

LEMMA PackStepKeepsWorkers ==
  ASSUME PackInv, PackNext
  PROVE  (\A x \in Builders : WorkerFits(x))'
<1> USE PacksAssumption DEF PackInv, packRow, PackTypeOK, WorkerFits, OneWorkerPerPack, Busy,
                            HoldsLocks, Resting, PackRowFree, Subject
<1>1. ASSUME NEW p \in Packs, CreatePack(p) PROVE (\A x \in Builders : WorkerFits(x))'
  BY <1>1 DEF CreatePack
<1>2. ASSUME NEW p \in Packs, GeneratePack(p) PROVE (\A x \in Builders : WorkerFits(x))'
  BY <1>2 DEF GeneratePack
<1>3. ASSUME NEW p \in Packs, Redeliver(p) PROVE (\A x \in Builders : WorkerFits(x))'
  BY <1>3 DEF Redeliver
<1>4. ASSUME NEW p \in Packs, ReapStalled(p) PROVE (\A x \in Builders : WorkerFits(x))'
  BY <1>4 DEF ReapStalled, Reapable, ReapedAs
<1>5. ASSUME NEW p \in Packs, CreateShareLink(p) PROVE (\A x \in Builders : WorkerFits(x))'
  BY <1>5 DEF CreateShareLink, PackRowFree
<1>6. ASSUME NEW p \in Packs, RevokeShareLink(p) PROVE (\A x \in Builders : WorkerFits(x))'
  BY <1>6 DEF RevokeShareLink
<1>7. ASSUME NEW w \in Builders, NEW p \in Packs, Deliver(w, p)
      PROVE  (\A x \in Builders : WorkerFits(x))'
  BY <1>7 DEF Deliver, Buildable
<1>8. ASSUME NEW w \in Builders, Gather(w) PROVE (\A x \in Builders : WorkerFits(x))'
  BY <1>8 DEF Gather, Included, SubjectsLive
<1>9. ASSUME NEW w \in Builders, Seal(w) PROVE (\A x \in Builders : WorkerFits(x))'
  BY <1>9 DEF Seal, Step
<1>10. ASSUME NEW w \in Builders, BuildRaises(w) PROVE (\A x \in Builders : WorkerFits(x))'
  BY <1>10 DEF BuildRaises, Step
<1>11. ASSUME NEW w \in Builders, Fail(w) PROVE (\A x \in Builders : WorkerFits(x))'
  BY <1>11 DEF Fail, Rest
<1>12. ASSUME NEW w \in Builders, StartPortfolio(w) PROVE (\A x \in Builders : WorkerFits(x))'
  BY <1>12 DEF StartPortfolio, Step, Rest
<1>13. ASSUME NEW w \in Builders, FinishPortfolio(w) PROVE (\A x \in Builders : WorkerFits(x))'
  BY <1>13 DEF FinishPortfolio, Rest
<1>14. ASSUME NEW w \in Builders, BuilderDies(w) PROVE (\A x \in Builders : WorkerFits(x))'
  BY <1>14 DEF BuilderDies, Rest
<1>15. ASSUME NEW r \in Members, DestroyMember(r) PROVE (\A x \in Builders : WorkerFits(x))'
  BY <1>15 DEF DestroyMember
<1>16. ASSUME NEW r \in Subject, LegalErasure(r) PROVE (\A x \in Builders : WorkerFits(x))'
  BY <1>16 DEF LegalErasure, LinksAfterErasure, AffectedPacks, SealedPacks, ClosedUnderCopying
<1> QED
  BY <1>1, <1>2, <1>3, <1>4, <1>5, <1>6, <1>7, <1>8, <1>9, <1>10, <1>11, <1>12, <1>13, <1>14,
     <1>15, <1>16
  DEF PackNext

LEMMA PackStepKeepsOneWorker ==
  ASSUME PackInv, PackNext
  PROVE  OneWorkerPerPack'
<1> USE PacksAssumption DEF PackInv, packRow, PackTypeOK, OneWorkerPerPack, Busy, HoldsLocks,
                            Resting, PackRowFree
<1>1. ASSUME NEW p \in Packs, CreatePack(p) PROVE OneWorkerPerPack'
  BY <1>1 DEF CreatePack
<1>2. ASSUME NEW p \in Packs, GeneratePack(p) PROVE OneWorkerPerPack'
  BY <1>2 DEF GeneratePack
<1>3. ASSUME NEW p \in Packs, Redeliver(p) PROVE OneWorkerPerPack'
  BY <1>3 DEF Redeliver
<1>4. ASSUME NEW p \in Packs, ReapStalled(p) PROVE OneWorkerPerPack'
  BY <1>4 DEF ReapStalled, Reapable, ReapedAs
<1>5. ASSUME NEW p \in Packs, CreateShareLink(p) PROVE OneWorkerPerPack'
  BY <1>5 DEF CreateShareLink, PackRowFree
<1>6. ASSUME NEW p \in Packs, RevokeShareLink(p) PROVE OneWorkerPerPack'
  BY <1>6 DEF RevokeShareLink
<1>7. ASSUME NEW w \in Builders, NEW p \in Packs, Deliver(w, p) PROVE OneWorkerPerPack'
  BY <1>7 DEF Deliver, Buildable
<1>8. ASSUME NEW w \in Builders, Gather(w) PROVE OneWorkerPerPack'
  BY <1>8 DEF Gather, Included, SubjectsLive
<1>9. ASSUME NEW w \in Builders, Seal(w) PROVE OneWorkerPerPack'
  BY <1>9 DEF Seal, Step
<1>10. ASSUME NEW w \in Builders, BuildRaises(w) PROVE OneWorkerPerPack'
  BY <1>10 DEF BuildRaises, Step
<1>11. ASSUME NEW w \in Builders, Fail(w) PROVE OneWorkerPerPack'
  BY <1>11 DEF Fail, Rest
<1>12. ASSUME NEW w \in Builders, StartPortfolio(w) PROVE OneWorkerPerPack'
  BY <1>12 DEF StartPortfolio, Step, Rest
<1>13. ASSUME NEW w \in Builders, FinishPortfolio(w) PROVE OneWorkerPerPack'
  BY <1>13 DEF FinishPortfolio, Rest
<1>14. ASSUME NEW w \in Builders, BuilderDies(w) PROVE OneWorkerPerPack'
  BY <1>14 DEF BuilderDies, Rest
<1>15. ASSUME NEW r \in Members, DestroyMember(r) PROVE OneWorkerPerPack'
  BY <1>15 DEF DestroyMember
<1>16. ASSUME NEW r \in Subject, LegalErasure(r) PROVE OneWorkerPerPack'
  BY <1>16 DEF LegalErasure, LinksAfterErasure, AffectedPacks, SealedPacks, ClosedUnderCopying
<1> QED
  BY <1>1, <1>2, <1>3, <1>4, <1>5, <1>6, <1>7, <1>8, <1>9, <1>10, <1>11, <1>12, <1>13, <1>14,
     <1>15, <1>16
  DEF PackNext

LEMMA PackStepKeepsPacks ==
  ASSUME PackInv, PackNext
  PROVE  (\A q \in Packs : PackFits(q))'
<1> USE PacksAssumption DEF PackInv, packRow, PackTypeOK, WorkerFits, PackFits, Dependencies,
                            HoldsLocks, Subject
<1>1. ASSUME NEW p \in Packs, CreatePack(p) PROVE (\A q \in Packs : PackFits(q))'
  BY <1>1 DEF CreatePack
<1>2. ASSUME NEW p \in Packs, GeneratePack(p) PROVE (\A q \in Packs : PackFits(q))'
  BY <1>2 DEF GeneratePack
<1>3. ASSUME NEW p \in Packs, Redeliver(p) PROVE (\A q \in Packs : PackFits(q))'
  BY <1>3 DEF Redeliver
<1>4. ASSUME NEW p \in Packs, ReapStalled(p) PROVE (\A q \in Packs : PackFits(q))'
  BY <1>4 DEF ReapStalled, Reapable, ReapedAs
<1>5. ASSUME NEW p \in Packs, CreateShareLink(p) PROVE (\A q \in Packs : PackFits(q))'
  BY <1>5 DEF CreateShareLink, PackRowFree
<1>6. ASSUME NEW p \in Packs, RevokeShareLink(p) PROVE (\A q \in Packs : PackFits(q))'
  BY <1>6 DEF RevokeShareLink
<1>7. ASSUME NEW w \in Builders, NEW p \in Packs, Deliver(w, p)
      PROVE  (\A q \in Packs : PackFits(q))'
  BY <1>7 DEF Deliver, Buildable
<1>8. ASSUME NEW w \in Builders, Gather(w) PROVE (\A q \in Packs : PackFits(q))'
  BY <1>8 DEF Gather, Included, SubjectsLive
<1>9. ASSUME NEW w \in Builders, Seal(w) PROVE (\A q \in Packs : PackFits(q))'
  BY <1>9 DEF Seal, Step
<1>10. ASSUME NEW w \in Builders, BuildRaises(w) PROVE (\A q \in Packs : PackFits(q))'
  BY <1>10 DEF BuildRaises, Step
<1>11. ASSUME NEW w \in Builders, Fail(w) PROVE (\A q \in Packs : PackFits(q))'
  BY <1>11 DEF Fail, Rest
<1>12. ASSUME NEW w \in Builders, StartPortfolio(w) PROVE (\A q \in Packs : PackFits(q))'
  BY <1>12 DEF StartPortfolio, Step, Rest
<1>13. ASSUME NEW w \in Builders, FinishPortfolio(w) PROVE (\A q \in Packs : PackFits(q))'
  BY <1>13 DEF FinishPortfolio, Rest
<1>14. ASSUME NEW w \in Builders, BuilderDies(w) PROVE (\A q \in Packs : PackFits(q))'
  BY <1>14 DEF BuilderDies, Rest
<1>15. ASSUME NEW r \in Members, DestroyMember(r) PROVE (\A q \in Packs : PackFits(q))'
  BY <1>15 DEF DestroyMember
<1>16. ASSUME NEW r \in Subject, LegalErasure(r) PROVE (\A q \in Packs : PackFits(q))'
  <2> DEFINE hit == AffectedPacks(r)
  <2>1. hit \subseteq SealedPacks /\ ClosedUnderCopying(hit, r)
    BY AffectedIsClosed
  <2>2. /\ gone' = [x \in Subject |-> IF x = r \/ x \in hit THEN "erased" ELSE gone[x]]
        /\ packStatus' = [p \in Packs |-> IF p \in hit THEN "UNAVAILABLE" ELSE packStatus[p]]
        /\ zipKept' = zipKept \ hit /\ portfolio' = portfolio \ hit
        /\ shareLink' = LinksAfterErasure(hit)
        /\ UNCHANGED <<packRecord, contents, seals>>
        /\ r \in Packs => r \in packRecord
    BY <1>16 DEF LegalErasure
  <2> HIDE DEF hit
  <2> SUFFICES ASSUME NEW q \in Packs PROVE PackFits(q)'
    OBVIOUS
  <2>3. q \in hit => packStatus[q] = "SEALED"
    BY <2>1 DEF SealedPacks
  <2>4. q \notin packRecord => seals'[q] = 0 /\ gone'[q] # "erased"
    BY <2>2, <2>3
  <2>5. packStatus'[q] = "SEALED" => q \notin hit /\ packStatus[q] = "SEALED"
    BY <2>2
  <2>6. ASSUME packStatus'[q] = "SEALED", NEW x \in Dependencies(q) PROVE gone'[x] # "erased"
    <3>1. x \in Subject /\ gone[x] # "erased"
      BY <2>5, <2>6
    <3>2. x # r /\ x \notin hit
      BY <2>1, <2>5, <2>6 DEF ClosedUnderCopying, SealedPacks
    <3> QED
      BY <2>2, <3>1, <3>2
  <2>7. packStatus'[q] = "UNAVAILABLE" =>
           q \notin zipKept' /\ q \notin portfolio' /\ shareLink'[q] # "live"
    BY <2>2 DEF LinksAfterErasure
  <2>8. Dependencies(q)' = Dependencies(q)
    BY <2>2
  <2> QED
    BY <2>2, <2>4, <2>5, <2>6, <2>7, <2>8
<1> QED
  BY <1>1, <1>2, <1>3, <1>4, <1>5, <1>6, <1>7, <1>8, <1>9, <1>10, <1>11, <1>12, <1>13, <1>14,
     <1>15, <1>16
  DEF PackNext

LEMMA PackInitInv == PackInit => PackInv
  BY PacksAssumption
  DEF PackInit, PackInv, PackTypeOK, WorkerFits, OneWorkerPerPack, PackFits, Dependencies, Busy,
      Resting, HoldsLocks, BuilderSteps, PackStates, Subject

LEMMA PackStepKeepsInv == PackInv /\ [PackNext]_packVars => PackInv'
<1>1. ASSUME PackInv, PackNext PROVE PackInv'
  BY <1>1, PackStepKeepsTypes, PackStepKeepsWorkers, PackStepKeepsOneWorker, PackStepKeepsPacks
  DEF PackInv
<1>2. ASSUME PackInv, UNCHANGED packVars PROVE PackInv'
  BY <1>2
  DEF packVars, PackInv, PackTypeOK, WorkerFits, OneWorkerPerPack, PackFits, Dependencies, Busy
<1> QED
  BY <1>1, <1>2

\* The records whose content a ZIP holds are closed under the ZIPs among them.
LEMMA CopiesAreCarried ==
  ASSUME NEW p
  PROVE  /\ Dependencies(p) \cap Subject \subseteq Copies(p)
         /\ \A q \in Packs \cap Copies(p) : contents[q] \cap Subject \subseteq Copies(p)
  BY DEF Copies, CarriedAlong

\* At any depth, what a sealed pack holds of an erased record came through a pack that failed
\* after it sealed.  The copies of which that is true, or which are not erased, include what the
\* pack copied itself and are closed under the ZIPs among them: a pack among them whose record is
\* not erased is SEALED, and then copied nothing erased itself, or it is the failed one.
LEMMA FailedPacksHideCopies ==
  ASSUME PackInv
  PROVE  OnlyFailedPacksHideCopies
<1> SUFFICES ASSUME NEW p \in Packs, packStatus[p] = "SEALED", NEW r \in Copies(p),
                    gone[r] = "erased"
             PROVE  \E q \in Packs \cap Copies(p) : FailedAfterSeal(q) /\ r \in Copies(q)
  BY DEF OnlyFailedPacksHideCopies
<1> DEFINE Excused(x) == \E q \in Packs \cap Copies(p) : FailedAfterSeal(q) /\ x \in Copies(q)
           Good == {x \in Copies(p) : gone[x] # "erased" \/ Excused(x)}
<1>1. Copies(p) \subseteq Subject
  BY DEF Copies
<1>2. \A q \in Packs : PackFits(q) /\ contents[q] \subseteq Subject /\ Dependencies(q) \subseteq Subject
  BY DEF PackInv, PackTypeOK, Dependencies, Subject
<1>3. Dependencies(p) \subseteq Good
  <2>1. \A x \in Dependencies(p) : x \in Copies(p) /\ gone[x] # "erased"
    BY <1>2, CopiesAreCarried DEF PackFits
  <2> QED
    BY <2>1
<1>4. CarriedAlong(Good)
  <2> SUFFICES ASSUME NEW q \in Packs, q \in Good, NEW x \in contents[q] PROVE x \in Good
    BY DEF CarriedAlong
  <2>1. x \in Subject /\ x \in Copies(p)
    BY <1>2, CopiesAreCarried
  <2>2. CASE Excused(q)
    <3>1. PICK f \in Packs \cap Copies(p) : FailedAfterSeal(f) /\ q \in Copies(f)
      BY <2>2
    <3>2. x \in Copies(f)
      BY <2>1, <3>1, CopiesAreCarried
    <3> QED
      BY <2>1, <3>1, <3>2
  <2>3. CASE gone[q] # "erased"
    <3>1. q \in packRecord /\ packStatus[q] \notin {"Absent", "DRAFT", "UNAVAILABLE"}
      BY <1>2, <2>3 DEF PackFits
    <3>2. packStatus[q] \in PackStates
      BY DEF PackInv, PackTypeOK
    <3>3. CASE packStatus[q] = "SEALED"
      <4>1. gone[x] # "erased"
        BY <1>2, <3>3 DEF PackFits, Dependencies
      <4> QED
        BY <2>1, <4>1
    <3>4. CASE packStatus[q] \in {"FAILED", "BUILDING"}
      <4>1. FailedAfterSeal(q)
        BY <3>1, <3>4 DEF FailedAfterSeal
      <4>2. x \in Copies(q)
        BY <2>1, CopiesAreCarried DEF Dependencies
      <4> QED
        BY <2>1, <4>1, <4>2
    <3> QED
      BY <3>1, <3>2, <3>3, <3>4 DEF PackStates
  <2> QED
    BY <2>2, <2>3
<1>5. r \in Good
  <2>1. Good \in SUBSET Subject
    BY <1>1
  <2> HIDE DEF Good
  <2> QED
    BY <1>3, <1>4, <2>1 DEF Copies
<1> QED
  BY <1>5

\* However builds are delivered, retried, reaped and killed, packs nested and links made: a pack
\* registers one record, a link that resolves finds its bytes, and a record erased by legal order
\* is in a pack that can still be handed out only inside the ZIP of one that failed after it
\* sealed (services/packs: build, the reaper and invalidation).
THEOREM PacksStaySound == PackSpec => []PacksAreSound
<1>1. PackInv => PacksAreSound
  BY FailedPacksHideCopies
  DEF PackInv, PackFits, PacksAreSound, OneRecordPerPack, ErasedIsNoMember,
      ServedPacksAreWhole, Served
<1> QED
  BY <1>1, PackInitInv, PackStepKeepsInv, PTL DEF PackSpec

-----------------------------------------------------------------------------
(* Records and their evidence.  EvidenceIsAccountedFor is far from inductive:  *)
(* what a purge erases must belong to a record that is destroyed for good,     *)
(* what a capture is about to link must still be in storage when it commits,   *)
(* and a rendition must not be stored for a record that is being destroyed.    *)

\* The columns of one record agree; its tombstone is a lawful one.
RecordFits(r) ==
  /\ recState[r] = "Absent" =>
       /\ ~recHold[r] /\ destroyReq[r].status = "none"
       /\ \A o \in Objects : <<r, o>> \notin kept
  /\ recState[r] # "Absent" => capturer[r] \in People
  /\ recHold[r] => recState[r] = "ON_HOLD"
  /\ recState[r] = "DISPOSED" <=> tombstone[r].action # "none"
  /\ destroyReq[r].status = "open" => destroyReq[r].by # NoOne

TombstoneFits(r) ==
  /\ tombstone[r].worm =>
       /\ tombstone[r].action = "DESTROY" /\ lockMode = "GOVERNANCE"
       /\ tombstone[r].requested # NoOne /\ tombstone[r].approved \notin {NoOne, tombstone[r].requested}
       /\ destroyReq[r].status = "executed" /\ destroyReq[r].by = tombstone[r].requested
  /\ tombstone[r].action # "none" /\ ~tombstone[r].worm =>
       /\ tombstone[r].action = recPolicy[r].action
       /\ tombstone[r].approved = capturer[r] => AllowSelf

\* Owned evidence has its row and its bytes, and only a destroyed record gives evidence up.
OwnershipFits ==
  /\ blobRow \subseteq bytes
  /\ \A r \in Recs, o \in Objects :
       /\ <<r, o>> \in owns => o \in blobRow /\ <<r, o>> \in kept
       /\ <<r, o>> \in kept /\ ContentPreserved(r) => <<r, o>> \in owns
  /\ \A r, q \in Recs : <<q, Pdf(r)>> \in kept => q = r

MarkerFits(m) ==
  /\ tombstone[m.rec].action = "DESTROY" /\ <<m.rec, m.obj>> \in kept
  /\ m.bypass => tombstone[m.rec].worm

\* While a purge holds an object, nobody stores it again.
PurgeFits(m) == m.obj \notin bytes /\ (capture.pc # "idle" => capture.sha # m.obj)

RenderingFits(r) == Pdf(r) \in bytes /\ Exists(r) /\ tombstone[r].action # "DESTROY"

\* What a capture has linked is in storage, and its row stays.
CaptureFits ==
  /\ capture.pc # "idle" => recState[capture.rec] = "Absent"
  /\ capture.pc = "promoted" => ~capture.reuse
  /\ capture.pc = "extended" => capture.reuse
  /\ capture.pc \in {"promoted", "linked"} /\ ~capture.reuse => capture.sha \in bytes
  /\ capture.pc \in {"linked", "extended"} /\ capture.reuse => capture.sha \in blobRow

RecInv ==
  /\ RecTypeOK
  /\ \A r \in Recs : RecordFits(r)
  /\ \A r \in Recs : TombstoneFits(r)
  /\ OwnershipFits
  /\ \A m \in markers : MarkerFits(m)
  /\ \A m \in purging : PurgeFits(m)
  /\ \A r \in rendering : RenderingFits(r)
  /\ CaptureFits
  /\ ErasureIsTracked

\* The steps that move a record between its living states.
Shifts(r) ==
  /\ recState[r] \notin {"Absent", "DISPOSED"}
  /\ \E s \in {"ACTIVE", "DUE_FOR_REVIEW", "ON_HOLD"}, h \in BOOLEAN :
       /\ h => s = "ON_HOLD"
       /\ recHold[r] => s \in {"ACTIVE", "ON_HOLD"}
       /\ recHold' = [recHold EXCEPT ![r] = h]
       /\ SetState(r, s)

\* The steps that open or cancel a request for destruction.
Asks(r) ==
  /\ destroyReq[r].status # "executed" \/ recState[r] # "DISPOSED"
  /\ recState[r] # "Absent"
  /\ \E q \in {NoRequest} \cup {[status |-> "open", by |-> u] : u \in People} : SetRequest(r, q)

\* The steps that dispose of a record, and why they may: the policy says so, or an order does.
Disposes(r, action, worm, requested, approved) ==
  /\ RowFree(r) /\ BlobsFree(r) /\ recState[r] \notin {"Absent", "DISPOSED"} /\ ~recHold[r]
  /\ action \in {"DESTROY", "ARCHIVE"} /\ worm \in BOOLEAN
  /\ requested \in People \cup {NoOne} /\ approved \in People \cup {NoOne}
  /\ worm => /\ action = "DESTROY" /\ lockMode = "GOVERNANCE"
             /\ requested # NoOne /\ approved \notin {NoOne, requested}
             /\ destroyReq' = [destroyReq EXCEPT ![r] = [status |-> "executed", by |-> requested]]
  /\ ~worm => /\ action = recPolicy[r].action /\ UNCHANGED destroyReq
              /\ approved = capturer[r] => AllowSelf
  /\ Dispose(r, action, worm, requested, approved)

LEMMA CaptureIs ==
  ASSUME RecTypeOK, capture.pc # "idle"
  PROVE  /\ capture \in Captures /\ capture.rec \in Recs /\ capture.sha \in Shas
         /\ capture.policy \in Policies /\ capture.by \in People /\ capture.reuse \in BOOLEAN
  BY DEF RecTypeOK, Captures, NoCapture

\* The steps as the rest of the proof sees them.
RecMoves ==
  \/ \E r \in Recs, s \in Shas, p \in Policies, u \in Clerks : CaptureBegin(r, s, p, u)
  \/ CapturePromote \/ CaptureLink \/ CaptureExtend \/ CaptureCommit \/ CaptureAbort
  \/ \E r \in Recs :
       \/ RenderStore(r) \/ RenderCommit(r) \/ RenderCrash(r)
       \/ Shifts(r) \/ Asks(r)
       \/ \E a, w, q, u : Disposes(r, a, w, q, u)
  \/ \E m \in markers : PurgeStale(m) \/ PurgeErase(m) \/ PurgeCommit(m) \/ PurgeCrash(m)
  \/ \E o \in Objects : LockExpires(o)


\* The marker a disposal of r leaves for o.
MarkerOf(r, o, worm) == [rec |-> r, obj |-> o, bypass |-> worm /\ o \in Shas]

\* The rows a disposal drops: nothing another living record needs, nothing unless it destroys.
Drops(r, action, worm, G) ==
  /\ G \subseteq OwnedBy(r)
  /\ markers' = markers \cup {MarkerOf(r, o, worm) : o \in G}
  /\ blobRow' = blobRow \ G /\ rowLock' = rowLock \ G /\ owns' \subseteq owns
  /\ \A q \in Recs, o \in Objects :
       <<q, o>> \in owns' <=> <<q, o>> \in owns /\ (action = "DESTROY" => q # r) /\ o \notin G
  /\ \A q \in Recs \ {r}, o \in G : <<q, o>> \in owns => ~ContentPreserved(q)
  /\ action = "DESTROY" => \A o \in OwnedBy(r) \ G : NeededByOther(r, o)
  /\ action # "DESTROY" => G = {}

LEMMA DisposalDrops ==
  ASSUME RecTypeOK, NEW r \in Recs, NEW a, NEW w, NEW q, NEW u, Dispose(r, a, w, q, u)
  PROVE  \E G : Drops(r, a, w, G)
<1>1. CASE a = "DESTROY"
  <2> DEFINE G == {x \in OwnedBy(r) : ~NeededByOther(r, x)}
  <2>1. Markings(r, w) = {MarkerOf(r, o, w) : o \in G}
    BY DEF Markings, MarkerOf
  <2>2. {m.obj : m \in Markings(r, w)} = G
    <3> HIDE DEF G
    <3>1. \A o \in G : MarkerOf(r, o, w).obj = o /\ MarkerOf(r, o, w) \in Markings(r, w)
      BY <2>1 DEF MarkerOf
    <3>2. \A m \in Markings(r, w) : m.obj \in G
      BY <2>1, <3>1
    <3>3. G \subseteq {m.obj : m \in Markings(r, w)}
      BY <3>1
    <3> QED
      BY <3>2, <3>3
  <2>3. MarkForPurge(r, w)
    BY <1>1 DEF Dispose
  <2>4. /\ markers' = markers \cup Markings(r, w) /\ blobRow' = blobRow \ G
        /\ owns' = {x \in owns : x[1] # r /\ x[2] \notin G} /\ rowLock' = rowLock \ G
    BY <2>2, <2>3 DEF MarkForPurge
  <2>5. ASSUME NEW p \in Recs \ {r}, NEW o \in G, <<p, o>> \in owns PROVE ~ContentPreserved(p)
    BY <2>5 DEF NeededByOther
  <2>6. \A p \in Recs, o \in Objects : <<p, o>> \in owns' <=> <<p, o>> \in owns /\ p # r /\ o \notin G
    BY <2>4
  <2>7. G \subseteq OwnedBy(r) /\ \A o \in OwnedBy(r) \ G : NeededByOther(r, o)
    OBVIOUS
  <2>8. owns' \subseteq owns
    BY <2>4
  <2> HIDE DEF G
  <2>9. Drops(r, a, w, G)
    BY <1>1, <2>1, <2>4, <2>5, <2>6, <2>7, <2>8 DEF Drops
  <2> QED
    BY <2>9
<1>2. CASE a # "DESTROY"
  <2>1. UNCHANGED <<markers, blobRow, owns, rowLock>>
    BY <1>2 DEF Dispose
  <2>2. Drops(r, a, w, {})
    BY <1>2, <2>1 DEF Drops
  <2> QED
    BY <2>2
<1> QED
  BY <1>1, <1>2

LEMMA RecStepKeepsTypes ==
  ASSUME RecInv, RecMoves
  PROVE  RecTypeOK'
<1> USE RecordsAssumption, RenditionsAssumption, CaptureIs
  DEF RecInv, recordRow, storageVars, RecTypeOK, Captures, CaptureSteps, NoCapture, Markers,
      Objects, DispositionStates
<1>1. ASSUME NEW r \in Recs, NEW s \in Shas, NEW p \in Policies, NEW u \in Clerks,
             CaptureBegin(r, s, p, u)
      PROVE  RecTypeOK'
  BY <1>1 DEF CaptureBegin, ObjectFree
<1>2. ASSUME CapturePromote PROVE RecTypeOK'
  BY <1>2 DEF CapturePromote
<1>3. ASSUME CaptureLink PROVE RecTypeOK'
  BY <1>3 DEF CaptureLink
<1>4. ASSUME CaptureExtend PROVE RecTypeOK'
  BY <1>4 DEF CaptureExtend
<1>5. ASSUME CaptureCommit PROVE RecTypeOK'
  BY <1>5 DEF CaptureCommit
<1>6. ASSUME CaptureAbort PROVE RecTypeOK'
  BY <1>6 DEF CaptureAbort
<1>7. ASSUME NEW r \in Recs, RenderStore(r) PROVE RecTypeOK'
  <2>1. Pdf(r) \in Objects
    BY DEF Pdfs
  <2> QED
    BY <1>7, <2>1 DEF RenderStore
<1>8. ASSUME NEW r \in Recs, RenderCommit(r) PROVE RecTypeOK'
  <2>1. Pdf(r) \in Objects /\ <<r, Pdf(r)>> \in Recs \X Objects
    BY DEF Pdfs
  <2> QED
    BY <1>8, <2>1 DEF RenderCommit
<1>9. ASSUME NEW r \in Recs, RenderCrash(r) PROVE RecTypeOK'
  BY <1>9 DEF RenderCrash
<1>10. ASSUME NEW r \in Recs, Shifts(r) PROVE RecTypeOK'
  BY <1>10 DEF Shifts, SetState
<1>11. ASSUME NEW r \in Recs, Asks(r) PROVE RecTypeOK'
  BY <1>11 DEF Asks, SetRequest, NoRequest
<1>12. ASSUME NEW r \in Recs, NEW a, NEW w, NEW q, NEW u, Disposes(r, a, w, q, u) PROVE RecTypeOK'
  <2>0. PICK G : Drops(r, a, w, G)
    BY <1>12, DisposalDrops DEF Disposes
  <2>1. {MarkerOf(r, o, w) : o \in G} \subseteq Markers
    <3>1. ASSUME NEW o \in G PROVE MarkerOf(r, o, w) \in Markers
      <4>1. (w /\ o \in Shas) \in BOOLEAN
        OBVIOUS
      <4>2. o \in Objects
        BY <2>0 DEF Drops, OwnedBy
      <4> QED
        BY <4>1, <4>2 DEF MarkerOf
    <3> QED
      BY ONLY <3>1
  <2>2. /\ markers' \in SUBSET Markers /\ purging' \in SUBSET markers'
        /\ blobRow' \in SUBSET Objects /\ rowLock' \in SUBSET Objects
        /\ owns' \in SUBSET (Recs \X Objects)
    BY <1>12, <2>0, <2>1 DEF Drops, Disposes, Dispose
  <2>3. /\ recState' \in [Recs -> DispositionStates \cup {"Absent"}]
        /\ tombstone' \in [Recs -> [action : {"none", "DESTROY", "ARCHIVE"}, worm : BOOLEAN,
                                    requested : People \cup {NoOne}, approved : People \cup {NoOne}]]
    BY <1>12 DEF Disposes, Dispose
  <2>4. destroyReq' \in [Recs -> [status : {"none", "open", "executed"}, by : People \cup {NoOne}]]
    <3>1. CASE w
      <4>1. /\ destroyReq' = [destroyReq EXCEPT ![r] = [status |-> "executed", by |-> q]]
            /\ q \in People \cup {NoOne}
        BY <1>12, <3>1 DEF Disposes
      <4> QED
        BY <4>1
    <3>2. CASE ~w
      <4>1. destroyReq' = destroyReq
        BY <1>12, <3>2 DEF Disposes
      <4> QED
        BY <4>1
    <3> QED
      BY <3>1, <3>2
  <2>5. UNCHANGED <<recHold, recPolicy, capturer, bytes, objLock, strays, capture, rendering>>
        /\ UNCHANGED <<lockMode, kept, aborts>>
    BY <1>12 DEF Disposes, Dispose
  <2> QED
    BY <2>2, <2>3, <2>4, <2>5
<1>13. ASSUME NEW m \in markers, PurgeStale(m) PROVE RecTypeOK'
  BY <1>13 DEF PurgeStale, Owned
<1>14. ASSUME NEW m \in markers, PurgeErase(m) PROVE RecTypeOK'
  BY <1>14 DEF PurgeErase, ObjectFree, Owned
<1>15. ASSUME NEW m \in markers, PurgeCommit(m) PROVE RecTypeOK'
  BY <1>15 DEF PurgeCommit
<1>16. ASSUME NEW m \in markers, PurgeCrash(m) PROVE RecTypeOK'
  BY <1>16 DEF PurgeCrash
<1>17. ASSUME NEW o \in Objects, LockExpires(o) PROVE RecTypeOK'
  BY <1>17 DEF LockExpires
<1> QED
  BY <1>1, <1>2, <1>3, <1>4, <1>5, <1>6, <1>7, <1>8, <1>9, <1>10, <1>11, <1>12, <1>13, <1>14,
     <1>15, <1>16, <1>17
  DEF RecMoves

LEMMA RecStepKeepsRecords ==
  ASSUME RecInv, RecMoves
  PROVE  (\A x \in Recs : RecordFits(x))'
<1> USE RecordsAssumption, RenditionsAssumption, CaptureIs
  DEF RecInv, recordRow, storageVars, RecTypeOK, RecordFits, CaptureFits, Objects
<1>1. ASSUME NEW r \in Recs, NEW s \in Shas, NEW p \in Policies, NEW u \in Clerks,
             CaptureBegin(r, s, p, u)
      PROVE  (\A x \in Recs : RecordFits(x))'
  BY <1>1 DEF CaptureBegin, ObjectFree
<1>2. ASSUME CapturePromote PROVE (\A x \in Recs : RecordFits(x))'
  BY <1>2 DEF CapturePromote
<1>3. ASSUME CaptureLink PROVE (\A x \in Recs : RecordFits(x))'
  BY <1>3 DEF CaptureLink
<1>4. ASSUME CaptureExtend PROVE (\A x \in Recs : RecordFits(x))'
  BY <1>4 DEF CaptureExtend
<1>5. ASSUME CaptureCommit PROVE (\A x \in Recs : RecordFits(x))'
  BY <1>5 DEF CaptureCommit
<1>6. ASSUME CaptureAbort PROVE (\A x \in Recs : RecordFits(x))'
  BY <1>6 DEF CaptureAbort
<1>7. ASSUME NEW r \in Recs, RenderStore(r) PROVE (\A x \in Recs : RecordFits(x))'
  BY <1>7 DEF RenderStore, RowFree
<1>8. ASSUME NEW r \in Recs, RenderCommit(r) PROVE (\A x \in Recs : RecordFits(x))'
  <2>1. recState[r] # "Absent"
    BY <1>8 DEF RenderCommit, RenderingFits, Exists
  <2>2. \A x \in Recs : x # r => \A o : <<x, o>> \in kept' <=> <<x, o>> \in kept
    BY <1>8 DEF RenderCommit
  <2>3. UNCHANGED <<recState, recHold, capturer, tombstone, destroyReq>>
    BY <1>8 DEF RenderCommit
  <2> QED
    BY <2>1, <2>2, <2>3
<1>9. ASSUME NEW r \in Recs, RenderCrash(r) PROVE (\A x \in Recs : RecordFits(x))'
  BY <1>9 DEF RenderCrash
<1>10. ASSUME NEW r \in Recs, Shifts(r) PROVE (\A x \in Recs : RecordFits(x))'
  BY <1>10 DEF Shifts, SetState
<1>11. ASSUME NEW r \in Recs, Asks(r) PROVE (\A x \in Recs : RecordFits(x))'
  BY <1>11 DEF Asks, SetRequest, NoRequest
<1>12. ASSUME NEW r \in Recs, NEW a, NEW w, NEW q, NEW u, Disposes(r, a, w, q, u)
       PROVE  (\A x \in Recs : RecordFits(x))'
  BY <1>12 DEF Disposes, Dispose, MarkForPurge, Markings, RowFree
<1>13. ASSUME NEW m \in markers, PurgeStale(m) PROVE (\A x \in Recs : RecordFits(x))'
  BY <1>13 DEF PurgeStale, Owned
<1>14. ASSUME NEW m \in markers, PurgeErase(m) PROVE (\A x \in Recs : RecordFits(x))'
  BY <1>14 DEF PurgeErase, ObjectFree, Owned
<1>15. ASSUME NEW m \in markers, PurgeCommit(m) PROVE (\A x \in Recs : RecordFits(x))'
  BY <1>15 DEF PurgeCommit
<1>16. ASSUME NEW m \in markers, PurgeCrash(m) PROVE (\A x \in Recs : RecordFits(x))'
  BY <1>16 DEF PurgeCrash
<1>17. ASSUME NEW o \in Objects, LockExpires(o) PROVE (\A x \in Recs : RecordFits(x))'
  BY <1>17 DEF LockExpires
<1> QED
  BY <1>1, <1>2, <1>3, <1>4, <1>5, <1>6, <1>7, <1>8, <1>9, <1>10, <1>11, <1>12, <1>13, <1>14,
     <1>15, <1>16, <1>17
  DEF RecMoves

LEMMA RecStepKeepsTombstones ==
  ASSUME RecInv, RecMoves
  PROVE  (\A x \in Recs : TombstoneFits(x))'
<1> USE RecordsAssumption, RenditionsAssumption, CaptureIs
  DEF RecInv, recordRow, storageVars, RecTypeOK, RecordFits, TombstoneFits, CaptureFits
<1>1. ASSUME NEW r \in Recs, NEW s \in Shas, NEW p \in Policies, NEW u \in Clerks,
             CaptureBegin(r, s, p, u)
      PROVE  (\A x \in Recs : TombstoneFits(x))'
  BY <1>1 DEF CaptureBegin, ObjectFree
<1>2. ASSUME CapturePromote PROVE (\A x \in Recs : TombstoneFits(x))'
  BY <1>2 DEF CapturePromote
<1>3. ASSUME CaptureLink PROVE (\A x \in Recs : TombstoneFits(x))'
  BY <1>3 DEF CaptureLink
<1>4. ASSUME CaptureExtend PROVE (\A x \in Recs : TombstoneFits(x))'
  BY <1>4 DEF CaptureExtend
<1>5. ASSUME CaptureCommit PROVE (\A x \in Recs : TombstoneFits(x))'
  BY <1>5 DEF CaptureCommit
<1>6. ASSUME CaptureAbort PROVE (\A x \in Recs : TombstoneFits(x))'
  BY <1>6 DEF CaptureAbort
<1>7. ASSUME NEW r \in Recs, RenderStore(r) PROVE (\A x \in Recs : TombstoneFits(x))'
  BY <1>7 DEF RenderStore, RowFree
<1>8. ASSUME NEW r \in Recs, RenderCommit(r) PROVE (\A x \in Recs : TombstoneFits(x))'
  BY <1>8 DEF RenderCommit
<1>9. ASSUME NEW r \in Recs, RenderCrash(r) PROVE (\A x \in Recs : TombstoneFits(x))'
  BY <1>9 DEF RenderCrash
<1>10. ASSUME NEW r \in Recs, Shifts(r) PROVE (\A x \in Recs : TombstoneFits(x))'
  BY <1>10 DEF Shifts, SetState
<1>11. ASSUME NEW r \in Recs, Asks(r) PROVE (\A x \in Recs : TombstoneFits(x))'
  BY <1>11 DEF Asks, SetRequest, NoRequest
<1>12. ASSUME NEW r \in Recs, NEW a, NEW w, NEW q, NEW u, Disposes(r, a, w, q, u)
       PROVE  (\A x \in Recs : TombstoneFits(x))'
  BY <1>12 DEF Disposes, Dispose, MarkForPurge, Markings, RowFree
<1>13. ASSUME NEW m \in markers, PurgeStale(m) PROVE (\A x \in Recs : TombstoneFits(x))'
  BY <1>13 DEF PurgeStale, Owned
<1>14. ASSUME NEW m \in markers, PurgeErase(m) PROVE (\A x \in Recs : TombstoneFits(x))'
  BY <1>14 DEF PurgeErase, ObjectFree, Owned
<1>15. ASSUME NEW m \in markers, PurgeCommit(m) PROVE (\A x \in Recs : TombstoneFits(x))'
  BY <1>15 DEF PurgeCommit
<1>16. ASSUME NEW m \in markers, PurgeCrash(m) PROVE (\A x \in Recs : TombstoneFits(x))'
  BY <1>16 DEF PurgeCrash
<1>17. ASSUME NEW o \in Objects, LockExpires(o) PROVE (\A x \in Recs : TombstoneFits(x))'
  BY <1>17 DEF LockExpires
<1> QED
  BY <1>1, <1>2, <1>3, <1>4, <1>5, <1>6, <1>7, <1>8, <1>9, <1>10, <1>11, <1>12, <1>13, <1>14,
     <1>15, <1>16, <1>17
  DEF RecMoves

LEMMA RecStepKeepsOwnership ==
  ASSUME RecInv, RecMoves
  PROVE  OwnershipFits'
<1> USE RecordsAssumption, RenditionsAssumption, CaptureIs
  DEF RecInv, recordRow, storageVars, RecTypeOK, OwnershipFits, ContentPreserved, CaptureFits,
      RenderingFits, Objects, Pdfs, Pdf
<1>1. ASSUME NEW r \in Recs, NEW s \in Shas, NEW p \in Policies, NEW u \in Clerks,
             CaptureBegin(r, s, p, u)
      PROVE  OwnershipFits'
  BY <1>1 DEF CaptureBegin, ObjectFree
<1>2. ASSUME CapturePromote PROVE OwnershipFits'
  BY <1>2 DEF CapturePromote
<1>3. ASSUME CaptureLink PROVE OwnershipFits'
  BY <1>3 DEF CaptureLink
<1>4. ASSUME CaptureExtend PROVE OwnershipFits'
  BY <1>4 DEF CaptureExtend
<1>5. ASSUME CaptureCommit PROVE OwnershipFits'
  BY <1>5 DEF CaptureCommit
<1>6. ASSUME CaptureAbort PROVE OwnershipFits'
  BY <1>6 DEF CaptureAbort
<1>7. ASSUME NEW r \in Recs, RenderStore(r) PROVE OwnershipFits'
  BY <1>7 DEF RenderStore, RowFree
<1>8. ASSUME NEW r \in Recs, RenderCommit(r) PROVE OwnershipFits'
  BY <1>8 DEF RenderCommit
<1>9. ASSUME NEW r \in Recs, RenderCrash(r) PROVE OwnershipFits'
  BY <1>9 DEF RenderCrash
<1>10. ASSUME NEW r \in Recs, Shifts(r) PROVE OwnershipFits'
  BY <1>10 DEF Shifts, SetState
<1>11. ASSUME NEW r \in Recs, Asks(r) PROVE OwnershipFits'
  BY <1>11 DEF Asks, SetRequest, NoRequest
<1>12. ASSUME NEW r \in Recs, NEW a, NEW w, NEW q, NEW u, Disposes(r, a, w, q, u)
       PROVE  OwnershipFits'
  <2>0. PICK G : Drops(r, a, w, G)
    BY <1>12, DisposalDrops DEF Disposes
  <2>1. /\ tombstone' = [tombstone EXCEPT ![r] =
                             [action |-> a, worm |-> w, requested |-> q, approved |-> u]]
        /\ UNCHANGED <<bytes, kept>>
    BY <1>12 DEF Disposes, Dispose
  <2>2. \A x \in Recs \ {r} : tombstone'[x] = tombstone[x]
    BY <2>1
  <2>3. a # "DESTROY" => ~w
    BY <1>12 DEF Disposes
  <2>4. a = "DESTROY" => ~ContentPreserved(r)'
    BY <2>1
  <2>5. recState[r] # "DISPOSED" => tombstone[r].action = "none" /\ ~tombstone[r].worm
    BY DEF RecordFits, TombstoneFits
  <2>6. ContentPreserved(r)
    BY <1>12, <2>5 DEF Disposes
  <2>7. blobRow' \subseteq bytes' /\ \A x, y \in Recs : <<y, Pdf(x)>> \in kept' => y = x
    BY <2>0, <2>1 DEF Drops
  <2>8. ASSUME NEW x \in Recs, NEW o \in Objects, <<x, o>> \in owns'
        PROVE  o \in blobRow' /\ <<x, o>> \in kept'
    BY <2>0, <2>1, <2>8 DEF Drops
  <2>9. ASSUME NEW x \in Recs, NEW o \in Objects, <<x, o>> \in kept', ContentPreserved(x)'
        PROVE  <<x, o>> \in owns'
    <3>1. CASE x = r
      <4>1. a # "DESTROY" /\ <<r, o>> \in owns
        BY <2>1, <2>4, <2>6, <2>9, <3>1
      <4> QED
        BY <2>0, <3>1, <4>1 DEF Drops
    <3>2. CASE x # r
      <4>1. ContentPreserved(x)
        BY <2>2, <2>9, <3>2
      <4>2. <<x, o>> \in owns
        BY <2>1, <2>9, <4>1
      <4> QED
        BY <2>0, <3>2, <4>1, <4>2 DEF Drops
    <3> QED
      BY <3>1, <3>2
  <2> HIDE DEF ContentPreserved
  <2> QED
    BY <2>7, <2>8, <2>9
<1>13. ASSUME NEW m \in markers, PurgeStale(m) PROVE OwnershipFits'
  BY <1>13 DEF PurgeStale, Owned
<1>14. ASSUME NEW m \in markers, PurgeErase(m) PROVE OwnershipFits'
  BY <1>14 DEF PurgeErase, ObjectFree, Owned
<1>15. ASSUME NEW m \in markers, PurgeCommit(m) PROVE OwnershipFits'
  BY <1>15 DEF PurgeCommit
<1>16. ASSUME NEW m \in markers, PurgeCrash(m) PROVE OwnershipFits'
  BY <1>16 DEF PurgeCrash
<1>17. ASSUME NEW o \in Objects, LockExpires(o) PROVE OwnershipFits'
  BY <1>17 DEF LockExpires
<1> QED
  BY <1>1, <1>2, <1>3, <1>4, <1>5, <1>6, <1>7, <1>8, <1>9, <1>10, <1>11, <1>12, <1>13, <1>14,
     <1>15, <1>16, <1>17
  DEF RecMoves

LEMMA RecStepKeepsMarkers ==
  ASSUME RecInv, RecMoves
  PROVE  (\A x \in markers : MarkerFits(x))'
<1> USE RecordsAssumption, RenditionsAssumption, CaptureIs
  DEF RecInv, recordRow, storageVars, RecTypeOK, MarkerFits, Markers, RecordFits, OwnershipFits
<1>1. ASSUME NEW r \in Recs, NEW s \in Shas, NEW p \in Policies, NEW u \in Clerks,
             CaptureBegin(r, s, p, u)
      PROVE  (\A x \in markers : MarkerFits(x))'
  BY <1>1 DEF CaptureBegin, ObjectFree
<1>2. ASSUME CapturePromote PROVE (\A x \in markers : MarkerFits(x))'
  BY <1>2 DEF CapturePromote
<1>3. ASSUME CaptureLink PROVE (\A x \in markers : MarkerFits(x))'
  BY <1>3 DEF CaptureLink
<1>4. ASSUME CaptureExtend PROVE (\A x \in markers : MarkerFits(x))'
  BY <1>4 DEF CaptureExtend
<1>5. ASSUME CaptureCommit PROVE (\A x \in markers : MarkerFits(x))'
  BY <1>5 DEF CaptureCommit
<1>6. ASSUME CaptureAbort PROVE (\A x \in markers : MarkerFits(x))'
  BY <1>6 DEF CaptureAbort
<1>7. ASSUME NEW r \in Recs, RenderStore(r) PROVE (\A x \in markers : MarkerFits(x))'
  BY <1>7 DEF RenderStore, RowFree
<1>8. ASSUME NEW r \in Recs, RenderCommit(r) PROVE (\A x \in markers : MarkerFits(x))'
  BY <1>8 DEF RenderCommit
<1>9. ASSUME NEW r \in Recs, RenderCrash(r) PROVE (\A x \in markers : MarkerFits(x))'
  BY <1>9 DEF RenderCrash
<1>10. ASSUME NEW r \in Recs, Shifts(r) PROVE (\A x \in markers : MarkerFits(x))'
  BY <1>10 DEF Shifts, SetState
<1>11. ASSUME NEW r \in Recs, Asks(r) PROVE (\A x \in markers : MarkerFits(x))'
  BY <1>11 DEF Asks, SetRequest, NoRequest
<1>12. ASSUME NEW r \in Recs, NEW a, NEW w, NEW q, NEW u, Disposes(r, a, w, q, u)
       PROVE  (\A x \in markers : MarkerFits(x))'
  <2>0. PICK G : Drops(r, a, w, G)
    BY <1>12, DisposalDrops DEF Disposes
  <2>1. /\ tombstone' = [tombstone EXCEPT ![r] =
                             [action |-> a, worm |-> w, requested |-> q, approved |-> u]]
        /\ UNCHANGED kept /\ recState[r] # "DISPOSED"
    BY <1>12 DEF Disposes, Dispose
  <2> SUFFICES ASSUME NEW x \in markers' PROVE MarkerFits(x)'
    OBVIOUS
  <2>2. CASE x \in markers
    BY <2>1, <2>2
  <2>3. CASE x \notin markers
    <3>1. PICK o \in G : x = MarkerOf(r, o, w)
      BY <2>0, <2>3 DEF Drops
    <3>2. <<r, o>> \in kept /\ a = "DESTROY"
      BY <2>0, <3>1 DEF Drops, OwnedBy
    <3>3. tombstone'[r].action = "DESTROY" /\ tombstone'[r].worm = w
      BY <2>1, <3>2
    <3>4. x.rec = r /\ x.obj = o /\ (x.bypass => w)
      BY <3>1 DEF MarkerOf
    <3> QED
      BY <2>1, <3>2, <3>3, <3>4
  <2> QED
    BY <2>2, <2>3
<1>13. ASSUME NEW m \in markers, PurgeStale(m) PROVE (\A x \in markers : MarkerFits(x))'
  BY <1>13 DEF PurgeStale, Owned
<1>14. ASSUME NEW m \in markers, PurgeErase(m) PROVE (\A x \in markers : MarkerFits(x))'
  BY <1>14 DEF PurgeErase, ObjectFree, Owned
<1>15. ASSUME NEW m \in markers, PurgeCommit(m) PROVE (\A x \in markers : MarkerFits(x))'
  BY <1>15 DEF PurgeCommit
<1>16. ASSUME NEW m \in markers, PurgeCrash(m) PROVE (\A x \in markers : MarkerFits(x))'
  BY <1>16 DEF PurgeCrash
<1>17. ASSUME NEW o \in Objects, LockExpires(o) PROVE (\A x \in markers : MarkerFits(x))'
  BY <1>17 DEF LockExpires
<1> QED
  BY <1>1, <1>2, <1>3, <1>4, <1>5, <1>6, <1>7, <1>8, <1>9, <1>10, <1>11, <1>12, <1>13, <1>14,
     <1>15, <1>16, <1>17
  DEF RecMoves

LEMMA RecStepKeepsPurges ==
  ASSUME RecInv, RecMoves
  PROVE  (\A x \in purging : PurgeFits(x))'
<1> USE RecordsAssumption, RenditionsAssumption, CaptureIs
  DEF RecInv, recordRow, storageVars, RecTypeOK, PurgeFits, Markers, MarkerFits, Objects, Pdfs
<1>1. ASSUME NEW r \in Recs, NEW s \in Shas, NEW p \in Policies, NEW u \in Clerks,
             CaptureBegin(r, s, p, u)
      PROVE  (\A x \in purging : PurgeFits(x))'
  BY <1>1 DEF CaptureBegin, ObjectFree
<1>2. ASSUME CapturePromote PROVE (\A x \in purging : PurgeFits(x))'
  BY <1>2 DEF CapturePromote
<1>3. ASSUME CaptureLink PROVE (\A x \in purging : PurgeFits(x))'
  BY <1>3 DEF CaptureLink
<1>4. ASSUME CaptureExtend PROVE (\A x \in purging : PurgeFits(x))'
  BY <1>4 DEF CaptureExtend
<1>5. ASSUME CaptureCommit PROVE (\A x \in purging : PurgeFits(x))'
  <2>1. capture'.pc = "idle"
    BY <1>5 DEF CaptureCommit, NoCapture
  <2> QED
    BY <1>5, <2>1 DEF CaptureCommit
<1>6. ASSUME CaptureAbort PROVE (\A x \in purging : PurgeFits(x))'
  <2>1. capture'.pc = "idle"
    BY <1>6 DEF CaptureAbort, NoCapture
  <2> QED
    BY <1>6, <2>1 DEF CaptureAbort
<1>7. ASSUME NEW r \in Recs, RenderStore(r) PROVE (\A x \in purging : PurgeFits(x))'
  <2> SUFFICES ASSUME NEW x \in purging PROVE PurgeFits(x)'
    BY <1>7 DEF RenderStore
  <2>1. x.rec \in Recs /\ x.obj \in Objects /\ tombstone[x.rec].action = "DESTROY"
        /\ <<x.rec, x.obj>> \in kept
    OBVIOUS
  <2>2. x.obj # Pdf(r)
    BY <1>7, <2>1 DEF RenderStore, OwnershipFits
  <2> QED
    BY <1>7, <2>2 DEF RenderStore
<1>8. ASSUME NEW r \in Recs, RenderCommit(r) PROVE (\A x \in purging : PurgeFits(x))'
  BY <1>8 DEF RenderCommit
<1>9. ASSUME NEW r \in Recs, RenderCrash(r) PROVE (\A x \in purging : PurgeFits(x))'
  BY <1>9 DEF RenderCrash
<1>10. ASSUME NEW r \in Recs, Shifts(r) PROVE (\A x \in purging : PurgeFits(x))'
  BY <1>10 DEF Shifts, SetState
<1>11. ASSUME NEW r \in Recs, Asks(r) PROVE (\A x \in purging : PurgeFits(x))'
  BY <1>11 DEF Asks, SetRequest, NoRequest
<1>12. ASSUME NEW r \in Recs, NEW a, NEW w, NEW q, NEW u, Disposes(r, a, w, q, u)
       PROVE  (\A x \in purging : PurgeFits(x))'
  BY <1>12 DEF Disposes, Dispose, MarkForPurge, Markings, RowFree
<1>13. ASSUME NEW m \in markers, PurgeStale(m) PROVE (\A x \in purging : PurgeFits(x))'
  BY <1>13 DEF PurgeStale, Owned
<1>14. ASSUME NEW m \in markers, PurgeErase(m) PROVE (\A x \in purging : PurgeFits(x))'
  BY <1>14 DEF PurgeErase, ObjectFree, Owned
<1>15. ASSUME NEW m \in markers, PurgeCommit(m) PROVE (\A x \in purging : PurgeFits(x))'
  BY <1>15 DEF PurgeCommit
<1>16. ASSUME NEW m \in markers, PurgeCrash(m) PROVE (\A x \in purging : PurgeFits(x))'
  BY <1>16 DEF PurgeCrash
<1>17. ASSUME NEW o \in Objects, LockExpires(o) PROVE (\A x \in purging : PurgeFits(x))'
  BY <1>17 DEF LockExpires
<1> QED
  BY <1>1, <1>2, <1>3, <1>4, <1>5, <1>6, <1>7, <1>8, <1>9, <1>10, <1>11, <1>12, <1>13, <1>14,
     <1>15, <1>16, <1>17
  DEF RecMoves

LEMMA RecStepKeepsRenderings ==
  ASSUME RecInv, RecMoves
  PROVE  (\A x \in rendering : RenderingFits(x))'
<1> USE RecordsAssumption, RenditionsAssumption, CaptureIs
  DEF RecInv, recordRow, storageVars, RecTypeOK, RenderingFits, Exists, RecordFits, CaptureFits
<1>1. ASSUME NEW r \in Recs, NEW s \in Shas, NEW p \in Policies, NEW u \in Clerks,
             CaptureBegin(r, s, p, u)
      PROVE  (\A x \in rendering : RenderingFits(x))'
  BY <1>1 DEF CaptureBegin, ObjectFree
<1>2. ASSUME CapturePromote PROVE (\A x \in rendering : RenderingFits(x))'
  BY <1>2 DEF CapturePromote
<1>3. ASSUME CaptureLink PROVE (\A x \in rendering : RenderingFits(x))'
  BY <1>3 DEF CaptureLink
<1>4. ASSUME CaptureExtend PROVE (\A x \in rendering : RenderingFits(x))'
  BY <1>4 DEF CaptureExtend
<1>5. ASSUME CaptureCommit PROVE (\A x \in rendering : RenderingFits(x))'
  BY <1>5 DEF CaptureCommit
<1>6. ASSUME CaptureAbort PROVE (\A x \in rendering : RenderingFits(x))'
  BY <1>6 DEF CaptureAbort
<1>7. ASSUME NEW r \in Recs, RenderStore(r) PROVE (\A x \in rendering : RenderingFits(x))'
  BY <1>7 DEF RenderStore, RowFree
<1>8. ASSUME NEW r \in Recs, RenderCommit(r) PROVE (\A x \in rendering : RenderingFits(x))'
  BY <1>8 DEF RenderCommit
<1>9. ASSUME NEW r \in Recs, RenderCrash(r) PROVE (\A x \in rendering : RenderingFits(x))'
  BY <1>9 DEF RenderCrash
<1>10. ASSUME NEW r \in Recs, Shifts(r) PROVE (\A x \in rendering : RenderingFits(x))'
  BY <1>10 DEF Shifts, SetState
<1>11. ASSUME NEW r \in Recs, Asks(r) PROVE (\A x \in rendering : RenderingFits(x))'
  BY <1>11 DEF Asks, SetRequest, NoRequest
<1>12. ASSUME NEW r \in Recs, NEW a, NEW w, NEW q, NEW u, Disposes(r, a, w, q, u)
       PROVE  (\A x \in rendering : RenderingFits(x))'
  BY <1>12 DEF Disposes, Dispose, MarkForPurge, Markings, RowFree
<1>13. ASSUME NEW m \in markers, PurgeStale(m) PROVE (\A x \in rendering : RenderingFits(x))'
  BY <1>13 DEF PurgeStale, Owned
<1>14. ASSUME NEW m \in markers, PurgeErase(m) PROVE (\A x \in rendering : RenderingFits(x))'
  <2>1. m.rec \in Recs /\ tombstone[m.rec].action = "DESTROY" /\ <<m.rec, m.obj>> \in kept
    BY DEF MarkerFits, Markers
  <2>2. \A x \in rendering : x \in Recs /\ m.obj # Pdf(x)
    BY <2>1 DEF OwnershipFits
  <2> QED
    BY <1>14, <2>2 DEF PurgeErase
<1>15. ASSUME NEW m \in markers, PurgeCommit(m) PROVE (\A x \in rendering : RenderingFits(x))'
  BY <1>15 DEF PurgeCommit
<1>16. ASSUME NEW m \in markers, PurgeCrash(m) PROVE (\A x \in rendering : RenderingFits(x))'
  BY <1>16 DEF PurgeCrash
<1>17. ASSUME NEW o \in Objects, LockExpires(o) PROVE (\A x \in rendering : RenderingFits(x))'
  BY <1>17 DEF LockExpires
<1> QED
  BY <1>1, <1>2, <1>3, <1>4, <1>5, <1>6, <1>7, <1>8, <1>9, <1>10, <1>11, <1>12, <1>13, <1>14,
     <1>15, <1>16, <1>17
  DEF RecMoves

LEMMA RecStepKeepsCaptures ==
  ASSUME RecInv, RecMoves
  PROVE  CaptureFits'
<1> USE RecordsAssumption, RenditionsAssumption, CaptureIs
  DEF RecInv, recordRow, storageVars, RecTypeOK, CaptureFits, RecordFits
<1>1. ASSUME NEW r \in Recs, NEW s \in Shas, NEW p \in Policies, NEW u \in Clerks,
             CaptureBegin(r, s, p, u)
      PROVE  CaptureFits'
  BY <1>1 DEF CaptureBegin, ObjectFree
<1>2. ASSUME CapturePromote PROVE CaptureFits'
  BY <1>2 DEF CapturePromote
<1>3. ASSUME CaptureLink PROVE CaptureFits'
  BY <1>3 DEF CaptureLink
<1>4. ASSUME CaptureExtend PROVE CaptureFits'
  BY <1>4 DEF CaptureExtend
<1>5. ASSUME CaptureCommit PROVE CaptureFits'
  <2>1. capture'.pc = "idle"
    BY <1>5 DEF CaptureCommit, NoCapture
  <2> QED
    BY <1>5, <2>1 DEF CaptureCommit
<1>6. ASSUME CaptureAbort PROVE CaptureFits'
  <2>1. capture'.pc = "idle"
    BY <1>6 DEF CaptureAbort, NoCapture
  <2> QED
    BY <1>6, <2>1 DEF CaptureAbort
<1>7. ASSUME NEW r \in Recs, RenderStore(r) PROVE CaptureFits'
  BY <1>7 DEF RenderStore, RowFree
<1>8. ASSUME NEW r \in Recs, RenderCommit(r) PROVE CaptureFits'
  BY <1>8 DEF RenderCommit
<1>9. ASSUME NEW r \in Recs, RenderCrash(r) PROVE CaptureFits'
  BY <1>9 DEF RenderCrash
<1>10. ASSUME NEW r \in Recs, Shifts(r) PROVE CaptureFits'
  BY <1>10 DEF Shifts, SetState
<1>11. ASSUME NEW r \in Recs, Asks(r) PROVE CaptureFits'
  BY <1>11 DEF Asks, SetRequest, NoRequest
<1>12. ASSUME NEW r \in Recs, NEW a, NEW w, NEW q, NEW u, Disposes(r, a, w, q, u) PROVE CaptureFits'
  <2>0. PICK G : Drops(r, a, w, G)
    BY <1>12, DisposalDrops DEF Disposes
  <2>1. UNCHANGED <<bytes, capture>> /\ recState' = [recState EXCEPT ![r] = "DISPOSED"]
        /\ recState[r] # "Absent" /\ BlobsFree(r)
    BY <1>12 DEF Disposes, Dispose
  <2>2. capture.pc # "idle" => capture.rec \in Recs /\ capture.rec # r
    BY <2>1
  <2>3. capture.pc \in {"linked", "extended"} => capture.sha \notin G
    BY <2>0, <2>1 DEF Drops, BlobsFree
  <2>4. blobRow' = blobRow \ G
    BY <2>0 DEF Drops
  <2> QED
    BY <2>1, <2>2, <2>3, <2>4
<1>13. ASSUME NEW m \in markers, PurgeStale(m) PROVE CaptureFits'
  BY <1>13 DEF PurgeStale, Owned
<1>14. ASSUME NEW m \in markers, PurgeErase(m) PROVE CaptureFits'
  BY <1>14 DEF PurgeErase, ObjectFree, Owned
<1>15. ASSUME NEW m \in markers, PurgeCommit(m) PROVE CaptureFits'
  BY <1>15 DEF PurgeCommit
<1>16. ASSUME NEW m \in markers, PurgeCrash(m) PROVE CaptureFits'
  BY <1>16 DEF PurgeCrash
<1>17. ASSUME NEW o \in Objects, LockExpires(o) PROVE CaptureFits'
  BY <1>17 DEF LockExpires
<1> QED
  BY <1>1, <1>2, <1>3, <1>4, <1>5, <1>6, <1>7, <1>8, <1>9, <1>10, <1>11, <1>12, <1>13, <1>14,
     <1>15, <1>16, <1>17
  DEF RecMoves

\* What the reaper will accept it goes on accepting: a disposed record's row is final.
LEMMA AuthorityStays ==
  ASSUME RecInv, RecMoves, NEW m \in markers, MarkerAuthority(m)
  PROVE  MarkerAuthority(m)'
<1>0. m.rec \in Recs /\ recState[m.rec] = "DISPOSED"
  BY DEF RecInv, RecTypeOK, Markers, MarkerAuthority
<1>1. ASSUME UNCHANGED <<recState, recPolicy, tombstone, destroyReq>> PROVE MarkerAuthority(m)'
  BY <1>1 DEF MarkerAuthority
<1>2. CASE CaptureCommit
  <2>1. capture.rec \in Recs /\ capture.rec # m.rec
    BY <1>0, <1>2, CaptureIs DEF CaptureCommit, RecInv, CaptureFits
  <2>2. recState'[m.rec] = recState[m.rec] /\ recPolicy'[m.rec] = recPolicy[m.rec]
        /\ UNCHANGED <<tombstone, destroyReq>>
    BY <1>0, <1>2, <2>1 DEF CaptureCommit, RecInv, RecTypeOK
  <2> QED
    BY <2>2 DEF MarkerAuthority
<1>3. ASSUME NEW r \in Recs, Shifts(r) PROVE MarkerAuthority(m)'
  <2>1. r # m.rec
    BY <1>0, <1>3 DEF Shifts
  <2>2. recState'[m.rec] = recState[m.rec] /\ UNCHANGED <<recPolicy, tombstone, destroyReq>>
    BY <1>0, <1>3, <2>1 DEF Shifts, SetState, RecInv, RecTypeOK
  <2> QED
    BY <2>2 DEF MarkerAuthority
<1>4. ASSUME NEW r \in Recs, Asks(r) PROVE MarkerAuthority(m)'
  <2>1. UNCHANGED <<recState, recPolicy, tombstone>>
    BY <1>4 DEF Asks, SetRequest
  <2>2. r # m.rec => destroyReq'[m.rec] = destroyReq[m.rec]
    BY <1>0, <1>4 DEF Asks, SetRequest, RecInv, RecTypeOK
  <2>3. r = m.rec => ~tombstone[m.rec].worm
    BY <1>0, <1>4 DEF Asks, MarkerAuthority
  <2> QED
    BY <2>1, <2>2, <2>3 DEF MarkerAuthority
<1>5. ASSUME NEW r \in Recs, NEW a, NEW w, NEW q, NEW u, Disposes(r, a, w, q, u)
      PROVE  MarkerAuthority(m)'
  <2>1. r # m.rec
    BY <1>0, <1>5 DEF Disposes
  <2>2. /\ recState'[m.rec] = recState[m.rec] /\ UNCHANGED recPolicy
        /\ tombstone'[m.rec] = tombstone[m.rec]
    BY <1>0, <1>5, <2>1 DEF Disposes, Dispose, RecInv, RecTypeOK
  <2>3. destroyReq'[m.rec] = destroyReq[m.rec]
    <3>1. CASE w
      BY <1>0, <1>5, <2>1, <3>1 DEF Disposes, RecInv, RecTypeOK
    <3>2. CASE ~w
      BY <1>5, <3>2 DEF Disposes
    <3> QED
      BY <3>1, <3>2
  <2> QED
    BY <2>2, <2>3 DEF MarkerAuthority
<1>6. CASE \/ \E r \in Recs, s \in Shas, p \in Policies, u \in Clerks : CaptureBegin(r, s, p, u)
           \/ CapturePromote \/ CaptureLink \/ CaptureExtend \/ CaptureAbort
  BY <1>1, <1>6
  DEF CaptureBegin, CapturePromote, CaptureLink, CaptureExtend, CaptureAbort, recordRow
<1>7. CASE \/ \E r \in Recs : RenderStore(r) \/ RenderCommit(r) \/ RenderCrash(r)
           \/ \E x \in markers : PurgeStale(x) \/ PurgeErase(x) \/ PurgeCommit(x) \/ PurgeCrash(x)
           \/ \E o \in Objects : LockExpires(o)
  BY <1>1, <1>7
  DEF RenderStore, RenderCommit, RenderCrash, PurgeStale, PurgeErase, PurgeCommit, PurgeCrash,
      LockExpires, recordRow
<1> QED
  BY <1>2, <1>3, <1>4, <1>5, <1>6, <1>7 DEF RecMoves

\* Where the trace of destroyed evidence is.
Tracked(s) ==
  \/ s \in blobRow \/ s \in strays
  \/ capture.pc \in {"promoted", "linked"} /\ capture.sha = s
  \/ \E m \in markers : m.obj = s /\ MarkerAuthority(m)

\* Record r has given up the evidence s, whose bytes are still there.
GivenUp(r, s) == <<r, s>> \in kept /\ ~ContentPreserved(r) /\ s \in bytes

LEMMA RecStepKeepsTracking ==
  ASSUME RecInv, RecMoves
  PROVE  ErasureIsTracked'
<1> USE RecordsAssumption, RenditionsAssumption
<1> SUFFICES ASSUME NEW r \in Recs, NEW s \in Shas, GivenUp(r, s)' PROVE Tracked(s)'
  BY DEF ErasureIsTracked, Tracked, GivenUp
<1>0. /\ GivenUp(r, s) => Tracked(s)
      /\ RecTypeOK /\ CaptureFits /\ s \in Objects
  BY DEF RecInv, ErasureIsTracked, Tracked, GivenUp, Objects
<1>1. \A m \in markers : MarkerAuthority(m) => MarkerAuthority(m)'
  BY AuthorityStays
<1>2. ASSUME GivenUp(r, s), UNCHANGED <<blobRow, strays, capture>>, markers \subseteq markers'
      PROVE  Tracked(s)'
  BY <1>0, <1>1, <1>2 DEF Tracked
<1>3. ASSUME UNCHANGED <<kept, tombstone>> PROVE s \in bytes => GivenUp(r, s)
  BY <1>3 DEF GivenUp, ContentPreserved
<1>4. ASSUME NEW x \in Recs, NEW y \in Shas, NEW p \in Policies, NEW u \in Clerks,
             CaptureBegin(x, y, p, u)
      PROVE  Tracked(s)'
  <2>1. GivenUp(r, s) /\ capture.pc = "idle" /\ UNCHANGED <<blobRow, strays, markers>>
    BY <1>3, <1>4 DEF CaptureBegin, recordRow, storageVars, GivenUp
  <2> QED
    BY <1>0, <1>1, <2>1 DEF Tracked
<1>5. CASE CapturePromote
  <2>1. /\ capture'.pc = "promoted" /\ capture'.sha = capture.sha /\ capture.pc = "locked"
        /\ bytes' = bytes \cup {capture.sha} /\ UNCHANGED <<blobRow, strays, markers, kept, tombstone>>
    BY <1>0, <1>5, CaptureIs DEF CapturePromote, recordRow, Captures
  <2>2. s = capture.sha \/ GivenUp(r, s)
    BY <1>3, <2>1 DEF GivenUp
  <2> QED
    BY <1>0, <1>1, <2>1, <2>2 DEF Tracked
<1>6. CASE CaptureLink
  <2>1. /\ capture'.pc = "linked" /\ capture'.sha = capture.sha
        /\ UNCHANGED <<blobRow, strays, markers, kept, tombstone, bytes>>
    BY <1>0, <1>6, CaptureIs DEF CaptureLink, recordRow, storageVars, Captures
  <2>2. GivenUp(r, s)
    BY <1>3, <2>1 DEF GivenUp
  <2> QED
    BY <1>0, <1>1, <2>1, <2>2 DEF Tracked
<1>7. CASE CaptureExtend
  <2>1. /\ capture.pc = "linked" /\ capture.sha \in blobRow
        /\ UNCHANGED <<blobRow, strays, markers, kept, tombstone, bytes>>
    BY <1>0, <1>7 DEF CaptureExtend, recordRow, CaptureFits
  <2>2. GivenUp(r, s)
    BY <1>3, <2>1 DEF GivenUp
  <2> QED
    BY <1>0, <1>1, <2>1, <2>2 DEF Tracked
<1>8. CASE CaptureCommit
  <2>1. /\ kept' = kept \cup {<<capture.rec, capture.sha>>} /\ blobRow' = blobRow \cup {capture.sha}
        /\ strays' = strays \ {capture.sha} /\ UNCHANGED <<tombstone, bytes, markers>>
    BY <1>8 DEF CaptureCommit
  <2>2. CASE s = capture.sha
    BY <2>1, <2>2 DEF Tracked
  <2>3. CASE s # capture.sha
    <3>1. GivenUp(r, s)
      BY <2>1, <2>3 DEF GivenUp, ContentPreserved
    <3> QED
      BY <1>0, <1>1, <2>1, <2>3, <3>1 DEF Tracked
  <2> QED
    BY <2>2, <2>3
<1>9. CASE CaptureAbort
  <2>1. /\ UNCHANGED <<blobRow, markers, kept, tombstone, bytes>>
        /\ strays' = IF capture.sha \in bytes \ blobRow /\ capture.pc # "locked"
                       THEN strays \cup {capture.sha} ELSE strays
    BY <1>9 DEF CaptureAbort, recordRow
  <2>2. GivenUp(r, s) /\ s \in bytes
    BY <1>3, <2>1 DEF GivenUp
  <2> QED
    BY <1>0, <1>1, <2>1, <2>2 DEF Tracked
<1>10. ASSUME NEW x \in Recs, RenderStore(x) PROVE Tracked(s)'
  <2>1. s # Pdf(x)
    BY DEF Pdfs
  <2>2. GivenUp(r, s)
    BY <1>3, <1>10, <2>1 DEF RenderStore, recordRow, GivenUp
  <2> QED
    BY <1>2, <1>10, <2>2 DEF RenderStore
<1>11. ASSUME NEW x \in Recs, RenderCommit(x) PROVE Tracked(s)'
  <2>1. s # Pdf(x)
    BY DEF Pdfs
  <2>2. GivenUp(r, s)
    BY <1>11, <2>1 DEF RenderCommit, recordRow, storageVars, GivenUp, ContentPreserved
  <2>3. blobRow \subseteq blobRow' /\ UNCHANGED <<strays, capture, markers>>
    BY <1>11 DEF RenderCommit, storageVars
  <2> QED
    BY <1>0, <1>1, <2>2, <2>3 DEF Tracked
<1>12. ASSUME NEW x \in Recs, RenderCrash(x) \/ Shifts(x) \/ Asks(x) PROVE Tracked(s)'
  <2>1. UNCHANGED <<kept, tombstone, bytes, blobRow, strays, capture, markers>>
    BY <1>12 DEF RenderCrash, Shifts, SetState, Asks, SetRequest, recordRow, storageVars
  <2> QED
    BY <1>2, <1>3, <2>1 DEF GivenUp
<1>13. ASSUME NEW x \in Recs, NEW a, NEW w, NEW q, NEW u, Disposes(x, a, w, q, u)
       PROVE  Tracked(s)'
  <2>0. PICK G : Drops(x, a, w, G)
    BY <1>0, <1>13, DisposalDrops DEF Disposes
  <2>1. /\ tombstone' = [tombstone EXCEPT ![x] =
                             [action |-> a, worm |-> w, requested |-> q, approved |-> u]]
        /\ recState' = [recState EXCEPT ![x] = "DISPOSED"]
        /\ UNCHANGED <<bytes, kept, capture, strays, recPolicy>>
    BY <1>13 DEF Disposes, Dispose, storageVars
  <2>2. CASE s \in G
    <3>1. a = "DESTROY" /\ MarkerOf(x, s, w) \in markers'
      BY <2>0, <2>2 DEF Drops
    <3>0. PICK m : m = MarkerOf(x, s, w)
      OBVIOUS
    <3>2. MarkerAuthority(m)'
      <4>1. m.rec = x /\ (m.bypass => w)
        BY <3>0 DEF MarkerOf
      <4>2. /\ recState'[x] = "DISPOSED" /\ tombstone'[x].action = "DESTROY" /\ tombstone'[x].worm = w
            /\ tombstone'[x].requested = q /\ tombstone'[x].approved = u
        BY <1>0, <2>1, <3>1 DEF RecTypeOK
      <4>3. CASE w
        <5>1. destroyReq'[x].status = "executed" /\ destroyReq'[x].by = q
          BY <1>0, <1>13, <4>3 DEF Disposes, RecTypeOK
        <5>2. q # u /\ q # NoOne /\ u # NoOne
          BY <1>13, <4>3 DEF Disposes
        <5> QED
          BY <4>1, <4>2, <4>3, <5>1, <5>2 DEF MarkerAuthority
      <4>4. CASE ~w
        <5>1. recPolicy'[x].action = "DESTROY"
          BY <1>13, <2>1, <3>1, <4>4 DEF Disposes
        <5> QED
          BY <4>1, <4>2, <4>4, <5>1 DEF MarkerAuthority
      <4> QED
        BY <4>3, <4>4
    <3>3. m.obj = s /\ m \in markers'
      BY <3>0, <3>1 DEF MarkerOf
    <3> QED
      BY <3>2, <3>3 DEF Tracked
  <2>3. CASE s \notin G
    <3>1. (s \in blobRow => s \in blobRow') /\ markers \subseteq markers'
      BY <2>0, <2>3 DEF Drops
    <3>2. CASE GivenUp(r, s)
      BY <1>0, <1>1, <2>1, <3>1, <3>2 DEF Tracked
    <3>3. CASE ~GivenUp(r, s)
      <4>1. <<r, s>> \in kept /\ s \in bytes /\ ContentPreserved(r)
        BY <2>1, <3>3 DEF GivenUp
      <4>2. s \in blobRow
        BY <1>0, <4>1 DEF RecInv, OwnershipFits
      <4> QED
        BY <3>1, <4>2 DEF Tracked
    <3> QED
      BY <3>2, <3>3
  <2> QED
    BY <2>2, <2>3
<1>14. ASSUME NEW m \in markers, PurgeStale(m) PROVE Tracked(s)'
  <2>1. /\ markers' = markers \ {m} /\ (m.obj \in blobRow \/ ~MarkerAuthority(m))
        /\ UNCHANGED <<kept, tombstone, bytes, blobRow, strays, capture>>
    BY <1>14 DEF PurgeStale, Owned, recordRow, storageVars
  <2>2. GivenUp(r, s)
    BY <1>3, <2>1 DEF GivenUp
  <2> QED
    BY <1>0, <1>1, <2>1, <2>2 DEF Tracked
<1>15. ASSUME NEW m \in markers, PurgeErase(m) PROVE Tracked(s)'
  <2>1. /\ bytes' = bytes \ {m.obj} /\ strays' = strays \ {m.obj}
        /\ UNCHANGED <<kept, tombstone, blobRow, markers, capture>>
    BY <1>15 DEF PurgeErase, recordRow
  <2>2. GivenUp(r, s) /\ s # m.obj
    BY <1>3, <2>1 DEF GivenUp
  <2> QED
    BY <1>0, <1>1, <2>1, <2>2 DEF Tracked
<1>16. ASSUME NEW m \in markers, PurgeCommit(m) PROVE Tracked(s)'
  <2>1. /\ markers' = markers \ {m} /\ m \in purging
        /\ UNCHANGED <<kept, tombstone, bytes, blobRow, strays, capture>>
    BY <1>16 DEF PurgeCommit, recordRow
  <2>2. GivenUp(r, s) /\ m.obj # s
    BY <1>3, <2>1 DEF GivenUp, RecInv, PurgeFits
  <2> QED
    BY <1>0, <1>1, <2>1, <2>2 DEF Tracked
<1>17. CASE (\E m \in markers : PurgeCrash(m)) \/ \E o \in Objects : LockExpires(o)
  <2>1. UNCHANGED <<kept, tombstone, bytes, blobRow, strays, capture, markers>>
    BY <1>17 DEF PurgeCrash, LockExpires, recordRow
  <2> QED
    BY <1>2, <1>3, <2>1 DEF GivenUp
<1> QED
  BY <1>4, <1>5, <1>6, <1>7, <1>8, <1>9, <1>10, <1>11, <1>12, <1>13, <1>14, <1>15, <1>16, <1>17
  DEF RecMoves

LEMMA RecNextMoves ==
  ASSUME RecInv, RecNext
  PROVE  RecMoves
<1> USE RecordsAssumption
<1>0. RecTypeOK /\ \A r \in Recs : RecordFits(r)
  BY DEF RecInv
<1>1. ASSUME NEW r \in Recs, NEW s \in DispositionStates, AdvanceState(r, s) PROVE Shifts(r)
  <2>1. recState[r] \notin {"Absent", "DISPOSED"} /\ s \in {"ACTIVE", "DUE_FOR_REVIEW", "ON_HOLD"}
    BY <1>1 DEF AdvanceState, AllowedEdges
  <2>2. recHold[r] = FALSE
    BY <1>0, <1>1 DEF AdvanceState, RecordFits, RecTypeOK
  <2>3. recHold' = [recHold EXCEPT ![r] = FALSE]
    BY <1>0, <1>1, <2>2 DEF AdvanceState, RecTypeOK
  <2>4. SetState(r, s)
    BY <1>1 DEF AdvanceState
  <2> QED
    BY <2>1, <2>2, <2>3, <2>4 DEF Shifts
<1>2. ASSUME NEW r \in Recs, SweepFlip(r) PROVE Shifts(r)
  <2>1. recState[r] = "ACTIVE" /\ recHold[r] = FALSE
    BY <1>0, <1>2 DEF SweepFlip, SweepCandidate, RecTypeOK
  <2>2. recHold' = [recHold EXCEPT ![r] = FALSE]
    BY <1>0, <1>2, <2>1 DEF SweepFlip, RecTypeOK
  <2>3. SetState(r, "DUE_FOR_REVIEW")
    BY <1>2 DEF SweepFlip
  <2> QED
    BY <2>1, <2>2, <2>3 DEF Shifts
<1>3. ASSUME NEW r \in Recs, PlaceHold(r) PROVE Shifts(r)
  BY <1>3 DEF PlaceHold, Holdable, Exists, Shifts
<1>4. ASSUME NEW r \in Recs, ReleaseHold(r) PROVE Shifts(r)
  BY <1>0, <1>4 DEF ReleaseHold, RecordFits, Shifts
<1>5. ASSUME NEW r \in Recs, NEW u \in People, RequestWormDestroy(r, u) PROVE Asks(r)
  BY <1>5 DEF RequestWormDestroy, Exists, Asks
<1>6. ASSUME NEW r \in Recs, CancelWormDestroy(r) PROVE Asks(r)
  BY <1>0, <1>6 DEF CancelWormDestroy, RecordFits, Asks
<1>7. \A r \in Recs : recPolicy[r].action # "RETAIN_PERMANENT" =>
           recPolicy[r].action \in {"DESTROY", "ARCHIVE"}
  BY <1>0 DEF RecTypeOK, Permanent, PolicyShapes
<1>8. ASSUME NEW r \in Recs, NEW u \in People, AdvanceDisposed(r, u)
      PROVE  Disposes(r, recPolicy[r].action, FALSE, NoOne, u)
  <2>1. recState[r] = "DUE_FOR_REVIEW" /\ ~recHold[r]
    BY <1>0, <1>8 DEF AdvanceDisposed, AllowedEdges, RecordFits
  <2>2. u = capturer[r] => AllowSelf
    BY <1>8 DEF AdvanceDisposed, SelfDispositionBlocked
  <2> QED
    BY <1>7, <1>8, <2>1, <2>2 DEF AdvanceDisposed, DisposableByPolicy, Disposes
<1>9. ASSUME NEW r \in Recs, SweepDispose(r)
      PROVE  Disposes(r, recPolicy[r].action, FALSE, NoOne, NoOne)
  <2>1. recState[r] \in {"ACTIVE", "DUE_FOR_REVIEW"} /\ ~recHold[r]
    BY <1>9 DEF SweepDispose, SweepCandidate
  <2>2. capturer[r] # NoOne
    BY <1>0, <2>1 DEF RecordFits
  <2> QED
    BY <1>7, <1>9, <2>1, <2>2 DEF SweepDispose, SweepCandidate, Disposes
<1>10. ASSUME NEW r \in Recs, NEW u \in People, ApproveWormDestroy(r, u)
       PROVE  Disposes(r, "DESTROY", TRUE, destroyReq[r].by, u)
  <2>1. /\ destroyReq[r].by # NoOne /\ destroyReq[r].by \in People \cup {NoOne}
        /\ recState[r] \notin {"Absent", "DISPOSED"}
    BY <1>0, <1>10 DEF ApproveWormDestroy, RecordFits, RecTypeOK
  <2>2. lockMode = "GOVERNANCE" /\ ~recHold[r]
    BY <1>0, <1>10 DEF ApproveWormDestroy, DestroyAllowed, RecTypeOK
  <2>3. destroyReq' = [destroyReq EXCEPT ![r] = [status |-> "executed", by |-> destroyReq[r].by]]
    <3>1. destroyReq' = [destroyReq EXCEPT ![r].status = "executed"]
      BY <1>10 DEF ApproveWormDestroy
    <3>2. [destroyReq[r] EXCEPT !.status = "executed"] = [status |-> "executed", by |-> destroyReq[r].by]
      BY <1>0 DEF RecTypeOK
    <3> QED
      BY <3>1, <3>2
  <2> QED
    BY <1>10, <2>1, <2>2, <2>3 DEF ApproveWormDestroy, Disposes
<1> QED
  BY <1>1, <1>2, <1>3, <1>4, <1>5, <1>6, <1>8, <1>9, <1>10 DEF RecNext, RecMoves

LEMMA RecInitInv == RecInit => RecInv
  BY RecordsAssumption
  DEF RecInit, RecInv, RecTypeOK, RecordFits, TombstoneFits, OwnershipFits, CaptureFits,
      ErasureIsTracked, ContentPreserved, NoTombstone, NoRequest, NoCapture, DispositionStates, Captures

LEMMA RecStepKeepsInv == RecInv /\ [RecNext]_recVars => RecInv'
<1>1. ASSUME RecInv, RecNext PROVE RecInv'
  BY <1>1, RecNextMoves, RecStepKeepsTypes, RecStepKeepsRecords, RecStepKeepsTombstones,
     RecStepKeepsOwnership, RecStepKeepsMarkers, RecStepKeepsPurges, RecStepKeepsRenderings,
     RecStepKeepsCaptures, RecStepKeepsTracking
  DEF RecInv
<1>2. ASSUME RecInv, UNCHANGED recVars PROVE RecInv'
  BY <1>2
  DEF recVars, RecInv, RecTypeOK, RecordFits, TombstoneFits, OwnershipFits, MarkerFits, PurgeFits,
      RenderingFits, Exists, CaptureFits, ErasureIsTracked, ContentPreserved, MarkerAuthority
<1> QED
  BY <1>1, <1>2

LEMMA RecInvAlways == RecSpec => []RecInv
  BY RecInitInv, RecStepKeepsInv, PTL DEF RecSpec

\* Between any two calls to the database and to object storage, and wherever a capture, a
\* rendition or a purge dies: a blob row has its bytes, a record that was not destroyed still has
\* all it was captured with, and bytes given up are gone or have a trace the reaper accepts
\* (services/records: repository, render and disposition).
THEOREM EvidenceStaysAccountedFor == RecSpec => []EvidenceIsAccountedFor
<1>1. RecInv => EvidenceIsAccountedFor
  BY DEF RecInv, OwnershipFits, EvidenceIsAccountedFor, BlobRowHasBytes, PreservedKeepsEvidence
<1> QED
  BY <1>1, RecInvAlways, PTL

\* What a step may do to a record that was disposed of or is on hold.
LEMMA RecStepIsFinal ==
  ASSUME RecInv, RecMoves, NEW r \in Recs
  PROVE  /\ recState[r] = "DISPOSED" => recState'[r] = "DISPOSED" /\ tombstone'[r] = tombstone[r]
         /\ recHold[r] /\ recState'[r] # "ON_HOLD" => recState'[r] = "ACTIVE"
<1>0. RecTypeOK /\ RecordFits(r) /\ CaptureFits
  BY DEF RecInv
<1>1. ASSUME recState'[r] = recState[r], tombstone'[r] = tombstone[r]
      PROVE  /\ recState[r] = "DISPOSED" => recState'[r] = "DISPOSED" /\ tombstone'[r] = tombstone[r]
             /\ recHold[r] /\ recState'[r] # "ON_HOLD" => recState'[r] = "ACTIVE"
  BY <1>0, <1>1 DEF RecordFits
<1>2. CASE CaptureCommit
  BY <1>0, <1>2, CaptureIs DEF CaptureCommit, CaptureFits, RecTypeOK, RecordFits
<1>3. ASSUME NEW x \in Recs, Shifts(x)
      PROVE  /\ recState[r] = "DISPOSED" => recState'[r] = "DISPOSED" /\ tombstone'[r] = tombstone[r]
             /\ recHold[r] /\ recState'[r] # "ON_HOLD" => recState'[r] = "ACTIVE"
  BY <1>0, <1>1, <1>3 DEF Shifts, SetState, RecTypeOK
<1>4. ASSUME NEW x \in Recs, NEW a, NEW w, NEW q, NEW u, Disposes(x, a, w, q, u)
      PROVE  /\ recState[r] = "DISPOSED" => recState'[r] = "DISPOSED" /\ tombstone'[r] = tombstone[r]
             /\ recHold[r] /\ recState'[r] # "ON_HOLD" => recState'[r] = "ACTIVE"
  BY <1>0, <1>1, <1>4 DEF Disposes, Dispose, RecTypeOK
<1>5. CASE \/ \E x \in Recs, s \in Shas, p \in Policies, u \in Clerks : CaptureBegin(x, s, p, u)
           \/ CapturePromote \/ CaptureLink \/ CaptureExtend \/ CaptureAbort
  BY <1>1, <1>5
  DEF CaptureBegin, CapturePromote, CaptureLink, CaptureExtend, CaptureAbort, recordRow
<1>6. CASE \/ \E x \in Recs : RenderStore(x) \/ RenderCommit(x) \/ RenderCrash(x) \/ Asks(x)
           \/ \E m \in markers : PurgeStale(m) \/ PurgeErase(m) \/ PurgeCommit(m) \/ PurgeCrash(m)
           \/ \E o \in Objects : LockExpires(o)
  BY <1>1, <1>6
  DEF RenderStore, RenderCommit, RenderCrash, Asks, SetRequest, PurgeStale, PurgeErase, PurgeCommit,
      PurgeCrash, LockExpires, recordRow
<1> QED
  BY <1>2, <1>3, <1>4, <1>5, <1>6 DEF RecMoves

\* An object leaves storage under a running lock only for a record destroyed by order.
LEMMA RecStepSparesLocked ==
  ASSUME RecInv, RecMoves, NEW o \in Objects, o \in bytes \cap objLock, o \notin bytes'
  PROVE  \E r \in Recs : <<r, o>> \in kept /\ tombstone[r].worm
<1>1. ASSUME NEW m \in markers, PurgeErase(m)
      PROVE  \E r \in Recs : <<r, o>> \in kept /\ tombstone[r].worm
  <2>1. o = m.obj /\ m.bypass
    BY <1>1 DEF PurgeErase, StorageDeletes
  <2>2. m.rec \in Recs /\ <<m.rec, m.obj>> \in kept /\ (m.bypass => tombstone[m.rec].worm)
    BY DEF RecInv, RecTypeOK, Markers, MarkerFits
  <2> QED
    BY <2>1, <2>2
<1>2. CASE CapturePromote
  BY <1>2 DEF CapturePromote
<1>3. CASE \E r \in Recs : RenderStore(r)
  BY <1>3 DEF RenderStore
<1>4. CASE \/ \E r \in Recs, s \in Shas, p \in Policies, u \in Clerks : CaptureBegin(r, s, p, u)
           \/ CaptureLink \/ CaptureExtend \/ CaptureCommit \/ CaptureAbort
  BY <1>4 DEF CaptureBegin, CaptureLink, CaptureExtend, CaptureCommit, CaptureAbort, storageVars
<1>5. CASE \E r \in Recs : \/ RenderCommit(r) \/ RenderCrash(r) \/ Shifts(r) \/ Asks(r)
                           \/ \E a, w, q, u : Disposes(r, a, w, q, u)
  BY <1>5
  DEF RenderCommit, RenderCrash, Shifts, SetState, Asks, SetRequest, Disposes, Dispose, storageVars
<1>6. CASE \/ \E m \in markers : PurgeStale(m) \/ PurgeCommit(m) \/ PurgeCrash(m)
           \/ \E x \in Objects : LockExpires(x)
  BY <1>6 DEF PurgeStale, PurgeCommit, PurgeCrash, LockExpires, storageVars
<1> QED
  BY <1>1, <1>2, <1>3, <1>4, <1>5, <1>6 DEF RecMoves

\* No sequence of holds, schedules, orders and crashes destroys a record without its lawful reason,
\* frees a locked object without an order of two people, or revives a record that was disposed of
\* (services/records/disposition: the guard, the sweep, R27 and the reaper).
THEOREM DisposalStaysLawful == RecSpec => DisposalIsLawful
<1>1. RecInv => DestructionIsLawful
  BY DEF RecInv, TombstoneFits, DestructionIsLawful
<1>2. RecInv /\ [RecNext]_recVars =>
        [\A o \in Objects :
           (o \in bytes \cap objLock /\ o \notin bytes') =>
             \E r \in Recs : <<r, o>> \in kept /\ tombstone[r].worm]_recVars
  BY RecNextMoves, RecStepSparesLocked
<1>3. RecInv /\ [RecNext]_recVars =>
        [\A r \in Recs :
           /\ recState[r] = "DISPOSED" => recState'[r] = "DISPOSED" /\ tombstone'[r] = tombstone[r]
           /\ recHold[r] /\ recState'[r] # "ON_HOLD" => recState'[r] = "ACTIVE"]_recVars
  BY RecNextMoves, RecStepIsFinal
<1> QED
  BY <1>1, <1>2, <1>3, RecInvAlways, PTL
  DEF RecSpec, DisposalIsLawful, LockedLeavesByOrder, DisposedIsFinal
=============================================================================
