---------------------------- MODULE EvidencePacks ----------------------------
(***************************************************************************)
(* Evidence packs: a draft is generated by a worker, which copies the       *)
(* evidence of its members into a sealed ZIP registered as a permanent      *)
(* record, then caches a PDF portfolio.  Celery delivers a build at least   *)
(* once, a reaper fails builds that stall, members may be destroyed on      *)
(* schedule while a build runs, and a destruction by legal order (R27)      *)
(* invalidates every sealed pack that copied the record.                    *)
(*                                                                          *)
(* A build holds the organisation's pack lock shared and its pack row from  *)
(* its first read to its commit; R27 takes the pack lock exclusively.       *)
(***************************************************************************)
EXTENDS Naturals, FiniteSets

CONSTANTS
  Packs,        \* evidence packs; a pack's own record goes by the same name
  Members,      \* ordinary records
  Scope,        \* the candidates the scope of each pack resolves to
  Subjects,     \* the finding or CAPA records whose dossier a pack embeds
  Builders,     \* Celery workers
  NoPack,       \* a worker with nothing to do
  MaxGenerate,  \* bound: generate requests in all
  MaxMessages   \* bound: build messages of one pack at the broker

ASSUME PacksAssumption ==
  /\ Packs \cap Members = {} /\ NoPack \notin Packs
  /\ Scope \in [Packs -> SUBSET (Packs \cup Members)]
  /\ Subjects \in [Packs -> SUBSET Members]
  /\ MaxGenerate \in Nat /\ MaxMessages \in Nat

Subject == Packs \cup Members

VARIABLES
  packStatus,   \* evidence_pack.status, "Absent" before creation
  packRecord,   \* packs with a pack_record_id
  contents,     \* the records copied into a pack: pack_item and dossier rows
  zipKept,      \* packs whose ZIP blob row and bytes exist
  portfolio,    \* packs with a cached portfolio
  gone,         \* what became of each record: live, destroyed, erased (R27)
  builder,      \* what each worker is doing
  messages,     \* build messages waiting at the broker
  shareLink,    \* the pack's share link
  generated,    \* history: generate requests
  seals         \* history: how often a pack registered a record

packVars == <<packStatus, packRecord, contents, zipKept, portfolio, gone, builder, messages,
              shareLink, generated, seals>>
packRow == <<packStatus, packRecord, contents, zipKept, portfolio, shareLink, generated, seals>>

Resting == [pc |-> "idle", pack |-> NoPack, got |-> {}]
HoldsLocks == {"building", "gathered", "portfolio"}
BuilderSteps == HoldsLocks \cup {"idle", "failing", "stage2"}
PackStates == {"Absent", "DRAFT", "BUILDING", "SEALED", "FAILED", "UNAVAILABLE"}

PackInit ==
  /\ packStatus = [p \in Packs |-> "Absent"]
  /\ packRecord = {} /\ zipKept = {} /\ portfolio = {}
  /\ contents = [p \in Packs |-> {}]
  /\ gone = [r \in Subject |-> "live"]
  /\ builder = [w \in Builders |-> Resting]
  /\ messages = [p \in Packs |-> 0]
  /\ shareLink = [p \in Packs |-> "none"]
  /\ generated = 0
  /\ seals = [p \in Packs |-> 0]

PackRowFree(p) == \A w \in Builders : builder[w].pack = p => builder[w].pc \notin HoldsLocks

(* pack_dependency_record_ids: what the pack copied, and its own record.     *)
Dependencies(p) == contents[p] \cup (packRecord \cap {p})

(***************************************************************************)
(* Requests.                                                               *)
(***************************************************************************)
CreatePack(p) ==
  /\ packStatus[p] = "Absent"
  /\ packStatus' = [packStatus EXCEPT ![p] = "DRAFT"]
  /\ UNCHANGED <<packRecord, contents, zipKept, portfolio, gone, builder, messages, shareLink,
                 generated, seals>>

(* The build is queued after the commit: a crash between them loses it.      *)
GeneratePack(p) ==
  /\ PackRowFree(p) /\ packStatus[p] \in {"DRAFT", "FAILED"}
  /\ generated < MaxGenerate /\ generated' = generated + 1
  /\ packStatus' = [packStatus EXCEPT ![p] = "BUILDING"]
  /\ \/ messages[p] < MaxMessages /\ messages' = [messages EXCEPT ![p] = @ + 1]
     \/ UNCHANGED messages
  /\ UNCHANGED <<packRecord, contents, zipKept, portfolio, gone, builder, shareLink, seals>>

(***************************************************************************)
(* The build task.                                                         *)
(***************************************************************************)
Step(w, s) == builder' = [builder EXCEPT ![w].pc = s]
Rest(w) == builder' = [builder EXCEPT ![w] = Resting]

(* A build starts only on a BUILDING pack that has registered no record; a   *)
(* redundant delivery goes on to the second stage.                           *)
Buildable(p) == packStatus[p] = "BUILDING" /\ p \notin packRecord

Deliver(w, p) ==
  /\ builder[w].pc = "idle" /\ messages[p] > 0
  /\ PackRowFree(p)
  /\ messages' = [messages EXCEPT ![p] = @ - 1]
  /\ builder' = [builder EXCEPT ![w] =
       [pc |-> IF Buildable(p) THEN "building" ELSE "stage2", pack |-> p, got |-> {}]]
  /\ UNCHANGED <<packRow, gone>>

(* pack_subjects_destroyed: none of the records the dossier copies is gone.  *)
SubjectsLive(p) == \A r \in Subjects[p] : gone[r] = "live"

(* classify_candidates: of the scope, what the generator may read and what   *)
(* was not destroyed is included.                                            *)
Included(p, may) == {r \in Scope[p] \cap may : gone[r] = "live" /\ (r \in Packs => r \in packRecord)}

Gather(w) ==
  LET p == builder[w].pack
  IN  /\ builder[w].pc = "building"
      /\ SubjectsLive(p)
      /\ \E may \in SUBSET Scope[p] :
           builder' = [builder EXCEPT ![w].pc = "gathered", ![w].got = Included(p, may)]
      /\ UNCHANGED <<packRow, gone, messages>>

(* The ZIP is captured as a permanent record and the pack row follows it, in *)
(* one transaction.                                                          *)
Seal(w) ==
  LET p == builder[w].pack
  IN  /\ builder[w].pc = "gathered"
      /\ packStatus' = [packStatus EXCEPT ![p] = "SEALED"]
      /\ packRecord' = packRecord \cup {p}
      /\ contents' = [contents EXCEPT ![p] = builder[w].got \cup Subjects[p]]
      /\ zipKept' = zipKept \cup {p}
      /\ seals' = [seals EXCEPT ![p] = @ + 1]
      /\ Step(w, "stage2")
      /\ UNCHANGED <<portfolio, gone, messages, shareLink, generated>>

(* A destroyed subject, a denied or inactive generator, or any exception:    *)
(* the transaction rolls back, which gives up both locks.                    *)
BuildRaises(w) ==
  /\ builder[w].pc \in {"building", "gathered"}
  /\ Step(w, "failing")
  /\ UNCHANGED <<packRow, gone, messages>>

(* _fail locks the row again and sets FAILED whatever the row says by now;   *)
(* the table's CHECK constraint alone protects an UNAVAILABLE pack.          *)
Fail(w) ==
  LET p == builder[w].pack
  IN  /\ builder[w].pc = "failing" /\ PackRowFree(p)
      /\ packStatus' = [packStatus EXCEPT ![p] = IF @ = "UNAVAILABLE" THEN @ ELSE "FAILED"]
      /\ Rest(w)
      /\ UNCHANGED <<packRecord, contents, zipKept, portfolio, gone, messages, shareLink, generated,
                     seals>>

(* Stage 2, in a transaction of its own.                                     *)
StartPortfolio(w) ==
  LET p == builder[w].pack
  IN  /\ builder[w].pc = "stage2" /\ PackRowFree(p)
      /\ IF packStatus[p] = "SEALED" /\ p \notin portfolio THEN Step(w, "portfolio") ELSE Rest(w)
      /\ UNCHANGED <<packRow, gone, messages>>

FinishPortfolio(w) ==
  /\ builder[w].pc = "portfolio"
  /\ portfolio' = portfolio \cup {builder[w].pack}
  /\ Rest(w)
  /\ UNCHANGED <<packStatus, packRecord, contents, zipKept, gone, messages, shareLink, generated, seals>>

(* A worker is killed: its transaction rolls back.                           *)
BuilderDies(w) ==
  /\ builder[w].pc # "idle"
  /\ Rest(w)
  /\ UNCHANGED <<packRow, gone, messages>>

(* Acknowledged late: a message comes again once its visibility ran out,     *)
(* whether or not a worker is still busy with it.                            *)
Redeliver(p) ==
  /\ packStatus[p] \notin {"Absent", "DRAFT"} /\ messages[p] < MaxMessages
  /\ messages' = [messages EXCEPT ![p] = @ + 1]
  /\ UNCHANGED <<packRow, gone, builder>>

\* Mutant: the reaper passes over packs that have a record.
ReapableUnrecorded(p) == packStatus[p] = "BUILDING" /\ PackRowFree(p) /\ p \notin packRecord
(* SKIP LOCKED: the reaper passes over a build that is under way.            *)
Reapable(p) == packStatus[p] = "BUILDING" /\ PackRowFree(p)
ReapedAs == "FAILED"

ReapStalled(p) ==
  /\ Reapable(p)
  /\ packStatus' = [packStatus EXCEPT ![p] = ReapedAs]
  /\ UNCHANGED <<packRecord, contents, zipKept, portfolio, gone, builder, messages, shareLink,
                 generated, seals>>

(***************************************************************************)
(* Destruction of what a pack copied.                                      *)
(***************************************************************************)
(* Ordinary disposition has no say over packs: it takes none of their locks. *)
DestroyMember(r) ==
  /\ gone[r] = "live"
  /\ gone' = [gone EXCEPT ![r] = "destroyed"]
  /\ UNCHANGED <<packRow, builder, messages>>

\* Mutant: packs that copied another pack's ZIP are overlooked.
AffectedDirectly(r) == {p \in Packs : packStatus[p] = "SEALED" /\ r \in Dependencies(p)}

(* A set of sealed packs that holds every pack depending on r or on the      *)
(* record of a pack in the set.                                              *)
SealedPacks == {p \in Packs : packStatus[p] = "SEALED"}
ClosedUnderCopying(S, r) ==
  \A p \in SealedPacks : (Dependencies(p) \cap (S \cup {r}) # {}) => p \in S
AffectedPacks(r) ==
  {p \in SealedPacks : \A S \in SUBSET SealedPacks : ClosedUnderCopying(S, r) => p \in S}

LinksAfterErasure(hit) ==
  [p \in Packs |-> IF p \in hit /\ shareLink[p] = "live" THEN "revoked" ELSE shareLink[p]]

(* approve_worm_destroy on r: the exclusive lock waits for every build.  A   *)
(* ZIP stays while a pack row that is not UNAVAILABLE still points at it.    *)
LegalErasure(r) ==
  LET hit == AffectedPacks(r)
  IN  /\ gone[r] = "live" /\ (r \in Packs => r \in packRecord)
      /\ \A w \in Builders : builder[w].pc \notin HoldsLocks
      /\ gone' = [x \in Subject |-> IF x = r \/ x \in hit THEN "erased" ELSE gone[x]]
      /\ packStatus' = [p \in Packs |-> IF p \in hit THEN "UNAVAILABLE" ELSE packStatus[p]]
      /\ zipKept' = zipKept \ hit
      /\ portfolio' = portfolio \ hit
      /\ shareLink' = LinksAfterErasure(hit)
      /\ UNCHANGED <<packRecord, contents, builder, messages, generated, seals>>

(***************************************************************************)
(* Share links.                                                            *)
(***************************************************************************)
HasDestroyedMember(p) == \E r \in Dependencies(p) : gone[r] # "live"

CreateShareLink(p) ==
  /\ PackRowFree(p) /\ packStatus[p] = "SEALED" /\ shareLink[p] = "none"
  /\ ~HasDestroyedMember(p)
  /\ shareLink' = [shareLink EXCEPT ![p] = "live"]
  /\ UNCHANGED <<packStatus, packRecord, contents, zipKept, portfolio, gone, builder, messages,
                 generated, seals>>

(* Revoked by a person, or past its expiry.                                  *)
RevokeShareLink(p) ==
  /\ shareLink[p] = "live"
  /\ shareLink' = [shareLink EXCEPT ![p] = "revoked"]
  /\ UNCHANGED <<packStatus, packRecord, contents, zipKept, portfolio, gone, builder, messages,
                 generated, seals>>

(* resolve_share_token says OK.                                              *)
Served(p) ==
  /\ shareLink[p] = "live"
  /\ packStatus[p] = "SEALED" /\ ~HasDestroyedMember(p)

PackNext ==
  \/ \E p \in Packs :
       \/ CreatePack(p) \/ GeneratePack(p) \/ Redeliver(p) \/ ReapStalled(p)
       \/ CreateShareLink(p) \/ RevokeShareLink(p)
  \/ \E w \in Builders :
       \/ \E p \in Packs : Deliver(w, p)
       \/ Gather(w) \/ Seal(w) \/ BuildRaises(w) \/ Fail(w)
       \/ StartPortfolio(w) \/ FinishPortfolio(w) \/ BuilderDies(w)
  \/ \E r \in Members : DestroyMember(r)
  \/ \E r \in Subject : LegalErasure(r)

PackSpec == PackInit /\ [][PackNext]_packVars

(* A worker at work goes on until it is done or dies, and Beat runs the      *)
(* reaper again and again.                                                   *)
BuildGoesOn(w) == \/ Gather(w) \/ Seal(w) \/ BuildRaises(w) \/ Fail(w) \/ StartPortfolio(w)
                  \/ FinishPortfolio(w) \/ BuilderDies(w)

PackFairSpec ==
  /\ PackSpec
  /\ \A w \in Builders : WF_packVars(BuildGoesOn(w))
  /\ SF_packVars(\E p \in Packs : ReapStalled(p))

(***************************************************************************)
(* Properties.                                                             *)
(***************************************************************************)
(* Every variable holds values of its kind.                                  *)
PackTypeOK ==
  /\ packStatus \in [Packs -> PackStates]
  /\ packRecord \subseteq Packs /\ zipKept \subseteq Packs /\ portfolio \subseteq Packs
  /\ contents \in [Packs -> SUBSET Subject]
  /\ gone \in [Subject -> {"live", "destroyed", "erased"}]
  /\ builder \in [Builders -> [pc : BuilderSteps, pack : Packs \cup {NoPack}, got : SUBSET Subject]]
  /\ messages \in [Packs -> 0..MaxMessages]
  /\ shareLink \in [Packs -> {"none", "live", "revoked"}]
  /\ generated \in 0..MaxGenerate
  /\ seals \in [Packs -> Nat]

(* However often a build is delivered, retried or reaped, a pack registers   *)
(* one record at most (build: "a retry never double-registers").             *)
OneRecordPerPack == \A p \in Packs : seals[p] <= 1

(* Everything whose content is in the ZIP of a pack: what it copied, and,    *)
(* when that is the record of another pack, what that pack's ZIP holds.      *)
CarriedAlong(S) == \A q \in Packs \cap S : contents[q] \subseteq S
Copies(p) ==
  {x \in Subject :
     \A S \in SUBSET Subject : Dependencies(p) \subseteq S /\ CarriedAlong(S) => x \in S}

(* A pack that registered its record and was then set FAILED, or generated   *)
(* once more: it is not SEALED, yet its record and its ZIP are still there.  *)
FailedAfterSeal(q) == q \in packRecord /\ packStatus[q] \in {"FAILED", "BUILDING"}

(* What a pack copied itself, a legal erasure never overlooks: a build       *)
(* either committed before the erasure looked, or started after it.          *)
ErasedIsNoMember ==
  \A p \in Packs : packStatus[p] = "SEALED" => \A r \in Dependencies(p) : gone[r] # "erased"

(* At any depth, an erased record is left in a pack that could be handed out *)
(* in one way only: inside the ZIP of a pack that failed after it sealed,    *)
(* which _pack_invalidation_closure does not look at.                        *)
OnlyFailedPacksHideCopies ==
  \A p \in Packs : packStatus[p] = "SEALED" =>
    \A r \in Copies(p) : gone[r] = "erased" =>
      \E q \in Packs \cap Copies(p) : FailedAfterSeal(q) /\ r \in Copies(q)

(* A link that resolves always finds the bytes it promises, and an           *)
(* invalidated pack has no live link and no artefact left.                   *)
ServedPacksAreWhole ==
  \A p \in Packs :
    /\ Served(p) => p \in zipKept /\ p \in packRecord
    /\ packStatus[p] = "UNAVAILABLE" => p \notin zipKept /\ p \notin portfolio /\ shareLink[p] # "live"

(* No build hangs: a pack that is BUILDING leaves that state, though its     *)
(* message may be lost and its worker killed.                                *)
EveryBuildEnds == \A p \in Packs : packStatus[p] = "BUILDING" ~> packStatus[p] # "BUILDING"

(* However builds, redeliveries, nested packs, links and erasures interleave, *)
(* a pack registers one record, an erasure by legal order overlooks no copy   *)
(* at any depth except inside a pack that failed after it sealed, and what is *)
(* still handed out is whole.                                                 *)
PacksAreSound ==
  PackTypeOK /\ OneRecordPerPack /\ ErasedIsNoMember /\ OnlyFailedPacksHideCopies
  /\ ServedPacksAreWhole
=============================================================================
