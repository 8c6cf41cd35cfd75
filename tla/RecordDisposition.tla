-------------------------- MODULE RecordDisposition --------------------------
(***************************************************************************)
(* Records: capture of WORM evidence, retention and legal hold, ordinary    *)
(* disposition, destruction under a legal order, and the physical erasure   *)
(* of bytes in two phases: the database transaction drops the blob rows and *)
(* leaves pending_blob_purge markers, and only afterwards are the bytes     *)
(* deleted from object storage, by the request itself or by the reaper.     *)
(*                                                                          *)
(* Database transactions are atomic; every call to object storage is a step *)
(* of its own, and a crash may separate it from the commit that follows.    *)
(***************************************************************************)
EXTENDS Naturals, FiniteSets

CONSTANTS
  Recs,        \* records that may be captured
  Structured,  \* the records captured on a Form or Template (Mode B)
  Shas,        \* evidence contents, named by their sha256
  People,      \* users
  Clerks,      \* the users who capture records
  NoOne,       \* no user: the retention sweep, or a column that is NULL
  Policies,    \* the organisation's retention policies
  AllowSelf,   \* system_config.allow_self_disposition
  MaxAborts    \* bound: how many captures may roll back

(* A retention policy: what happens at the end and whether a person decides. *)
(* ARCHIVE stands for ARCHIVE_COLD and TRANSFER, which both keep the content. *)
PolicyShapes == [action : {"DESTROY", "ARCHIVE", "RETAIN_PERMANENT"}, review : BOOLEAN]
Permanent == [action |-> "RETAIN_PERMANENT", review |-> TRUE]

ASSUME RecordsAssumption ==
  /\ Structured \subseteq Recs /\ Clerks \subseteq People /\ NoOne \notin People /\ MaxAborts \in Nat
  /\ AllowSelf \in BOOLEAN
  /\ Policies \subseteq PolicyShapes

(* The structured rendition of a record prints its identifier, so no two     *)
(* records ever share one.                                                   *)
Pdf(r) == <<"pdf", r>>
Pdfs == {Pdf(r) : r \in Recs}
Objects == Shas \cup Pdfs

(* Renditions are kept in a bucket of their own.                             *)
ASSUME RenditionsAssumption == Shas \cap Pdfs = {}

VARIABLES
  recState,    \* record.disposition_state, "Absent" before capture
  recHold,     \* record.legal_hold
  recPolicy,   \* the retention policy pinned at capture
  capturer,    \* record.captured_by
  tombstone,   \* the record's disposition_event: its action, whether R27, who
  destroyReq,  \* the worm_destroy_request that is open or was executed
  owns,        \* evidence_blob rows and structured_pdf_blob_sha256 pointers
  blobRow,     \* blob rows
  bytes,       \* objects that exist in object storage
  rowLock,     \* blobs whose worm_retain_until has not passed
  objLock,     \* objects whose retention in storage has not passed
  markers,     \* pending_blob_purge rows
  purging,     \* markers whose bytes are deleted and whose commit is due
  capture,     \* the capture transaction under way
  rendering,   \* records whose rendition is stored and whose commit is due
  lockMode,    \* storage_config.object_lock_mode
  kept,        \* history: every committed <<record, object>> ownership
  strays,      \* history: objects a rolled-back capture left in storage
  aborts       \* history: captures rolled back

recVars == <<recState, recHold, recPolicy, capturer, tombstone, destroyReq, owns, blobRow,
             bytes, rowLock, objLock, markers, purging, capture, rendering, lockMode,
             kept, strays, aborts>>
recordRow == <<recState, recHold, recPolicy, capturer, tombstone>>
storageVars == <<bytes, objLock, purging, strays>>

NoTombstone == [action |-> "none", worm |-> FALSE, requested |-> NoOne, approved |-> NoOne]
NoRequest == [status |-> "none", by |-> NoOne]
NoCapture == [pc |-> "idle"]
CaptureSteps == {"locked", "promoted", "linked", "extended"}
Captures == [pc : CaptureSteps, rec : Recs, sha : Shas, policy : Policies, by : People, reuse : BOOLEAN]
Markers == [rec : Recs, obj : Objects, bypass : BOOLEAN]
DispositionStates == {"ACTIVE", "DUE_FOR_REVIEW", "ON_HOLD", "DISPOSED"}

RecInit ==
  /\ recState = [r \in Recs |-> "Absent"]
  /\ recHold = [r \in Recs |-> FALSE]
  /\ recPolicy = [r \in Recs |-> Permanent]
  /\ capturer = [r \in Recs |-> NoOne]
  /\ tombstone = [r \in Recs |-> NoTombstone]
  /\ destroyReq = [r \in Recs |-> NoRequest]
  /\ owns = {} /\ blobRow = {} /\ bytes = {} /\ rowLock = {} /\ objLock = {}
  /\ markers = {} /\ purging = {}
  /\ capture = NoCapture
  /\ rendering = {}
  /\ lockMode \in {"GOVERNANCE", "COMPLIANCE"}
  /\ kept = {} /\ strays = {} /\ aborts = 0

(***************************************************************************)
(* Ownership and destruction.                                              *)
(***************************************************************************)
(* ARCHIVE_COLD and TRANSFER keep the content: only a destructive event      *)
(* ends a record's ownership of its bytes.                                   *)
ContentPreserved(r) == ~(tombstone[r].worm \/ tombstone[r].action = "DESTROY")

Exists(r) == recState[r] # "Absent"
OwnedBy(r) == {o \in Objects : <<r, o>> \in owns}

NeededByOther(r, o) ==
  \E q \in Recs \ {r} : <<q, o>> \in owns /\ ContentPreserved(q)

(* The records row of r is free: no rendition transaction holds it.          *)
RowFree(r) == r \notin rendering

(* A capture holds a key-share lock on the blob row it has linked.           *)
BlobsFree(r) ==
  capture.pc \in {"linked", "extended"} => capture.sha \notin OwnedBy(r)

LocksExpired(r) == OwnedBy(r) \cap rowLock = {}

\* Mutant: every marker asks for the governance bypass.
MarkingsBypassing(r, worm) ==
  {[rec |-> r, obj |-> o, bypass |-> o \in Shas] : o \in {x \in OwnedBy(r) : ~NeededByOther(r, x)}}

(* The database half of a DESTROY: give up what another live record needs,   *)
(* drop the row of everything else and leave a marker for it.  A rendition   *)
(* is not WORM, and its marker never asks for the bypass.                    *)
Markings(r, worm) ==
  {[rec |-> r, obj |-> o, bypass |-> worm /\ o \in Shas] :
     o \in {x \in OwnedBy(r) : ~NeededByOther(r, x)}}

MarkForPurge(r, worm) ==
  LET gone == {m.obj : m \in Markings(r, worm)}
  IN  /\ markers' = markers \cup Markings(r, worm)
      /\ blobRow' = blobRow \ gone
      /\ owns' = {w \in owns : w[1] # r /\ w[2] \notin gone}
      /\ rowLock' = rowLock \ gone

(* _write_tombstone, and for a DESTROY the marking that goes with it.        *)
Dispose(r, action, worm, requested, approved) ==
  /\ recState' = [recState EXCEPT ![r] = "DISPOSED"]
  /\ tombstone' = [tombstone EXCEPT ![r] =
       [action |-> action, worm |-> worm, requested |-> requested, approved |-> approved]]
  /\ IF action = "DESTROY"
       THEN MarkForPurge(r, worm)
       ELSE UNCHANGED <<markers, blobRow, owns, rowLock>>
  /\ UNCHANGED <<recHold, recPolicy, capturer, storageVars, capture, rendering, lockMode,
                 kept, aborts>>

(***************************************************************************)
(* Capture.  The advisory lock on the physical object is held to the end.   *)
(***************************************************************************)
\* Mutant: the purge does not wait for a capture of the same object.
ObjectFreeOfPurges(o) == \A m \in purging : m.obj # o

ObjectFree(o) ==
  /\ capture.pc # "idle" => capture.sha # o
  /\ \A m \in purging : m.obj # o

CaptureBegin(r, s, p, u) ==
  /\ capture.pc = "idle"
  /\ recState[r] = "Absent"
  /\ ObjectFree(s)
  /\ capture' = [pc |-> "locked", rec |-> r, sha |-> s, policy |-> p, by |-> u,
                 reuse |-> s \in blobRow]
  /\ UNCHANGED <<recordRow, destroyReq, owns, blobRow, rowLock, markers, storageVars,
                 rendering, lockMode, kept, aborts>>

(* No blob row: the staged upload is copied into the WORM bucket.            *)
CapturePromote ==
  /\ capture.pc = "locked" /\ ~capture.reuse
  /\ capture' = [capture EXCEPT !.pc = "promoted"]
  /\ bytes' = bytes \cup {capture.sha}
  /\ objLock' = objLock \cup {capture.sha}
  /\ UNCHANGED <<recordRow, destroyReq, owns, blobRow, rowLock, markers, purging,
                 rendering, lockMode, kept, strays, aborts>>

(* The evidence row is inserted; its foreign key needs the blob row.         *)
CaptureLink ==
  /\ \/ capture.pc = "promoted"
     \/ capture.pc = "locked" /\ capture.reuse /\ capture.sha \in blobRow
  /\ capture' = [capture EXCEPT !.pc = "linked"]
  /\ UNCHANGED <<recordRow, destroyReq, owns, blobRow, rowLock, markers, storageVars,
                 rendering, lockMode, kept, aborts>>

(* Same bytes under a policy that locks longer: storage is extended first.   *)
CaptureExtend ==
  /\ capture.pc = "linked" /\ capture.reuse
  /\ capture' = [capture EXCEPT !.pc = "extended"]
  /\ objLock' = objLock \cup {capture.sha}
  /\ UNCHANGED <<recordRow, destroyReq, owns, blobRow, rowLock, markers, bytes, purging,
                 rendering, lockMode, kept, strays, aborts>>

CaptureCommit ==
  LET r == capture.rec
      s == capture.sha
  IN  /\ capture.pc \in {"linked", "extended"}
      /\ recState' = [recState EXCEPT ![r] = "ACTIVE"]
      /\ recPolicy' = [recPolicy EXCEPT ![r] = capture.policy]
      /\ capturer' = [capturer EXCEPT ![r] = capture.by]
      /\ owns' = owns \cup {<<r, s>>}
      /\ kept' = kept \cup {<<r, s>>}
      /\ blobRow' = blobRow \cup {s}
      /\ rowLock' = IF ~capture.reuse \/ capture.pc = "extended" THEN rowLock \cup {s} ELSE rowLock
      /\ strays' = strays \ {s}
      /\ capture' = NoCapture
      /\ UNCHANGED <<recHold, tombstone, destroyReq, markers, bytes, objLock, purging,
                     rendering, lockMode, aborts>>

(* A refusal, a foreign-key failure or a crash: the transaction rolls back   *)
(* and storage keeps what was written to it.                                 *)
CaptureAbort ==
  /\ capture.pc # "idle"
  /\ \/ /\ capture.pc = "locked" /\ capture.reuse /\ capture.sha \notin blobRow
        /\ UNCHANGED aborts
     \/ aborts < MaxAborts /\ aborts' = aborts + 1
  /\ strays' = IF capture.sha \in bytes \ blobRow /\ capture.pc # "locked"
                 THEN strays \cup {capture.sha} ELSE strays
  /\ capture' = NoCapture
  /\ UNCHANGED <<recordRow, destroyReq, owns, blobRow, rowLock, markers, bytes, objLock,
                 purging, rendering, lockMode, kept>>

(***************************************************************************)
(* The structured rendition, built by a task under the record's row lock.   *)
(***************************************************************************)
RenderStore(r) ==
  /\ Exists(r) /\ RowFree(r) /\ r \in Structured
  /\ <<r, Pdf(r)>> \notin owns
  /\ tombstone[r].action # "DESTROY"
  /\ bytes' = bytes \cup {Pdf(r)}
  /\ rendering' = rendering \cup {r}
  /\ UNCHANGED <<recordRow, destroyReq, owns, blobRow, rowLock, objLock, markers, purging,
                 capture, lockMode, kept, strays, aborts>>

RenderCommit(r) ==
  /\ r \in rendering
  /\ rendering' = rendering \ {r}
  /\ owns' = owns \cup {<<r, Pdf(r)>>}
  /\ kept' = kept \cup {<<r, Pdf(r)>>}
  /\ blobRow' = blobRow \cup {Pdf(r)}
  /\ UNCHANGED <<recordRow, destroyReq, rowLock, markers, storageVars, capture, lockMode,
                 aborts>>

RenderCrash(r) ==
  /\ r \in rendering
  /\ rendering' = rendering \ {r}
  /\ UNCHANGED <<recordRow, destroyReq, owns, blobRow, rowLock, markers, storageVars,
                 capture, lockMode, kept, aborts>>

(***************************************************************************)
(* Disposition by people and by the retention sweep.                        *)
(***************************************************************************)
SetState(r, s) ==
  /\ recState' = [recState EXCEPT ![r] = s]
  /\ UNCHANGED <<recPolicy, capturer, tombstone, destroyReq, owns, blobRow, rowLock,
                 markers, storageVars, capture, rendering, lockMode, kept, aborts>>

(* _ALLOWED, the edges of the disposition machine.                           *)
AllowedEdges ==
  {<<"ACTIVE", "DUE_FOR_REVIEW">>, <<"DUE_FOR_REVIEW", "DISPOSED">>, <<"DUE_FOR_REVIEW", "ACTIVE">>,
   <<"ACTIVE", "ON_HOLD">>, <<"DUE_FOR_REVIEW", "ON_HOLD">>, <<"ON_HOLD", "ACTIVE">>}

AdvanceState(r, s) ==
  /\ RowFree(r)
  /\ s \in {"ACTIVE", "DUE_FOR_REVIEW"} /\ recState[r] # "ON_HOLD"
  /\ <<recState[r], s>> \in AllowedEdges
  /\ SetState(r, s)
  /\ UNCHANGED recHold

SelfDispositionBlocked(u, r) == ~AllowSelf /\ u = capturer[r]

(* _guard_or_refuse_destroy.                                                 *)
DestroyAllowed(r, bypass) ==
  /\ ~recHold[r]
  /\ ~bypass => LocksExpired(r)
  /\ bypass => lockMode # "COMPLIANCE"

(* A RETAIN_PERMANENT record leaves only by legal order.                     *)
DisposableByPolicy(r) == recPolicy[r].action # "RETAIN_PERMANENT"

AdvanceDisposed(r, u) ==
  /\ RowFree(r) /\ BlobsFree(r)
  /\ <<recState[r], "DISPOSED">> \in AllowedEdges
  /\ ~SelfDispositionBlocked(u, r)
  /\ DisposableByPolicy(r)
  /\ recPolicy[r].action = "DESTROY" => DestroyAllowed(r, FALSE)
  /\ Dispose(r, recPolicy[r].action, FALSE, NoOne, u)
  /\ UNCHANGED destroyReq

Holdable(r) == Exists(r) /\ recState[r] # "DISPOSED" /\ ~recHold[r]

PlaceHold(r) ==
  /\ RowFree(r) /\ Holdable(r)
  /\ recHold' = [recHold EXCEPT ![r] = TRUE]
  /\ SetState(r, "ON_HOLD")

ReleaseHold(r) ==
  /\ RowFree(r) /\ recHold[r]
  /\ recHold' = [recHold EXCEPT ![r] = FALSE]
  /\ SetState(r, "ACTIVE")

(* Whether the retention period of a record is over is left open: it may end *)
(* between any two steps.                                                    *)
SweepCandidate(r) ==
  /\ ~recHold[r]
  /\ recPolicy[r].action # "RETAIN_PERMANENT"
  /\ recState[r] = "ACTIVE" \/ (recState[r] = "DUE_FOR_REVIEW" /\ ~recPolicy[r].review)

AutoDisposable(r) ==
  /\ ~recPolicy[r].review
  /\ recPolicy[r].action = "DESTROY" => LocksExpired(r)

(* One record of a sweep: it falls due and stops there...                    *)
SweepFlip(r) ==
  /\ RowFree(r) /\ SweepCandidate(r)
  /\ recState[r] = "ACTIVE" /\ ~AutoDisposable(r)
  /\ SetState(r, "DUE_FOR_REVIEW")
  /\ UNCHANGED recHold

(* ...or is disposed of in the same transaction.                             *)
SweepDispose(r) ==
  /\ RowFree(r) /\ BlobsFree(r) /\ SweepCandidate(r)
  /\ AutoDisposable(r)
  /\ Dispose(r, recPolicy[r].action, FALSE, NoOne, NoOne)
  /\ UNCHANGED destroyReq

(***************************************************************************)
(* Destruction under a legal order (R27): one asks, another approves.       *)
(***************************************************************************)
SetRequest(r, q) ==
  /\ destroyReq' = [destroyReq EXCEPT ![r] = q]
  /\ UNCHANGED <<recState, recHold, recPolicy, capturer, tombstone, owns, blobRow, rowLock,
                 markers, storageVars, capture, rendering, lockMode, kept, aborts>>

RequestWormDestroy(r, u) ==
  /\ Exists(r) /\ RowFree(r) /\ recState[r] # "DISPOSED"
  /\ destroyReq[r].status # "open"
  /\ SetRequest(r, [status |-> "open", by |-> u])

CancelWormDestroy(r) ==
  /\ destroyReq[r].status = "open"
  /\ SetRequest(r, NoRequest)

ApproveWormDestroy(r, u) ==
  /\ RowFree(r) /\ BlobsFree(r)
  /\ destroyReq[r].status = "open"
  /\ u # destroyReq[r].by
  /\ recState[r] # "DISPOSED"
  /\ DestroyAllowed(r, TRUE)
  /\ destroyReq' = [destroyReq EXCEPT ![r].status = "executed"]
  /\ Dispose(r, "DESTROY", TRUE, destroyReq[r].by, u)

(***************************************************************************)
(* Physical erasure: marker row, then object lock, then storage.            *)
(***************************************************************************)
(* A blob row names this very object again: the marker is stale.             *)
Owned(m) == m.obj \in blobRow

\* Mutant: a legal order is honoured only where the policy destroys as well.
MarkerAuthorityByPolicy(m) ==
  /\ recState[m.rec] = "DISPOSED" /\ tombstone[m.rec].action = "DESTROY"
  /\ recPolicy[m.rec].action = "DESTROY"

(* What the reaper demands of a marker before it touches storage.            *)
MarkerAuthority(m) ==
  LET t == tombstone[m.rec]
      q == destroyReq[m.rec]
  IN  /\ recState[m.rec] = "DISPOSED" /\ t.action = "DESTROY"
      /\ IF t.worm
           THEN /\ q.status = "executed" /\ q.by = t.requested
                /\ t.requested # t.approved /\ t.requested # NoOne /\ t.approved # NoOne
           ELSE ~m.bypass /\ recPolicy[m.rec].action = "DESTROY"

PurgeStale(m) ==
  /\ m \in markers \ purging /\ ObjectFree(m.obj)
  /\ Owned(m) \/ ~MarkerAuthority(m)
  /\ markers' = markers \ {m}
  /\ UNCHANGED <<recordRow, destroyReq, owns, blobRow, rowLock, storageVars, capture,
                 rendering, lockMode, kept, aborts>>

(* Storage refuses to delete a locked version without the bypass.            *)
StorageDeletes(m) == m.obj \in objLock => (m.bypass /\ lockMode # "COMPLIANCE")

PurgeErase(m) ==
  /\ m \in markers \ purging /\ ObjectFree(m.obj)
  /\ ~Owned(m)
  /\ StorageDeletes(m)
  /\ bytes' = bytes \ {m.obj}
  /\ objLock' = objLock \ {m.obj}
  /\ strays' = strays \ {m.obj}
  /\ purging' = purging \cup {m}
  /\ UNCHANGED <<recordRow, destroyReq, owns, blobRow, rowLock, markers, capture, rendering,
                 lockMode, kept, aborts>>

PurgeCommit(m) ==
  /\ m \in purging
  /\ purging' = purging \ {m}
  /\ markers' = markers \ {m}
  /\ UNCHANGED <<recordRow, destroyReq, owns, blobRow, rowLock, bytes, objLock, strays,
                 capture, rendering, lockMode, kept, aborts>>

(* The bytes are gone and the marker is not: the next reaper run retries.    *)
PurgeCrash(m) ==
  /\ m \in purging
  /\ purging' = purging \ {m}
  /\ UNCHANGED <<recordRow, destroyReq, owns, blobRow, rowLock, markers, bytes, objLock,
                 strays, capture, rendering, lockMode, kept, aborts>>

(***************************************************************************)
(* Time.                                                                   *)
(***************************************************************************)
(* Storage holds an object at least as long as its row says.                 *)
LockExpires(o) ==
  /\ o \in objLock
  /\ capture.pc # "idle" => capture.sha # o
  /\ IF o \in rowLock
       THEN rowLock' = rowLock \ {o} /\ objLock' \in {objLock, objLock \ {o}}
       ELSE objLock' = objLock \ {o} /\ UNCHANGED rowLock
  /\ UNCHANGED <<recordRow, destroyReq, owns, blobRow, markers, bytes, purging, strays,
                 capture, rendering, lockMode, kept, aborts>>

RecNext ==
  \/ \E r \in Recs, s \in Shas, p \in Policies, u \in Clerks : CaptureBegin(r, s, p, u)
  \/ CapturePromote \/ CaptureLink \/ CaptureExtend \/ CaptureCommit \/ CaptureAbort
  \/ \E r \in Recs :
       \/ RenderStore(r) \/ RenderCommit(r) \/ RenderCrash(r)
       \/ \E s \in DispositionStates : AdvanceState(r, s)
       \/ \E u \in People : AdvanceDisposed(r, u)
       \/ PlaceHold(r) \/ ReleaseHold(r)
       \/ SweepFlip(r) \/ SweepDispose(r)
       \/ \E u \in People : RequestWormDestroy(r, u) \/ ApproveWormDestroy(r, u)
       \/ CancelWormDestroy(r)
  \/ \E m \in markers : PurgeStale(m) \/ PurgeErase(m) \/ PurgeCommit(m) \/ PurgeCrash(m)
  \/ \E o \in Objects : LockExpires(o)

RecSpec == RecInit /\ [][RecNext]_recVars

(* A transaction ends, a lock expires on its day, and the reaper, which Beat *)
(* starts again and again, gets at an object whenever storage would let it.  *)
Settle(o) == \E m \in markers : m.obj = o /\ (PurgeStale(m) \/ PurgeErase(m))
EndPurge(o) == \E m \in markers : m.obj = o /\ (PurgeCommit(m) \/ PurgeCrash(m))

CaptureGoesOn == CapturePromote \/ CaptureLink \/ CaptureCommit \/ CaptureAbort

RecFairSpec ==
  /\ RecSpec
  /\ WF_recVars(CaptureGoesOn)
  /\ \A s \in Shas :
       WF_recVars(LockExpires(s)) /\ WF_recVars(EndPurge(s)) /\ SF_recVars(Settle(s))

(***************************************************************************)
(* Properties.                                                             *)
(***************************************************************************)
(* Every variable holds values of its kind.                                  *)
RecTypeOK ==
  /\ recState \in [Recs -> DispositionStates \cup {"Absent"}]
  /\ recHold \in [Recs -> BOOLEAN]
  /\ recPolicy \in [Recs -> Policies \cup {Permanent}]
  /\ capturer \in [Recs -> People \cup {NoOne}]
  /\ tombstone \in [Recs -> [action : {"none", "DESTROY", "ARCHIVE"}, worm : BOOLEAN,
                             requested : People \cup {NoOne}, approved : People \cup {NoOne}]]
  /\ destroyReq \in [Recs -> [status : {"none", "open", "executed"},
                              by : People \cup {NoOne}]]
  /\ owns \in SUBSET (Recs \X Objects) /\ kept \in SUBSET (Recs \X Objects)
  /\ blobRow \in SUBSET Objects /\ bytes \in SUBSET Objects
  /\ rowLock \in SUBSET Objects /\ objLock \in SUBSET Objects
  /\ markers \in SUBSET Markers /\ purging \in SUBSET markers
  /\ capture \in Captures \cup {NoCapture}
  /\ rendering \in SUBSET Recs
  /\ lockMode \in {"GOVERNANCE", "COMPLIANCE"}
  /\ strays \in SUBSET Objects /\ aborts \in 0..MaxAborts

(* A blob row always has its bytes in storage, through crashes, retried      *)
(* purges and captures of the same content: a backup that copies every blob  *)
(* never meets a destroyed object (delete_blob_and_links).                   *)
BlobRowHasBytes == blobRow \subseteq bytes

(* Whatever a record was captured with stays attached to it, with its row,   *)
(* until that very record is destroyed: destroying another record that       *)
(* shares the content takes nothing from it.                                 *)
PreservedKeepsEvidence ==
  \A r \in Recs, o \in Objects :
    <<r, o>> \in kept /\ ContentPreserved(r) => <<r, o>> \in owns /\ o \in blobRow

(* The bytes of destroyed evidence are gone, belong to a live row, or have a *)
(* marker the reaper will accept; nothing of them is left without a trace.   *)
(* A copy that a rolled-back capture uploaded is not the record's.           *)
ErasureIsTracked ==
  \A r \in Recs, s \in Shas :
    (<<r, s>> \in kept /\ ~ContentPreserved(r) /\ s \in bytes) =>
      \/ s \in blobRow \/ s \in strays
      \/ capture.pc \in {"promoted", "linked"} /\ capture.sha = s
      \/ \E m \in markers : m.obj = s /\ MarkerAuthority(m)

(* A record is destroyed against its retention only by an order that one     *)
(* person asked for and another approved, and by the schedule or a person    *)
(* only under a policy that says so; the capturer disposes of it only where  *)
(* the organisation allows that (SoD-6).                                     *)
DestructionIsLawful ==
  \A r \in Recs :
    LET t == tombstone[r]
    IN  t.action # "none" =>
          IF t.worm
            THEN t.requested # NoOne /\ t.approved \notin {NoOne, t.requested} /\ lockMode = "GOVERNANCE"
            ELSE t.action = recPolicy[r].action /\ (t.approved = capturer[r] => AllowSelf)

(* An object leaves storage while its lock is running only when a record it  *)
(* was evidence of has been destroyed by legal order: an ordinary marker     *)
(* waits, even when the row forgot a longer lock that a rolled-back capture  *)
(* obtained.                                                                 *)
LockedLeavesByOrder ==
  [][\A o \in Objects :
       (o \in bytes \cap objLock /\ o \notin bytes') =>
         \E r \in Recs : <<r, o>> \in kept /\ tombstone[r].worm]_recVars

(* DISPOSED is the end of a record, and a hold ends only by its release.     *)
DisposedIsFinal ==
  [][\A r \in Recs :
       /\ recState[r] = "DISPOSED" => recState'[r] = "DISPOSED" /\ tombstone'[r] = tombstone[r]
       /\ recHold[r] /\ recState'[r] # "ON_HOLD" => recState'[r] = "ACTIVE"]_recVars

(* Destroyed evidence is erased in the end, or owned again, whatever crashes *)
(* and outages come between.                                                 *)
ErasureCompletes ==
  \A r \in Recs, o \in Shas :
    (<<r, o>> \in kept /\ ~ContentPreserved(r)) ~> (o \notin bytes \/ o \in blobRow \/ o \in strays)

(* Rows, objects, owners and purge markers account for each other between    *)
(* any two steps of the database and the object store: evidence that is      *)
(* needed is there, and evidence that is destroyed is gone or on its way.    *)
EvidenceIsAccountedFor == RecTypeOK /\ BlobRowHasBytes /\ PreservedKeepsEvidence /\ ErasureIsTracked

(* No sequence of holds, schedules, orders and crashes destroys a record     *)
(* without its lawful reason, frees a locked object without an order, or     *)
(* revives a record that was disposed of.                                    *)
DisposalIsLawful == []DestructionIsLawful /\ LockedLeavesByOrder /\ DisposedIsFinal
=============================================================================
