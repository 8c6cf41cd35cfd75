------------------------ MODULE ChangeImplementation ------------------------
(***************************************************************************)
(* The end of a document change request, where it meets the vault: an       *)
(* approved request claims the version it releases or retires its document,  *)
(* the Beat sweep makes the version live, and the request is closed.  With   *)
(* it goes the gate a leadership artifact meets on the same path: where the  *)
(* organisation asks for it, a version is released only with the signature   *)
(* of Top Management.                                                        *)
(*                                                                         *)
(* The DCR row is locked and re-read first and the version is claimed under  *)
(* its own row lock, so each handler is one step.  Anybody may implement:    *)
(* the duty check is that of a release, and DocumentLifecycle has it.  The    *)
(* pointer of the document is read unlocked, which only a second Approved     *)
(* version could exploit: that takes the overlaps DocumentLifecycle explores. *)
(***************************************************************************)
EXTENDS DocumentLifecycle

CONSTANTS
  MaxRequests,   \* bound: change requests, numbered as they are approved
  NoDoc,         \* NULL in dcr.target_document_id
  GoLive,        \* the go-live dates a request may propose (0: none)
  Leadership,    \* documents of a type in LEADERSHIP_DOC_TYPES
  Directors,     \* users who may be given the role Top Management
  Writers,       \* bound: the users who draft and import
  LastChange     \* bound: the clock

ASSUME ChangesAssumption ==
  /\ MaxRequests \in Nat /\ LastChange \in Nat /\ NoDoc \notin Docs
  /\ LastChange <= MaxTime /\ GoLive \subseteq 0..LastChange
  /\ Leadership \subseteq Docs /\ Directors \subseteq Users
  /\ Writers \subseteq Users

Changes == 1..MaxRequests
NoChange == 0   \* NULL in document_version.dcr_id

VARIABLES
  change,         \* dcr rows from Approved on: state, change_type, document, go-live, version
  claimedBy,      \* document_version.dcr_id
  gateOn,         \* system_config.leadership_release_requires_top_management_authorization
  topManagement,  \* members of the role Top Management
  authorization,  \* the open LEADERSHIP_AUTHORIZATION instance of a document
  verified        \* signature_event(meaning=verify) rows on the version

changeVars == <<change, claimedBy>>
gateVars == <<gateOn, topManagement, authorization, verified>>
governanceVars == <<vars, changeVars, gateVars>>

ChangeTypes == {"REVISE", "CREATE", "RETIRE"}
NotYet == [state |-> "Absent", type |-> "REVISE", doc |-> NoDoc, from |-> 0, version |-> 0]
NoAuthorization == [version |-> 0, pool |-> {}]

ChangeInit ==
  /\ Init
  /\ change = [c \in Changes |-> NotYet]
  /\ claimedBy = [d \in Docs |-> [v \in Versions |-> NoChange]]
  /\ gateOn \in BOOLEAN
  /\ topManagement = Directors
  /\ authorization = [d \in Docs |-> NoAuthorization]
  /\ verified = [d \in Docs |-> [v \in Versions |-> 0]]

(***************************************************************************)
(* The leadership gate.                                                     *)
(***************************************************************************)
(* assert_release_authorized                                                *)
GateOpen(d, v) == gateOn /\ d \in Leadership => verified[d][v] > 0

SetGate(b) ==
  /\ gateOn # b
  /\ gateOn' = b
  /\ UNCHANGED <<vars, changeVars, topManagement, authorization, verified>>

Authorizable(d, v) ==
  /\ d \in Leadership /\ docState[d] = "Approved"
  /\ LatestApproved(d, v)
  /\ verified[d][v] = 0
  /\ authorization[d] = NoAuthorization

(* With nobody in Top Management the instance ends in NEEDS_ATTENTION at     *)
(* once, and the request may be repeated.                                   *)
RequestAuthorization(d, v) ==
  /\ Authorizable(d, v)
  /\ topManagement # {}
  /\ authorization' = [authorization EXCEPT ![d] = [version |-> v, pool |-> topManagement]]
  /\ UNCHANGED <<vars, changeVars, gateOn, topManagement, verified>>

(* In the pool frozen at the request, and still in the role.                *)
MayAuthorize(d, u) == u \in authorization[d].pool \cap topManagement

(* A verify signs the version the request named; a reject ends the request.  *)
DecideAuthorization(d, u, outcome) ==
  /\ MayAuthorize(d, u)
  /\ authorization' = [authorization EXCEPT ![d] = NoAuthorization]
  /\ verified' = IF outcome = "verify"
                 THEN [verified EXCEPT ![d][authorization[d].version] = @ + 1]
                 ELSE verified
  /\ UNCHANGED <<vars, changeVars, gateOn, topManagement>>

ChangeRole(members) ==
  /\ topManagement' = members /\ members # topManagement
  /\ UNCHANGED <<vars, changeVars, gateOn, authorization, verified>>

(***************************************************************************)
(* The change request, from the approval ChangeRequest ends with.           *)
(***************************************************************************)
ChangeApproved(c, type, d, from) ==
  /\ change[c].state = "Absent"
  /\ \A b \in Changes : b < c => change[b].state # "Absent"
  /\ type = "CREATE" <=> d = NoDoc
  /\ type # "CREATE" => docState[d] # "Absent"
  /\ type = "RETIRE" => from = 0
  /\ change' = [change EXCEPT ![c] =
       [state |-> "Approved", type |-> type, doc |-> d, from |-> from, version |-> 0]]
  /\ UNCHANGED <<vars, claimedBy, gateVars>>

\* Mutant: the version is not asked whether another request has claimed it.
ClaimedOver(d, v) == vstate[d][v] = "Approved"

Unclaimed(d, v) == vstate[d][v] = "Approved" /\ claimedBy[d][v] = NoChange

(* _resolve_implement_version: the newest Approved version of the target, or *)
(* the named first version of a document that nothing governs yet.          *)
Resolves(c, d, v) ==
  CASE change[c].type = "REVISE" -> d = change[c].doc /\ LatestApproved(d, v)
    [] change[c].type = "CREATE" -> eff[d] = 0
    [] OTHER -> FALSE

Preflight(d, v) == GateOpen(d, v)

ScheduleChange(c, d, v) ==
  /\ change[c].state = "Approved"
  /\ Resolves(c, d, v) /\ Unclaimed(d, v)
  /\ Preflight(d, v)
  /\ effFrom' = [effFrom EXCEPT ![d][v] = IF change[c].from = 0 THEN now ELSE change[c].from]
  /\ claimedBy' = [claimedBy EXCEPT ![d][v] = c]
  /\ change' = [change EXCEPT ![c] = [@ EXCEPT !.state = "Implemented", !.doc = d, !.version = v]]
  /\ UNCHANGED <<docVars, last, vstate, author, supersededBy, signVars, lockVars, taskVars,
                 inflight, due, now, gateVars>>

(* RETIRE: the obsoletion and the request's step are one transaction.       *)
ImplementRetire(c, u) ==
  /\ change[c].state = "Approved" /\ change[c].type = "RETIRE"
  /\ Obsolete(Request("obsolete", change[c].doc, u, 0, 0))
  /\ change' = [change EXCEPT ![c].state = "Implemented"]
  /\ UNCHANGED <<inflight, claimedBy, gateVars>>

(* _assert_change_effective                                                  *)
ChangeEffective(c) ==
  IF change[c].type = "RETIRE" THEN docState[change[c].doc] = "Obsolete"
  ELSE vstate[change[c].doc][change[c].version] # "Approved"

CloseChange(c) ==
  /\ change[c].state = "Implemented"
  /\ ChangeEffective(c)
  /\ change' = [change EXCEPT ![c].state = "Closed"]
  /\ UNCHANGED <<vars, claimedBy, gateVars>>

(***************************************************************************)
(* The vault, with the gate in its cutover; the sweep passes over a version  *)
(* the gate holds.                                                          *)
(***************************************************************************)
CutoverAuthorized ==
  \A d \in Docs, v \in Versions :
     vstate[d][v] = "Approved" /\ vstate'[d][v] = "Effective" => GateOpen(d, v)

(* The steps of the vault that lead a version to release and a document to    *)
(* retirement; the faults of the lock and of the sweep are LifecycleOverlap's. *)
VaultAction ==
  \/ \E d \in Docs :
        \/ CreateDocument(d)
        \/ SubmitReview(d)
        \/ \E u \in Writers : ImportBaseline(d, u) \/ Checkin(d, u)
        \/ \E u \in Writers, t \in Tokens : Checkout(d, u, t)
        \/ \E t \in Tokens : ReleaseAfterCommit(d, t)
        \/ \E v \in Versions : SweepCutover(d, v) \/ SweepSkip(d, v)
  \/ Serve \/ SweepScan \/ Tick

VaultStep ==
  /\ VaultAction
  /\ \A d \in Docs : holder'[d] \in Writers \cup {NoUser}
  /\ \A d \in Docs, v \in Versions : effFrom'[d][v] \in 0..LastChange
  /\ now' <= LastChange
  /\ CutoverAuthorized
  /\ UNCHANGED <<changeVars, gateVars>>

SweepHeld(d, v) ==
  /\ v \in due[d]
  /\ Releasable(d, v) /\ ~GateOpen(d, v)
  /\ due' = [due EXCEPT ![d] = @ \ {v}]
  /\ UNCHANGED <<docVars, versionVars, signVars, lockVars, taskVars, inflight, now,
                 changeVars, gateVars>>

ChangeNext ==
  \/ VaultStep
  \/ \E d \in Docs, v \in Versions : SweepHeld(d, v)
  \/ \E c \in Changes, type \in ChangeTypes, d \in Docs \cup {NoDoc}, from \in GoLive :
        ChangeApproved(c, type, d, from)
  \/ \E c \in Changes, d \in Docs, v \in Versions : ScheduleChange(c, d, v)
  \/ \E c \in Changes, u \in Users : ImplementRetire(c, u)
  \/ \E c \in Changes : CloseChange(c)
  \/ \E b \in BOOLEAN : SetGate(b)
  \/ \E d \in Docs, v \in Versions : RequestAuthorization(d, v)
  \/ \E d \in Docs, u \in Users, o \in {"verify", "reject"} : DecideAuthorization(d, u, o)
  \/ \E m \in SUBSET Directors : ChangeRole(m)

ChangeSpec == ChangeInit /\ [][ChangeNext]_governanceVars

(* The Beat schedule of DocumentLifecycle: the clock, the scan, and a cutover *)
(* the gate does not refuse.                                                 *)
Clock == now < LastChange /\ Tick
GatedCutover(d, v) == GateOpen(d, v) /\ SweepCutover(d, v)

ChangeFairness ==
  /\ WF_now(Clock)
  /\ WF_due(SweepScan)
  /\ SF_due(\E d \in Docs, v \in Versions : GatedCutover(d, v))

ChangeFairSpec == ChangeSpec /\ ChangeFairness

(***************************************************************************)
(* Properties.                                                             *)
(***************************************************************************)
(* A request that has claimed the version it makes live.                    *)
Scheduled(c) == change[c].state \in {"Implemented", "Closed"} /\ change[c].type # "RETIRE"

ResultState(c) == vstate[change[c].doc][change[c].version]

(* Implemented, and the sweep refuses to make its version live.             *)
HeldUp(c) ==
  /\ Scheduled(c) /\ ResultState(c) = "Approved"
  /\ ~GateOpen(change[c].doc, change[c].version)

\* The link between a request and the version it releases holds from both ends, so a version
\* is the result of one request, and a scheduled version has the date the sweep looks for.
LinksAreMutual ==
  /\ \A c \in Changes : Scheduled(c) =>
        /\ claimedBy[change[c].doc][change[c].version] = c
        /\ approvers[change[c].doc][change[c].version] # {}
        /\ effFrom[change[c].doc][change[c].version] # 0
  /\ \A d \in Docs, v \in Versions : claimedBy[d][v] # NoChange =>
        LET c == claimedBy[d][v] IN Scheduled(c) /\ change[c].doc = d /\ change[c].version = v

\* What a closed request asked for has happened: its version was released, or its document is
\* retired; and the version of a CREATE was the first that ever governed its document.
ClosedTookEffect ==
  \A c \in Changes :
     /\ change[c].state = "Closed" =>
          IF change[c].type = "RETIRE" THEN docState[change[c].doc] = "Obsolete"
          ELSE releasers[change[c].doc][change[c].version] # {}
     /\ Scheduled(c) /\ change[c].type = "CREATE" =>
          \A w \in Versions : w < change[c].version => releasers[change[c].doc][w] = {}

\* Top Management signs a version at most once, so the replay that looks for the one
\* signature finds one.
AuthorizedOnce == \A d \in Docs, v \in Versions : verified[d][v] <= 1

\* An implemented request is never left waiting for Top Management by its own doing: only
\* the organisation, switching the gate on afterwards, can hold it up.
HeldUpOnlyByGate ==
  [][\A c \in Changes : ~HeldUp(c) /\ HeldUp(c)' => gateOn # gateOn']_governanceVars

\* However requests, releases, authorizations and the sweep interleave, every implemented
\* change is traceable to the one version it made, took effect before it was closed, and was
\* not accepted into a release that the leadership gate would refuse.
ChangesAreTraceable ==
  [](LinksAreMutual /\ ClosedTookEffect /\ AuthorizedOnce) /\ HeldUpOnlyByGate

\* An implemented change goes live by the sweep alone, unless the organisation holds it up.
ImplementedGoesLive ==
  \A c \in Changes :
     Scheduled(c) ~> (Scheduled(c) /\ (ResultState(c) # "Approved" \/ HeldUp(c)))
=============================================================================
