------------------------------- MODULE Mirror -------------------------------
(***************************************************************************)
(* The read-only mirror of the governing documents: a tree of files under   *)
(* .builds/<name>, published by the symbolic link `current`, with one        *)
(* mirror_build row per build as the state the drift scan expects.  A pass   *)
(* (the hourly scan, or a sync that a release or the nightly schedule asks   *)
(* for) holds one advisory lock: scan, quarantine, persist, rebuild, commit  *)
(* the row, swap, stamp.  Any step may fail or be the worker's last, and     *)
(* somebody with access to the disk may change the tree at any moment.       *)
(*                                                                         *)
(* The vault is the number of its latest release; a tree is the release it   *)
(* was built from and what happened to its bytes since.  A name that neither *)
(* disk, registry nor pass mentions is as good as a new one.                 *)
(***************************************************************************)
EXTENDS Integers, Sequences, FiniteSets

CONSTANTS
  Builds,        \* bound: names of builds (uuid4), enough for one to be free at any moment
  NoBuild,       \* no name, and no tree under a name
  KeepRows,      \* _KEEP_BUILD_ROWS
  MaxReleases,   \* bound: releases and retirements of documents
  MaxFaults,     \* bound: failed or interrupted steps
  MaxTampers     \* bound: changes to the disk by somebody else

ASSUME MirrorAssumption ==
  /\ KeepRows \in Nat \ {0} /\ MaxReleases \in Nat /\ MaxFaults \in Nat /\ MaxTampers \in Nat
  /\ Builds \cap {NoBuild, "missing", "rogue", "outside"} = {}
  /\ NoBuild \notin [gen : 0..MaxReleases, mark : {"clean", "changed", "late"}]

VARIABLES
  effective,   \* the vault's set of Effective versions, as the number of its latest change
  tree,        \* what is under .builds/<name>
  areaIntact,  \* .builds is a real directory
  current,     \* where `current` leads
  registry,    \* mirror_build rows in order of built_at
  pass,        \* the pass that holds LOCK_MIRROR_SYNC
  faults,      \* history: the steps that failed or were interrupted, in order
  tampers,     \* history: how often the disk was changed by somebody else
  alarmed      \* history: a MIRROR_TAMPER event was written

mirrorVars == <<effective, tree, areaIntact, current, registry, pass, faults, tampers, alarmed>>
diskVars == <<tree, areaIntact, current>>
mirrorHistory == <<faults, tampers, alarmed>>

(* A link that is gone, a real directory in its place, a link out of .builds. *)
Pointers == Builds \cup {"missing", "rogue", "outside"}

NoPass ==
  [pc |-> "idle", always |-> FALSE, found |-> FALSE, failed |-> FALSE, fresh |-> FALSE,
   heal |-> NoBuild, scope |-> {}, seen |-> {}, name |-> NoBuild, keep |-> NoBuild]

MirrorInit ==
  /\ effective = 0
  /\ tree = [b \in Builds |-> NoBuild]
  /\ areaIntact = TRUE /\ current = "missing"
  /\ registry = <<>> /\ pass = NoPass
  /\ faults = <<>> /\ tampers = 0 /\ alarmed = FALSE

Row(b) == {i \in DOMAIN registry : registry[i].name = b}
Registered(b) == Row(b) # {}
OnDisk(b) == tree[b] # NoBuild
Swapped == {i \in DOMAIN registry : registry[i].swapped}
LatestRow(S) == CHOOSE i \in S : \A j \in S : j <= i

(* The vault changes; the sync it asks for is a pass that may start at any    *)
(* moment, is skipped while another holds the lock, and may be lost.          *)
VaultChanges ==
  /\ effective < MaxReleases
  /\ effective' = effective + 1
  /\ UNCHANGED <<diskVars, registry, pass, mirrorHistory>>

(***************************************************************************)
(* The scan.                                                               *)
(***************************************************************************)

(* The newest row of all is the one a swap may have been interrupted at.      *)
Unstamped(i) == IF i = Len(registry) THEN "selfheal" ELSE "rollback"

PointedRow == CHOOSE i \in Row(current) : TRUE

(* resolve_pointer: `current` is checked against the registry.               *)
ResolvePointer ==
  IF current = "outside" THEN "foreign"
  ELSE IF registry = <<>> THEN (IF current = "rogue" THEN "rogue" ELSE "none")
  ELSE IF current \in {"missing", "rogue"} THEN current
  ELSE IF ~Registered(current) THEN "foreign"
  ELSE IF ~registry[PointedRow].swapped THEN Unstamped(PointedRow)
  ELSE IF PointedRow = LatestRow(Swapped) THEN "ok" ELSE "rollback"

(* The row `current` names, whose manifest the tree is compared with.        *)
HasBaseline == ResolvePointer \in {"ok", "selfheal", "rollback"}
Scannable == HasBaseline /\ areaIntact /\ OnDisk(current)

(* Unregistered children of .builds, those left by an interrupted build too. *)
Extras == {b \in Builds : areaIntact /\ OnDisk(b) /\ ~Registered(b) /\ b # current}

PointerFinding ==
  \/ ResolvePointer \in {"missing", "rogue", "foreign", "rollback"}
  \/ ~areaIntact
  \/ HasBaseline /\ ~Scannable

(* compare_tree: the served files against the row's manifest.                *)
TreeDiffers == Scannable /\ tree[current].mark # "clean"

(* An empty registry under a sound .builds ends the scan at once.            *)
NoBaseline == ResolvePointer = "none" /\ areaIntact

(* What the pointer and the served tree give, before .builds is swept.       *)
ServedFindings == ~NoBaseline /\ (PointerFinding \/ TreeDiffers)

Findings == ServedFindings \/ (~NoBaseline /\ Extras # {})

\* Mutant: a tree that is behind the vault is not noticed.
CurrentWhenIntact == Scannable /\ ResolvePointer \in {"ok", "selfheal"}

(* _is_current: the manifest still names exactly the Effective versions.     *)
IsCurrent == /\ Scannable /\ ResolvePointer \in {"ok", "selfheal"}
             /\ tree[current].gen = effective

(* The divergent bytes there are: those of the served tree and of whatever is *)
(* not registered, once there is a baseline.                                  *)
Scope ==
  {b \in Builds : /\ ~NoBaseline /\ OnDisk(b) /\ tree[b].mark # "clean"
                  /\ b = current \/ ~Registered(b)}

(* For the next scan a late change is a change like any other.               *)
NoLongerLate(t) == IF t # NoBuild /\ t.mark = "late" THEN [t EXCEPT !.mark = "changed"] ELSE t

(* quarantine_tree: planted trees leave .builds.                              *)
MovedAway ==
  {b \in Builds : ~NoBaseline /\ (b \in Extras \/ (b = current /\ areaIntact /\ ~Registered(b)))}

(* The divergent bytes are copied; planted trees, a planted `current` and a   *)
(* replaced .builds are moved.  A copy or a move that fails is a note in the   *)
(* event.                                                                     *)
Quarantine ==
  /\ tree' = [b \in Builds |-> IF b \in MovedAway THEN NoBuild ELSE NoLongerLate(tree[b])]
  /\ areaIntact' = TRUE
  /\ current' = IF current = "rogue" THEN "missing" ELSE current

Scan(always) ==
  /\ pass.pc = "idle"
  /\ pass' = [NoPass EXCEPT !.pc = "scanned", !.always = always, !.found = Findings,
                            !.fresh = IsCurrent, !.scope = Scope, !.seen = Scope,
                            !.heal = IF ResolvePointer = "selfheal" /\ ~PointerFinding
                                     THEN current ELSE NoBuild]
  /\ Quarantine
  /\ UNCHANGED <<effective, registry, mirrorHistory>>

(* Where a scan may raise: before anything is found, in _known_digests or      *)
(* before .builds is swept, before the quarantine, in writing its index.       *)
Reaches == {"nothing", "served", "swept", "index"}

FoundBy(reach) ==
  CASE reach = "nothing" -> FALSE
    [] reach = "served" -> ServedFindings
    [] OTHER -> Findings

SeenBy(reach) ==
  CASE reach = "nothing" -> {}
    [] reach = "served" -> Scope \cap {current}
    [] OTHER -> Scope

(* An infrastructure failure yields a FAILED report with what had been found   *)
(* by then.                                                                   *)
ScanFails(always, reach) ==
  /\ pass.pc = "idle"
  /\ Len(faults) < MaxFaults
  /\ reach \in {"swept", "index"} => Findings
  /\ pass' = [NoPass EXCEPT !.pc = IF always THEN "scanned" ELSE "noted", !.always = always,
                            !.found = FoundBy(reach), !.failed = TRUE,
                            !.scope = Scope, !.seen = SeenBy(reach)]
  /\ faults' = Append(faults, "scan")
  /\ IF reach = "index" THEN Quarantine
     ELSE tree' = [b \in Builds |-> NoLongerLate(tree[b])] /\ UNCHANGED <<areaIntact, current>>
  /\ UNCHANGED <<effective, registry, tampers, alarmed>>

\* Mutant: a divergent tree is rebuilt whether or not its findings were written.
NeverDeferred(persisted) == FALSE

(* Findings that could not be written put off the rebuild that erases them.  *)
Deferred(persisted) == ~persisted /\ pass.found

(* needs: DIVERGENT, no baseline or behind the vault.                        *)
Rebuilds == pass.always \/ pass.found \/ ~pass.fresh

(* A rebuild follows, except of a FAILED hourly scan ("noted"); written       *)
(* findings answer for what the scan has seen and for nothing else.           *)
PersistOutcome(persisted) ==
  IF pass.pc = "scanned" /\ Rebuilds /\ ~Deferred(persisted)
  THEN [pass EXCEPT !.pc = "rebuild", !.scope = IF persisted /\ pass.found THEN @ \ pass.seen ELSE @]
  ELSE NoPass

(* One transaction: an event per finding, the summary row and the stamp that  *)
(* completes an interrupted swap.                                             *)
Persist ==
  /\ pass.pc \in {"scanned", "noted"}
  /\ alarmed' = (alarmed \/ pass.found)
  /\ registry' = [i \in DOMAIN registry |->
       IF registry[i].name = pass.heal THEN [registry[i] EXCEPT !.swapped = TRUE]
       ELSE registry[i]]
  /\ pass' = PersistOutcome(TRUE)
  /\ UNCHANGED <<effective, diskVars, faults, tampers>>

PersistFails ==
  /\ pass.pc \in {"scanned", "noted"}
  /\ Len(faults) < MaxFaults
  /\ faults' = Append(faults, "persist")
  /\ pass' = PersistOutcome(FALSE)
  /\ UNCHANGED <<effective, diskVars, registry, tampers, alarmed>>

(***************************************************************************)
(* The rebuild.                                                            *)
(***************************************************************************)
(* uuid4: the names are alike, so which of the unmentioned ones is no matter.  *)
Unmentioned == {b \in Builds : ~OnDisk(b) /\ ~Registered(b) /\ b \notin {current, pass.name}}
NewName == CHOOSE b \in Unmentioned : TRUE

(* build_tree: source, rendition, metadata and index of every Effective       *)
(* version, and the manifest that lists them.                                 *)
BuildTree == [gen |-> effective, mark |-> "clean"]

(* A new directory, and the Effective versions as they are now.  A file in   *)
(* the place of .builds makes mkdir raise.                                    *)
BuildStart ==
  /\ pass.pc = "rebuild" /\ areaIntact /\ Unmentioned # {}
  /\ pass' = [pass EXCEPT !.pc = "building", !.name = NewName,
                          !.keep = IF current \in Builds THEN current ELSE NoBuild]
  /\ tree' = [tree EXCEPT ![NewName] = BuildTree]
  /\ UNCHANGED <<effective, areaIntact, current, registry, mirrorHistory>>

BuildBlocked ==
  /\ \/ pass.pc = "rebuild" /\ ~areaIntact
     \/ pass.pc = "building" /\ ~OnDisk(pass.name)
  /\ pass' = NoPass
  /\ UNCHANGED <<effective, diskVars, registry, mirrorHistory>>

(* An object that cannot be fetched, a full disk, a dead worker: the          *)
(* directory stays behind without a row.                                      *)
BuildFails ==
  /\ pass.pc = "building" /\ Len(faults) < MaxFaults
  /\ faults' = Append(faults, "build")
  /\ pass' = NoPass
  /\ UNCHANGED <<effective, diskVars, registry, tampers, alarmed>>

(* The newest KeepRows rows, and the row `current` pointed at when the        *)
(* rebuild began.                                                             *)
KeptRows(rows) ==
  LET Kept(i) ==
        \/ rows[i].name = pass.keep
        \/ Cardinality({j \in (i + 1)..Len(rows) : rows[j].name # pass.keep}) < KeepRows
      Index(n) == CHOOSE i \in DOMAIN rows : Kept(i) /\ Cardinality({j \in 1..i : Kept(j)}) = n
  IN  [n \in 1..Cardinality({i \in DOMAIN rows : Kept(i)}) |-> rows[Index(n)]]

(* The row commits before the link is swapped.                               *)
BuildCommit ==
  /\ pass.pc = "building" /\ OnDisk(pass.name)
  /\ registry' = KeptRows(Append(registry, [name |-> pass.name, swapped |-> FALSE]))
  /\ pass' = [pass EXCEPT !.pc = "built"]
  /\ UNCHANGED <<effective, diskVars, mirrorHistory>>

(* os.replace, then every other build is removed.                            *)
Swap ==
  /\ pass.pc = "built" /\ current # "rogue"
  /\ current' = pass.name
  /\ tree' = [b \in Builds |-> IF b = pass.name THEN tree[b] ELSE NoBuild]
  /\ pass' = [pass EXCEPT !.pc = "swapped"]
  /\ UNCHANGED <<effective, areaIntact, registry, mirrorHistory>>

(* A directory cannot be replaced by a link.                                 *)
SwapBlocked ==
  /\ pass.pc = "built" /\ current = "rogue"
  /\ pass' = NoPass
  /\ UNCHANGED <<effective, diskVars, registry, mirrorHistory>>

SwapFails ==
  /\ pass.pc = "built" /\ Len(faults) < MaxFaults
  /\ faults' = Append(faults, "swap")
  /\ pass' = NoPass
  /\ UNCHANGED <<effective, diskVars, registry, tampers, alarmed>>

Stamp ==
  /\ pass.pc = "swapped"
  /\ registry' = [i \in DOMAIN registry |->
       IF registry[i].name = pass.name THEN [registry[i] EXCEPT !.swapped = TRUE]
       ELSE registry[i]]
  /\ pass' = NoPass
  /\ UNCHANGED <<effective, diskVars, mirrorHistory>>

StampFails ==
  /\ pass.pc = "swapped" /\ Len(faults) < MaxFaults
  /\ faults' = Append(faults, "stamp")
  /\ pass' = NoPass
  /\ UNCHANGED <<effective, diskVars, registry, tampers, alarmed>>

(***************************************************************************)
(* Changes to the disk by somebody else.                                   *)
(***************************************************************************)
Tampered ==
  /\ tampers < MaxTampers
  /\ tampers' = tampers + 1
  /\ UNCHANGED <<effective, registry, pass, faults, alarmed>>

(* Changed while a pass is under way, after its scan: no matter for this pass. *)
Mark(b) == IF pass.pc = "idle" \/ b \in pass.scope THEN "changed" ELSE "late"

TamperServed ==
  /\ Tampered /\ current \in Builds /\ OnDisk(current)
  /\ tree' = [tree EXCEPT ![current].mark = Mark(current)]
  /\ UNCHANGED <<areaIntact, current>>

PlantTree ==
  /\ Tampered /\ areaIntact /\ Unmentioned # {}
  /\ tree' = [tree EXCEPT ![NewName] = [gen |-> 0, mark |-> Mark(NewName)]]
  /\ UNCHANGED <<areaIntact, current>>

RemoveTree(b) ==
  /\ Tampered /\ OnDisk(b)
  /\ tree' = [tree EXCEPT ![b] = NoBuild]
  /\ UNCHANGED <<areaIntact, current>>

Repoint(p) ==
  /\ Tampered /\ p # current /\ (p \in Builds => OnDisk(p))
  /\ current' = p
  /\ UNCHANGED <<tree, areaIntact>>

ReplaceArea ==
  /\ Tampered /\ areaIntact
  /\ areaIntact' = FALSE
  /\ tree' = [b \in Builds |-> NoBuild]
  /\ UNCHANGED current

PassStep ==
  \/ Persist
  \/ BuildStart
  \/ BuildBlocked
  \/ BuildCommit
  \/ Swap
  \/ SwapBlocked
  \/ Stamp

Fault ==
  \/ \E always \in BOOLEAN, reach \in Reaches : ScanFails(always, reach)
  \/ PersistFails
  \/ BuildFails
  \/ SwapFails
  \/ StampFails

Tamper ==
  \/ TamperServed
  \/ PlantTree
  \/ \E b \in Builds : RemoveTree(b)
  \/ \E p \in Pointers : Repoint(p)
  \/ ReplaceArea

MirrorNext ==
  \/ VaultChanges
  \/ \E always \in BOOLEAN : Scan(always)
  \/ PassStep
  \/ Fault
  \/ Tamper

MirrorSpec == MirrorInit /\ [][MirrorNext]_mirrorVars

(* Beat starts the hourly scan again and again and a live pass goes on.  No   *)
(* sync is promised: the ones a release asks for may all be lost.             *)
MirrorFairSpec == MirrorSpec /\ WF_mirrorVars(Scan(FALSE)) /\ WF_mirrorVars(PassStep)

(***************************************************************************)
(* Properties.                                                             *)
(***************************************************************************)
Trees == [gen : 0..MaxReleases, mark : {"clean", "changed", "late"}]

\* Trees, pointer, registry and pass hold values of their types, and no build has two rows.
MirrorTypeOK ==
  /\ effective \in 0..MaxReleases
  /\ tree \in [Builds -> Trees \cup {NoBuild}]
  /\ areaIntact \in BOOLEAN /\ current \in Pointers
  /\ \A i \in DOMAIN registry :
       /\ registry[i] \in [name : Builds, swapped : BOOLEAN]
       /\ \A j \in DOMAIN registry : registry[i].name = registry[j].name => i = j
  /\ Len(registry) <= KeepRows + 1
  /\ pass.pc \in {"idle", "scanned", "noted", "rebuild", "building", "built", "swapped"}
  /\ pass.name \in Builds \cup {NoBuild} /\ pass.scope \cup pass.seen \subseteq Builds
  /\ tampers \in 0..MaxTampers /\ Len(faults) <= MaxFaults /\ alarmed \in BOOLEAN

(* Divergent bytes of these trees, there when the pass scanned, are pruned    *)
(* although no event tells of them.                                           *)
PrunedUntold ==
  {b \in pass.scope : /\ pass.pc = "built" /\ pass'.pc = "swapped"
                      /\ OnDisk(b) /\ tree[b].mark = "changed" /\ tree'[b] = NoBuild}

\* A rebuild never destroys divergent bytes whose event is not in the audit trail when the
\* scan of its pass was completed, nor, when that scan raised half-way, any that it had seen:
\* findings are salvaged from the failure, and findings that could not be written put the
\* rebuild off.  What a failed scan never looked at may go untold: an error in
\* _known_digests comes before the sweep of .builds, and the sync prunes what was planted there.
NothingIsPrunedUntold ==
  [][PrunedUntold # {} => pass.failed /\ PrunedUntold \cap pass.seen = {}]_mirrorVars

\* As long as nobody touches the disk, the tree that `current` serves has its row in the
\* registry, however many rebuilds fail to swap and pile up their rows above it: without
\* the row nothing would be compared any more.
ServedTreeHasRow ==
  tampers = 0 /\ current \in Builds => Registered(current)

FaultKinds == {faults[i] : i \in DOMAIN faults}

\* Failed scans, unwritten results and a worker that dies between the swap and the stamp
\* raise no tamper alarm, in any order and however often: the pass after them completes the
\* interrupted bookkeeping instead of taking it for a rollback.
InterruptedStampIsNoAlarm ==
  tampers = 0 /\ FaultKinds \subseteq {"scan", "persist", "stamp"} => ~alarmed

\* Once faults, tampering and releases have ceased, the hourly scan alone brings `current`
\* to an unchanged tree of exactly the Effective versions and keeps it there, whatever state
\* it started from: no pointer, a directory in its place, an orphan, a lost registry row, or
\* syncs that were all skipped.
MirrorConverges ==
  <>[](/\ current \in Builds /\ OnDisk(current)
       /\ tree[current].mark = "clean" /\ tree[current].gen = effective)

\* The mirror can be trusted and so can its alarms: nothing the scan saw is erased untold, the served
\* tree keeps the row it is compared with, and interrupted bookkeeping is no alarm.
MirrorIsTrusted ==
  [](MirrorTypeOK /\ ServedTreeHasRow /\ InterruptedStampIsNoAlarm) /\ NothingIsPrunedUntold
=============================================================================
