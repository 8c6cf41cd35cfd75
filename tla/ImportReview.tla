---------------------------- MODULE ImportReview ----------------------------
(***************************************************************************)
(* Human review of one import run (services/ingestion/review.py, on the    *)
(* groups of dedup.py and the proposal nodes of propose.py), up to the     *)
(* start, the outcome and the resume of its commit.                        *)
(*                                                                         *)
(* Files are numbered by the canonical pick: order_members puts the lower  *)
(* number first.  A file's decision log is kept as its fold, the newest    *)
(* value of each dimension; 0 stands for a dimension nobody has set.  An   *)
(* identifier that can collide is a Code; "{type}-<new>" never collides    *)
(* and is 0.  A request refused with a problem response is no step.        *)
(***************************************************************************)
EXTENDS Naturals, FiniteSets, FiniteSetsExt

CONSTANTS NFiles,        \* included files of the run
          Codes,         \* identifiers, positive numbers
          TakenCodes,    \* identifiers of vault documents
          Owners,        \* directory users, positive numbers
          Ambiguous,     \* files the classifier found ambiguous
          MaxRequests    \* bound: decisions, merges, splits and disabled users

ASSUME ReviewAssumption ==
  /\ NFiles \in Nat \ {0} /\ MaxRequests \in Nat
  /\ Codes \cup Owners \subseteq Nat \ {0} /\ TakenCodes \subseteq Codes

VARIABLES review,     \* import_run.status from Proposed on
          docCode,    \* file -> doc code read from its name or header
          clusters,   \* import_dupe_cluster rows
          families,   \* import_version_family rows
          nodes,      \* files with an import_proposal_node
          fold,       \* file -> newest value of each dimension of its decisions
          active,     \* users that are not disabled
          pinned,     \* commit_owner_snapshot
          imported,   \* file -> owner it was committed with, 0 while it is not
          requests    \* requests so far

reviewVars == <<review, docCode, clusters, families, nodes, fold, active, pinned, imported,
                requests>>

Files == 1..NFiles
Reviewable == {"Proposed", "Reviewing"}
Undecided == [disposition |-> "undecided", kind |-> FALSE, code |-> 0, owner |-> 0]

\* Decisions, groups and pins hold values of their types, and the version a group keeps is one
\* of its members.
ReviewTypeOK ==
  /\ review \in Reviewable \cup {"Committing", "PartiallyCommitted", "Completed"}
  /\ docCode \in [Files -> Codes \cup {0}]
  /\ \A g \in clusters : g.members \subseteq Files /\ g.keep \in g.members
  /\ \A g \in families : g.members \subseteq Files /\ g.keep \in g.members
  /\ nodes \subseteq Files
  /\ fold \in [Files -> [disposition : {"undecided", "included", "excluded", "deferred"},
                         kind : BOOLEAN, code : Codes \cup {0}, owner : Owners \cup {0}]]
  /\ active \subseteq Owners
  /\ pinned \in [Files -> Owners \cup {0}] /\ imported \in [Files -> Owners \cup {0, 99}]
  /\ requests \in 0..MaxRequests

-----------------------------------------------------------------------------
(* Groups: duplicates first, then near duplicates among what is left, then   *)
(* version families among what is left; one node per file no group replaces. *)

Classes(S, key) == {c \in {{g \in S : key[g] = key[f]} : f \in S} : Cardinality(c) >= 2}
Group(members) == [members |-> members, keep |-> Min(members)]
Replaced(groups) == UNION {g.members \ {g.keep} : g \in groups}

ExactClusters(sha) == {Group(c) : c \in Classes(Files, sha)}
NearClusters(sha, near) ==
  {Group(c) : c \in Classes(Files \ Replaced(ExactClusters(sha)), near)}
\* Grouped by doc code, else by base name; files without a code share one or none do.
ComputedFamilies(cs, code, sameName) ==
  {[members |-> c, keep |-> Min(c), chain |-> FALSE] :
     c \in Classes({f \in Files \ Replaced(cs) : code[f] # 0 \/ sameName}, code)}

RebuildProposals(cs, fs) == Files \ (Replaced(cs) \cup Replaced(fs))

\* A partition of the files maps each to the first of its part.
Partitions == {p \in [Files -> Files] : \A f \in Files : p[f] <= f /\ p[p[f]] = p[f]}

ReviewInit ==
  /\ docCode \in [Files -> Codes \cup {0}]
  /\ \E sha \in Partitions, near \in Partitions, sameName \in BOOLEAN :
       /\ clusters = ExactClusters(sha) \cup NearClusters(sha, near)
       /\ families = ComputedFamilies(clusters, docCode, sameName)
  /\ nodes = RebuildProposals(clusters, families)
  /\ review = "Proposed"
  /\ fold = [f \in Files |-> Undecided]
  /\ active = Owners
  /\ pinned = [f \in Files |-> 0] /\ imported = [f \in Files |-> 0]
  /\ requests = 0

-----------------------------------------------------------------------------
(* Decisions about files.                                                    *)

Request == requests < MaxRequests /\ requests' = requests + 1

Dispositions == [accept |-> "included", correct |-> "included",
                 exclude |-> "excluded", defer |-> "deferred"]
\* A correction changes something.  The payload of an exclusion or a deferral
\* matters no more than that of an acceptance after it, and is left out.
Payloads(action) ==
  LET blank == [kind |-> FALSE, code |-> 0, owner |-> 0]
      some == [kind : BOOLEAN, code : {0}, owner : Owners \cup {0}]
              \cup [kind : {FALSE}, code : Codes, owner : {0}]
  IN CASE action = "accept" -> some [] action = "correct" -> some \ {blank} [] OTHER -> {blank}

\* fold_file_decisions: the newest action, and the newest value of each dimension.
Folded(state, action, p) ==
  [disposition |-> Dispositions[action],
   kind |-> state.kind \/ p.kind,
   code |-> IF p.code # 0 THEN p.code ELSE state.code,
   owner |-> IF p.owner # 0 THEN p.owner ELSE state.owner]

EnterReview == review' = IF review = "Proposed" THEN "Reviewing" ELSE review

DecisionWritable(f, action) ==
  \/ review \in Reviewable
  \/ review = "PartiallyCommitted" /\ action = "correct" /\ imported[f] = 0

\* Mutant: a corrected owner leaves the pinned one in place.
KeepPin(f, p) == pinned

PinAfterCorrection(f, p) ==
  IF review = "PartiallyCommitted" /\ p.owner # 0 THEN [pinned EXCEPT ![f] = 0] ELSE pinned

RecordFileDecision(f, action, p) ==
  /\ DecisionWritable(f, action)
  /\ Request
  /\ fold' = [fold EXCEPT ![f] = Folded(@, action, p)]
  /\ pinned' = PinAfterCorrection(f, p)
  /\ EnterReview
  /\ UNCHANGED <<docCode, clusters, families, nodes, active, imported>>

\* Explicit files are overwritten; a selector skips the files already decided.
RecordBulkDecisions(S, selector, action, p) ==
  LET targets == IF selector THEN {f \in S : fold[f].disposition = "undecided"} ELSE S IN
    /\ review \in Reviewable
    /\ targets # {}
    /\ Request
    /\ fold' = [f \in Files |-> IF f \in targets THEN Folded(fold[f], action, p) ELSE fold[f]]
    /\ EnterReview
    /\ UNCHANGED <<docCode, clusters, families, nodes, active, pinned, imported>>

-----------------------------------------------------------------------------
(* Merge and split: edit the groups, then derive the nodes again.            *)

Regroup(cs, fs) ==
  /\ clusters' = cs /\ families' = fs
  /\ nodes' = RebuildProposals(cs, fs)
  /\ Request
  /\ EnterReview
  /\ UNCHANGED <<docCode, fold, active, pinned, imported>>

\* Merged files are versions, no longer duplicates; a cluster of one is no cluster.
ClustersWithout(members) ==
  {c \in clusters : c.members \cap members = {}}
  \cup {Group(c.members \ members) : c \in {d \in clusters :
           d.members \cap members # {} /\ Cardinality(d.members \ members) >= 2}}

\* chain: the request's reconstruct_revision_chain, {} when it does not say.
MergeFiles(S, effective, chain) ==
  LET touched == {g \in families : g.members \cap S # {}}
      members == S \cup UNION {g.members : g \in touched}
      keep == IF effective = 0 THEN Min(members) ELSE effective
      flag == IF chain = {} THEN \E g \in touched : g.chain ELSE TRUE \in chain
  IN /\ review \in Reviewable
     /\ Cardinality(S) >= 2 /\ effective \in members \cup {0}
     /\ Regroup(ClustersWithout(members),
                (families \ touched) \cup {[members |-> members, keep |-> keep, chain |-> flag]})

SplitDupeCluster(c, separate) ==
  LET rest == c.members \ separate IN
    /\ review \in Reviewable /\ c \in clusters
    /\ separate # {} /\ separate \subseteq c.members
    /\ Regroup((clusters \ {c}) \cup (IF Cardinality(rest) < 2 THEN {} ELSE {Group(rest)}), families)

KeptVersion(g, rest) == IF g.keep \in rest THEN g.keep ELSE Min(rest)

SplitVersionFamily(g, separate) ==
  LET rest == g.members \ separate IN
    /\ review \in Reviewable /\ g \in families
    /\ separate # {} /\ separate \subseteq g.members
    /\ Regroup(clusters, (families \ {g}) \cup
         (IF Cardinality(rest) < 2 THEN {}
          ELSE {[members |-> rest, keep |-> KeptVersion(g, rest), chain |-> g.chain]}))

-----------------------------------------------------------------------------
(* The start of the commit, its outcome, and its resume.                     *)

CommitReady(f) == f \in nodes /\ fold[f].disposition = "included" /\ fold[f].kind
EffectiveCode(f) == IF fold[f].code # 0 THEN fold[f].code ELSE docCode[f]
InImport == {f \in nodes : fold[f].disposition \in {"included", "undecided"}}

\* compute_review_checklist: nothing blocks.
ChecklistReady ==
  /\ \A f, g \in InImport : f # g /\ EffectiveCode(f) # 0 => EffectiveCode(f) # EffectiveCode(g)
  /\ \A f \in InImport : EffectiveCode(f) \notin TakenCodes
  /\ \A f \in InImport : fold[f].owner \in active \cup {0}
  /\ \A f \in InImport \cap Ambiguous : fold[f].disposition # "undecided"

NoDeferredChain == \A g \in families : ~g.chain

\* prepare_commit_inputs: every remaining chosen owner is resolved and pinned.
\* A resume recovers a user who was disabled meanwhile, a start does not.
Remaining == {f \in nodes : CommitReady(f) /\ imported[f] = 0}
Resolvable(f) == pinned[f] # 0 \/ fold[f].owner \in active \/ review = "PartiallyCommitted"
PrepareCommitInputs ==
  LET chosen == {f \in Remaining : fold[f].owner # 0} IN
    /\ \A f \in chosen : Resolvable(f)
    /\ pinned' = [f \in Files |-> IF f \in chosen /\ pinned[f] = 0 THEN fold[f].owner ELSE pinned[f]]

StartImportCommit ==
  /\ review \in Reviewable /\ NoDeferredChain /\ ChecklistReady
  /\ PrepareCommitInputs
  /\ review' = "Committing"
  /\ UNCHANGED <<docCode, clusters, families, nodes, fold, active, imported, requests>>

ResumeImportCommit ==
  /\ review = "PartiallyCommitted"
  /\ PrepareCommitInputs
  /\ review' = "Committing"
  /\ UNCHANGED <<docCode, clusters, families, nodes, fold, active, imported, requests>>

\* _resolve_owner_user_id; 99 stands for the committer, when no owner was chosen.
ResolvedOwner(f) ==
  IF fold[f].owner = 0 THEN 99 ELSE IF pinned[f] # 0 THEN pinned[f] ELSE fold[f].owner

\* The worker's walk as a whole (ImportCommit has its steps): some items commit.
CommitItems(S) ==
  /\ review = "Committing" /\ S \subseteq Remaining
  /\ imported' = [f \in Files |-> IF f \in S THEN ResolvedOwner(f) ELSE imported[f]]
  /\ review' = IF S = Remaining THEN "Completed" ELSE "PartiallyCommitted"
  /\ UNCHANGED <<docCode, clusters, families, nodes, fold, active, pinned, requests>>

DisableUser(u) ==
  /\ u \in active /\ active' = active \ {u}
  /\ Request
  /\ UNCHANGED <<review, docCode, clusters, families, nodes, fold, pinned, imported>>

ReviewNext ==
  \/ \E f \in Files, action \in DOMAIN Dispositions : \E p \in Payloads(action) :
       RecordFileDecision(f, action, p)
  \/ \E S \in SUBSET Files, selector \in BOOLEAN, action \in DOMAIN Dispositions :
     \E p \in Payloads(action) :
       RecordBulkDecisions(S, selector, action, p)
  \/ \E S \in SUBSET Files, effective \in Files \cup {0}, chain \in {{}, {TRUE}, {FALSE}} :
       MergeFiles(S, effective, chain)
  \/ \E c \in clusters : \E separate \in SUBSET c.members : SplitDupeCluster(c, separate)
  \/ \E g \in families : \E separate \in SUBSET g.members : SplitVersionFamily(g, separate)
  \/ StartImportCommit \/ ResumeImportCommit
  \/ \E S \in SUBSET Remaining : CommitItems(S)
  \/ \E u \in Owners : DisableUser(u)

ReviewSpec == ReviewInit /\ [][ReviewNext]_reviewVars
-----------------------------------------------------------------------------
\* Files that some chain of group memberships leads to a node.
ReplacedBy(f) == {g.keep : g \in {h \in clusters \cup families : f \in h.members /\ f # h.keep}}
Represented[n \in 0..NFiles] ==
  IF n = 0 THEN nodes
  ELSE Represented[n - 1] \cup {f \in Files : ReplacedBy(f) \cap Represented[n - 1] # {}}

\* Whatever is merged and split, and whatever version a reviewer keeps, no
\* file of the run vanishes: each is a proposal node or is replaced, through
\* its groups, by one that is.
EveryFileRepresented == Represented[NFiles] = Files

\* An item enters the vault with the owner the reviewer chose last, also when
\* the choice was corrected between two attempts or the user was disabled.
CommittedOwnerIsReviewed ==
  \A f \in Files : imported[f] \notin {0, 99} => imported[f] = fold[f].owner

\* No run is committed while a family still asks for a revision chain.
NoChainIsDropped ==
  review \in {"Committing", "PartiallyCommitted", "Completed"} => \A g \in families : ~g.chain

\* A split never overrides the version a reviewer chose to keep, if it is left.
KeptVersionIsSticky ==
  [][\A g \in families, h \in families' :
       h.members \subseteq g.members /\ g.keep \in h.members => h.keep = g.keep \/ h.members = g.members
    ]_reviewVars

\* The decisions about an item in the vault are never changed again.
ImportedIsFrozen ==
  [][\A f \in Files : imported[f] # 0 => fold'[f] = fold[f] /\ imported'[f] = imported[f]]_reviewVars

\* What is committed is what was reviewed: every file is represented, no chain that was asked
\* for is dropped, owners are the ones chosen last, and no later step takes back what a
\* reviewer chose or the vault has taken.
ReviewIsHonoured ==
  /\ [](ReviewTypeOK /\ EveryFileRepresented /\ CommittedOwnerIsReviewed /\ NoChainIsDropped)
  /\ KeptVersionIsSticky /\ ImportedIsFrozen
=============================================================================
