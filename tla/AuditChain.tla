----------------------------- MODULE AuditChain -----------------------------
(***************************************************************************)
(* The tamper-evident audit trail.  Transactions append audit_event rows:  *)
(* a row's id is drawn when it is inserted and the row becomes visible     *)
(* when its transaction commits, in any order.  The chain linker           *)
(* (services/audit/linker.py) hashes the rows of each organisation in id   *)
(* order, up to a watermark below which every id is decided               *)
(* (services/audit/watermark.py); a checkpoint anchors the head of a chain *)
(* (services/audit/checkpoint.py) and verify_chain                         *)
(* (services/audit/verify.py) walks the chained rows in id order.          *)
(*                                                                         *)
(* A hash is represented by the id of the row it is the hash of: a row's   *)
(* prev_hash is the id of the row it was chained to, 0 is GENESIS_HASH and *)
(* Unchained stands for a row whose chained_at is NULL.                    *)
(***************************************************************************)
EXTENDS Integers, FiniteSets, FiniteSetsExt

CONSTANTS Orgs,         \* the organisations, each with a chain of its own
          MaxXid,       \* bound: transactions that write audit rows
          MaxId,        \* bound: ids drawn from the identity sequence
          Batch,        \* _BATCH, rows linked per commit
          Window,       \* _ID_WINDOW, ids read per observation
          MaxCrashes    \* bound: deaths of the linker between two commits

ASSUME AuditAssumption ==
  /\ MaxXid \in Nat \ {0} /\ MaxId \in Nat \ {0}
  /\ Batch \in Nat \ {0} /\ Window \in Nat \ {0}
  /\ MaxCrashes \in Nat
  /\ Orgs # {} /\ IsFiniteSet(Orgs)

VARIABLES tx,        \* state of each transaction, by xid
          rows,      \* the rows inserted so far: id -> its transaction and organisation
          prev,      \* id -> the row it is chained to, or Unchained
          cursor,    \* the audit_chain_cursor row
          linker,    \* the linker process
          anchor,    \* the newest audit_checkpoint of each organisation
          crashes,   \* linker deaths so far
          covered    \* history: the precondition of watermark.py has held of every stall

auditVars == <<tx, rows, prev, cursor, linker, anchor, crashes, covered>>

Xids == 1..MaxXid
Ids == 1..MaxId
Unchained == -1
NoStall == 0            \* stall_xmax and stall_ceiling are NULL
NoRow == [xid |-> 0, org |-> CHOOSE o \in Orgs : TRUE]
Genesis == 0

WatermarkStates == [watermark : 0..MaxId, stallXmax : 0..MaxXid+1, stallCeiling : 0..MaxId]

Allocated == {i \in Ids : rows[i].xid # 0}
Visible == {i \in Allocated : tx[rows[i].xid] = "committed"}
Open == {x \in Xids : tx[x] = "open"}
Chained(o) == {i \in Visible : rows[i].org = o /\ prev[i] # Unchained}

\* Transactions, rows, chain, cursor and linker hold values of their types; what a checkpoint
\* signs is the place of a chained row.
AuditTypeOK ==
  /\ tx \in [Xids -> {"free", "open", "committed", "aborted"}]
  /\ rows \in [Ids -> [xid : 0..MaxXid, org : Orgs]]
  /\ prev \in [Ids -> 0..MaxId \cup {Unchained}]
  /\ cursor \in WatermarkStates
  /\ linker \in [pc : {"idle", "observe", "link", "save"}, prior : WatermarkStates,
                 todo : SUBSET Orgs, at : 0..MaxId, seeded : BOOLEAN, full : BOOLEAN]
  /\ anchor \in [Orgs -> [id : 0..MaxId, prev : 0..MaxId]]
  /\ crashes \in 0..MaxCrashes
  /\ covered \in BOOLEAN

Idle(state) == [pc |-> "idle", prior |-> state, todo |-> {}, at |-> Genesis,
                seeded |-> FALSE, full |-> FALSE]
GenesisCursor == [watermark |-> 0, stallXmax |-> NoStall, stallCeiling |-> 0]

AuditInit ==
  /\ tx = [x \in Xids |-> "free"]
  /\ rows = [i \in Ids |-> NoRow]
  /\ prev = [i \in Ids |-> Unchained]
  /\ cursor = GenesisCursor
  /\ linker = Idle(GenesisCursor)
  /\ anchor = [o \in Orgs |-> [id |-> 0, prev |-> Genesis]]
  /\ crashes = 0
  /\ covered = TRUE

-----------------------------------------------------------------------------
(* Transactions.  An xid is drawn by the first write of a transaction, which *)
(* need not be its audit row; ids are drawn in order, one per INSERT.        *)

BeginWrite(x) ==
  /\ tx[x] = "free" /\ \A y \in 1..x-1 : tx[y] # "free"
  /\ tx' = [tx EXCEPT ![x] = "open"]
  /\ UNCHANGED <<rows, prev, cursor, linker, anchor, crashes, covered>>

InsertAuditRow(x, o) ==
  \E i \in Ids \ Allocated :
    /\ tx[x] = "open"
    /\ \A j \in 1..i-1 : j \in Allocated
    /\ rows' = [rows EXCEPT ![i] = [xid |-> x, org |-> o]]
    /\ UNCHANGED <<tx, prev, cursor, linker, anchor, crashes, covered>>

EndTransaction(x) ==
  /\ tx[x] = "open"
  /\ \E end \in {"committed", "aborted"} : tx' = [tx EXCEPT ![x] = end]
  /\ UNCHANGED <<rows, prev, cursor, linker, anchor, crashes, covered>>

-----------------------------------------------------------------------------
(* What one statement's snapshot reports.  PostgreSQL's xmax is one past    *)
(* the highest xid that has COMPLETED, so an open transaction can lie at or *)
(* above it; xmin is the lowest open xid below xmax, or xmax itself.        *)

Completed == {x \in Xids : tx[x] \in {"committed", "aborted"}}
SnapshotXmax == 1 + Max({0} \cup Completed)
SnapshotXmin == Min({SnapshotXmax} \cup {x \in Open : x < SnapshotXmax})

IdsAbove(w) == {i \in Visible : i > w /\ Cardinality({j \in Visible : w < j /\ j < i}) < Window}

DenseEnd(w, ids) == Max({w} \cup {i \in ids : \A k \in w+1..i : k \in ids})

\* Mutant: no gap is ever taken for a rollback.
NeverProven(prior, xmin) == FALSE

\* Mutant: a gap seen twice is given up, although one of its possible writers may still run.
ProvenByWaiting(prior, xmin) == prior.stallXmax # NoStall

Proven(prior, xmin) == prior.stallXmax # NoStall /\ xmin >= prior.stallXmax

KeepStall(prior, end) == prior.stallXmax # NoStall /\ end + 1 <= prior.stallCeiling

AdvanceWatermark(prior, ids, xmin, xmax) ==
  LET w == prior.watermark
      end == DenseEnd(w, ids)
      seen == Max({w} \cup ids)
      clear(to) == [watermark |-> to, stallXmax |-> NoStall, stallCeiling |-> 0]
  IN IF end = seen THEN clear(end)
     ELSE IF Proven(prior, xmin) THEN clear(Max({end, prior.stallCeiling}))
     ELSE IF KeepStall(prior, end) THEN [prior EXCEPT !.watermark = end]
     ELSE [watermark |-> end, stallXmax |-> xmax, stallCeiling |-> seen]

(* The precondition the comments of the watermark state: whoever can still   *)
(* fill an id at or below the ceiling of a stall has an xid below its xmax.  *)
(* The history variable "covered" says that no observation has left a stall  *)
(* without it; PostgreSQL does not see to it (an open xid may lie at or      *)
(* above xmax), and no step of the code looks at it.                         *)
WritersLieBelow(s) ==
  s.stallXmax # NoStall =>
    \A i \in 1..s.stallCeiling : rows[i].xid \in Open => rows[i].xid < s.stallXmax

-----------------------------------------------------------------------------
(* The linker's tick: load the cursor under the advisory lock, observe,      *)
(* link each organisation in batches, observe again, save the cursor.        *)

LinkStart ==
  /\ linker.pc = "idle"
  /\ linker' = [Idle(cursor) EXCEPT !.pc = "observe"]
  /\ UNCHANGED <<tx, rows, prev, cursor, anchor, crashes, covered>>

Observe ==
  LET prior == linker.prior
      ids == IdsAbove(prior.watermark)
      state == AdvanceWatermark(prior, ids, SnapshotXmin, SnapshotXmax)
      advanced == state.watermark > prior.watermark
      more == advanced /\ state.stallXmax = NoStall /\ Cardinality(ids) = Window
  IN /\ linker.pc = "observe"
     /\ linker' = [linker EXCEPT !.prior = state,
                                 !.todo = IF advanced THEN Orgs ELSE {},
                                 !.pc = IF advanced THEN "link" ELSE "save",
                                 !.seeded = FALSE, !.full = more]
     /\ covered' = (covered /\ WritersLieBelow(state))
     /\ UNCHANGED <<tx, rows, prev, cursor, anchor, crashes>>

BatchOf(o) ==
  LET ready == {i \in Visible : rows[i].org = o /\ prev[i] = Unchained
                                /\ i <= linker.prior.watermark}
  IN {i \in ready : Cardinality({j \in ready : j < i}) < Batch}

SeedPrevHash(o) == Max({Genesis} \cup Chained(o))

(* One batch and its commit.  The seed is read once per organisation and     *)
(* tick; the batches after it continue from the hash kept in memory.         *)
LinkBatch(o) ==
  LET seed == IF linker.seeded THEN linker.at ELSE SeedPrevHash(o)
      batch == BatchOf(o)
      before(i) == Max({-1} \cup {j \in batch : j < i})
      again == Cardinality(batch) = Batch
  IN /\ linker.pc = "link" /\ o \in linker.todo
     /\ linker.seeded => rows[linker.at].org = o
     /\ prev' = [i \in Ids |-> IF i \notin batch THEN prev[i]
                               ELSE IF before(i) = -1 THEN seed ELSE before(i)]
     /\ linker' = [linker EXCEPT !.seeded = again,
                                 !.at = IF again THEN Max(batch) ELSE Genesis,
                                 !.todo = IF again THEN @ ELSE @ \ {o}]
     /\ UNCHANGED <<tx, rows, cursor, anchor, crashes, covered>>

\* Every organisation is linked up to the watermark: observe again or stop.
LinkDone ==
  /\ linker.pc = "link" /\ linker.todo = {}
  /\ linker' = [linker EXCEPT !.pc = IF linker.full THEN "observe" ELSE "save", !.full = FALSE]
  /\ UNCHANGED <<tx, rows, prev, cursor, anchor, crashes, covered>>

SaveCursor ==
  /\ linker.pc = "save"
  /\ cursor' = linker.prior
  /\ linker' = Idle(linker.prior)
  /\ UNCHANGED <<tx, rows, prev, anchor, crashes, covered>>

\* The worker dies: committed batches stay, the cursor keeps its old value and
\* the advisory lock goes with the connection.
LinkerCrash ==
  /\ linker.pc # "idle" /\ crashes < MaxCrashes
  /\ crashes' = crashes + 1
  /\ linker' = Idle(cursor)
  /\ UNCHANGED <<tx, rows, prev, cursor, anchor, covered>>

LatestChained(o) == Max({0} \cup Chained(o))

AnchorCheckpoint(o) ==
  LET latest == LatestChained(o)
  IN /\ latest # 0 /\ latest >= anchor[o].id
     /\ anchor' = [anchor EXCEPT ![o] = [id |-> latest, prev |-> prev[latest]]]
     /\ UNCHANGED <<tx, rows, prev, cursor, linker, crashes, covered>>

TransactionStep == \E x \in Xids : BeginWrite(x) \/ EndTransaction(x)
                                   \/ \E o \in Orgs : InsertAuditRow(x, o)
LinkerStep == LinkStart \/ Observe \/ (\E o \in Orgs : LinkBatch(o)) \/ LinkDone \/ SaveCursor
AuditNext == TransactionStep \/ LinkerStep \/ LinkerCrash \/ \E o \in Orgs : AnchorCheckpoint(o)

AuditSpec == AuditInit /\ [][AuditNext]_auditVars

(* Beat runs the linker again and again; every transaction ends, by commit,  *)
(* by rollback or with its connection.                                       *)
AuditFairSpec == AuditSpec /\ WF_auditVars(LinkerStep)
                           /\ WF_auditVars(\E x \in Xids : EndTransaction(x))
-----------------------------------------------------------------------------
(* verify_chain: the chained rows of an organisation in id order, each one   *)
(* chained to the one before; and the newest checkpoint against the chain.   *)

ChainVerifies(o) ==
  \A i \in Chained(o) : prev[i] = Max({Genesis} \cup {j \in Chained(o) : j < i})

CheckpointAttests(o) ==
  anchor[o].id # 0 => /\ anchor[o].id \in Chained(o)
                      /\ prev[anchor[o].id] = anchor[o].prev

\* Whatever order transactions commit in and wherever the linker dies, the
\* nightly walk never reports a break on an untampered trail.
UntamperedChainVerifies == \A o \in Orgs : ChainVerifies(o)

\* A checkpoint, once signed, agrees with the chain for ever after: the row it
\* names is chained and has the hash that was signed.
CheckpointStaysTrue == \A o \in Orgs : CheckpointAttests(o)

\* No id at or below the saved watermark is still to come: it is visible, or
\* its transaction rolled back.
WatermarkIsDecided ==
  \A i \in 1..cursor.watermark : i \in Allocated /\ rows[i].xid \in Completed

\* A row's place in the chain is never rewritten.
ChainedIsFinal == [][\A i \in Ids : prev[i] # Unchained => prev'[i] = prev[i]]_auditVars

\* What the linker promises whenever writers pause (as they do at the bounds): every committed
\* row is chained.
EveryRowIsChained == []<>(\A i \in Visible : prev[i] # Unchained)

\* What it keeps: neither a rolled-back id nor a linker that died half-way holds the chain up
\* for ever.  Only where the precondition of watermark.py failed can a committed row be left
\* behind: it then lies at or below the saved watermark, where the linker looks again only
\* after the watermark has moved.
ChainCatchesUp ==
  []<>(\A i \in Visible : prev[i] # Unchained \/ (~covered /\ i <= cursor.watermark))

\* While the precondition of watermark.py has held of every stall, the chain verifies, because
\* nothing at or below the watermark is still to come; and, held or not, what was attested
\* stays as it was attested, for rows and for checkpoints.
ChainIsSound ==
  [](/\ AuditTypeOK /\ CheckpointStaysTrue
     /\ covered => UntamperedChainVerifies /\ WatermarkIsDecided)
    /\ ChainedIsFinal
=============================================================================
