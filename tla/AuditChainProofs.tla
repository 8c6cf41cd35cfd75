-------------------------- MODULE AuditChainProofs --------------------------
(***************************************************************************)
(* Proofs about the audit chain, for any number of organisations,          *)
(* transactions, ids and linker deaths, any batch size and any window.     *)
(*                                                                         *)
(* The chain verifies because it is built in id order, and it is built in  *)
(* id order because nothing is chained above an id that can still appear.  *)
(* So the invariant follows the watermark, as long as the precondition of  *)
(* watermark.py has held: whatever the linker holds or has saved as a      *)
(* watermark is DECIDED, and a recorded stall bounds from above the        *)
(* transactions that can still fill the gap below its ceiling.  What was   *)
(* attested stays attested even when the precondition has failed.          *)
(***************************************************************************)
EXTENDS AuditChain, FiniteSetTheorems, WellFoundedInduction, TLAPS

\* Every id up to w was drawn by a transaction that has ended.
DecidedTo(w) == \A i \in 1..w : i \in Allocated /\ rows[i].xid \in Completed

\* The writers of the ids up to the ceiling of a stall all lie below its xmax.
StallIsCovered(s) ==
  s.stallXmax # NoStall =>
    \A i \in 1..s.stallCeiling : i \in Allocated /\ rows[i].xid < s.stallXmax

WatermarkIsEarned(s) == DecidedTo(s.watermark) /\ StallIsCovered(s)

RowsAreWritten == \A i \in Allocated : tx[rows[i].xid] # "free"

IdsAreDense == \A i \in Allocated : \A j \in 1..i : j \in Allocated

\* What is chained is visible, lies below nothing undecided, and leaves no visible row of its
\* organisation behind.
ChainIsPrefix ==
  \A i \in Ids : prev[i] # Unchained =>
    /\ i \in Visible
    /\ DecidedTo(i)
    /\ \A j \in 1..i : j \in Visible /\ rows[j].org = rows[i].org => prev[j] # Unchained

IsHead(o, h) == h \in Chained(o) /\ \A j \in Chained(o) : j <= h

\* The hash the linker carries from one batch to the next is the head of the chain it extends.
SeedIsHead ==
  linker.seeded => /\ linker.pc = "link"
                   /\ rows[linker.at].org \in linker.todo
                   /\ IsHead(rows[linker.at].org, linker.at)

\* The invariant of a trail whose linker's precondition has held.
AuditInv ==
  /\ AuditTypeOK
  /\ RowsAreWritten
  /\ IdsAreDense
  /\ WatermarkIsEarned(cursor)
  /\ WatermarkIsEarned(linker.prior)
  /\ ChainIsPrefix
  /\ SeedIsHead
  /\ UntamperedChainVerifies
  /\ CheckpointStaysTrue

-----------------------------------------------------------------------------
(* Greatest and least elements of bounded sets of integers.                  *)

LEMMA LeastNatural ==
  ASSUME NEW T, T \subseteq Nat, T # {}
  PROVE  \E x \in T : \A y \in T : x <= y
<1>1. PICK x \in T : \A y \in T : ~ (<<y, x>> \in OpToRel(<, Nat))
  BY WFMin, NatLessThanWellFounded, Zenon
<1>2. SUFFICES ASSUME NEW y \in T, y < x PROVE FALSE
  BY <1>2
<1>3. <<y, x>> \in Nat \X Nat
  OBVIOUS
<1>4. <<y, x>> \in OpToRel(<, Nat)
  BY <1>2, <1>3, Zenon DEF OpToRel
<1> QED
  BY <1>1, <1>4

LEMMA Maximum ==
  ASSUME NEW a \in Int, NEW b \in Int, NEW S, S \subseteq a..b, S # {}
  PROVE  Max(S) \in S /\ \A y \in S : y <= Max(S)
<1> DEFINE T == {k \in Nat : b - k \in S}
<1>1. T # {}
  <2>1. PICK s \in S : TRUE
    OBVIOUS
  <2>2. b - s \in Nat /\ b - (b - s) = s
    OBVIOUS
  <2>3. b - s \in T
    BY <2>2
  <2> QED
    BY <2>3
<1>2. PICK k \in T : \A j \in T : k <= j
  <2> HIDE DEF T
  <2> QED
    BY <1>1, LeastNatural, T \subseteq Nat DEF T
<1>3. b - k \in S
  OBVIOUS
<1>4. ASSUME NEW y \in S PROVE b - k >= y
  <2>1. b - y \in Nat /\ b - (b - y) = y
    OBVIOUS
  <2>2. b - y \in T
    BY <2>1
  <2> QED
    BY <1>2, <2>2
<1>5. \E x \in S : \A y \in S : x >= y
  BY <1>3, <1>4
<1>6. Max(S) \in S /\ \A y \in S : Max(S) >= y
  BY <1>5, Zenon DEF Max
<1> QED
  BY <1>6

LEMMA MaximumIs ==
  ASSUME NEW a \in Int, NEW b \in Int, NEW S, S \subseteq a..b,
         NEW m \in S, \A y \in S : y <= m
  PROVE  Max(S) = m
<1>1. S # {}
  OBVIOUS
<1>2. Max(S) \in S /\ \A y \in S : y <= Max(S)
  BY <1>1, Maximum, Zenon
<1>3. PICK x \in S : x = Max(S) /\ \A y \in S : y <= x
  BY <1>2, Zenon
<1>4. x <= m /\ m <= x /\ x \in Int /\ m \in Int
  BY <1>3
<1> QED
  BY <1>3, <1>4

LEMMA Minimum ==
  ASSUME NEW a \in Int, NEW b \in Int, NEW S, S \subseteq a..b, S # {}
  PROVE  Min(S) \in S /\ \A y \in S : Min(S) <= y
<1> DEFINE T == {k \in Nat : a + k \in S}
<1>1. T # {}
  <2>1. PICK s \in S : TRUE
    OBVIOUS
  <2>2. s - a \in Nat /\ a + (s - a) = s
    OBVIOUS
  <2>3. s - a \in T
    BY <2>2
  <2> QED
    BY <2>3
<1>2. PICK k \in T : \A j \in T : k <= j
  <2> HIDE DEF T
  <2> QED
    BY <1>1, LeastNatural, T \subseteq Nat DEF T
<1>3. a + k \in S
  OBVIOUS
<1>4. ASSUME NEW y \in S PROVE a + k =< y
  <2>1. y - a \in Nat /\ a + (y - a) = y
    OBVIOUS
  <2>2. y - a \in T
    BY <2>1
  <2> QED
    BY <1>2, <2>2
<1>5. \E x \in S : \A y \in S : x =< y
  BY <1>3, <1>4
<1>6. Min(S) \in S /\ \A y \in S : Min(S) =< y
  BY <1>5, Zenon DEF Min
<1> QED
  BY <1>6

-----------------------------------------------------------------------------
(* Observing the watermark.                                                  *)

LEMMA SnapshotCoversEnded ==
  ASSUME AuditTypeOK
  PROVE  /\ SnapshotXmax \in 1..MaxXid+1
         /\ \A x \in Completed : x < SnapshotXmax
<1> DEFINE S == {0} \cup Completed
<1>1. S \subseteq 0..MaxXid /\ S # {}
  BY AuditAssumption DEF Completed, Xids
<1>2. PICK m \in S : m = Max(S) /\ \A y \in S : y <= m
  <2> HIDE DEF S
  <2>1. 0 \in Int /\ MaxXid \in Int
    BY AuditAssumption
  <2> QED
    BY <1>1, <2>1, Maximum, Zenon
<1>3. SnapshotXmax = 1 + m
  BY <1>2 DEF SnapshotXmax
<1>4. Completed \subseteq S
  OBVIOUS
<1>5. m \in 0..MaxXid
  BY <1>1
<1>6. \A x \in Completed : x \in Int
  BY AuditAssumption DEF Completed, Xids
<1> HIDE DEF S
<1> QED
  BY <1>2, <1>3, <1>4, <1>5, <1>6, AuditAssumption

\* xmin is the least open xid among those below xmax, or xmax: no open xid lies below it.
LEMMA SnapshotBelowOpen ==
  ASSUME AuditTypeOK
  PROVE  /\ SnapshotXmin \in 1..MaxXid+1
         /\ \A x \in Open : SnapshotXmin <= x
<1> DEFINE S == {SnapshotXmax} \cup {x \in Open : x < SnapshotXmax}
<1>1. SnapshotXmax \in 1..MaxXid+1
  BY SnapshotCoversEnded
<1>2. Open \subseteq 1..MaxXid+1
  BY AuditAssumption DEF Open, Xids
<1>3. S \subseteq 1..MaxXid+1 /\ S # {} /\ \A x \in Open : x < SnapshotXmax => x \in S
  BY <1>1, <1>2
<1>4. PICK m \in S : m = Min(S) /\ \A y \in S : m <= y
  <2> HIDE DEF S
  <2>1. 1 \in Int /\ MaxXid + 1 \in Int
    BY AuditAssumption
  <2> QED
    BY <1>3, <2>1, Minimum, Zenon
<1>5. SnapshotXmin = m
  BY <1>4 DEF SnapshotXmin
<1>6. SnapshotXmax \in S
  OBVIOUS
<1> HIDE DEF S
<1>7. m \in 1..MaxXid+1
  BY <1>3
<1>8. m <= SnapshotXmax
  BY <1>4, <1>6
<1>9. ASSUME NEW x \in Open PROVE m <= x
  <2>1. x \in Int
    BY <1>2
  <2>2. CASE x < SnapshotXmax
    BY <1>3, <1>4, <2>2
  <2>3. CASE ~(x < SnapshotXmax)
    BY <1>1, <1>7, <1>8, <2>1, <2>3
  <2> QED
    BY <2>2, <2>3
<1> QED
  BY <1>5, <1>7, <1>9

LEMMA DenseEndIs ==
  ASSUME NEW w \in 0..MaxId, NEW ids, ids \subseteq Ids
  PROVE  /\ DenseEnd(w, ids) \in w..MaxId
         /\ \A k \in w+1..DenseEnd(w, ids) : k \in ids
<1> DEFINE S == {w} \cup {i \in ids : \A k \in w+1..i : k \in ids}
<1>1. S \subseteq 0..MaxId /\ S # {} /\ w \in S
  <2>1. S \subseteq {w} \cup ids /\ w \in S
    OBVIOUS
  <2>2. {w} \cup ids \subseteq 0..MaxId
    BY AuditAssumption DEF Ids
  <2> QED
    BY <2>1, <2>2, Zenon
<1>2. PICK m \in S : m = Max(S) /\ \A y \in S : y <= m
  <2> HIDE DEF S
  <2>1. 0 \in Int /\ MaxId \in Int
    BY AuditAssumption
  <2> QED
    BY <1>1, <2>1, Maximum, Zenon
<1>3. DenseEnd(w, ids) = m
  BY <1>2, Zenon DEF DenseEnd
<1>4. m \in 0..MaxId /\ w <= m
  BY <1>1, <1>2
<1>5. \A k \in w+1..m : k \in ids
  BY <1>1, <1>4
<1> QED
  BY <1>3, <1>4, <1>5, AuditAssumption

LEMMA SeenIs ==
  ASSUME NEW w \in 0..MaxId, NEW ids, ids \subseteq Ids
  PROVE  /\ Max({w} \cup ids) \in w..MaxId
         /\ Max({w} \cup ids) = w \/ Max({w} \cup ids) \in ids
<1> DEFINE S == {w} \cup ids
<1>1. S \subseteq 0..MaxId /\ S # {} /\ w \in S
  BY AuditAssumption DEF Ids
<1>2. PICK m \in S : m = Max(S) /\ \A y \in S : y <= m
  <2> HIDE DEF S
  <2>1. 0 \in Int /\ MaxId \in Int
    BY AuditAssumption
  <2> QED
    BY <1>1, <2>1, Maximum, Zenon
<1>3. m \in 0..MaxId /\ w <= m
  BY <1>1, <1>2
<1>4. m = w \/ m \in ids
  OBVIOUS
<1> HIDE DEF S
<1>5. m = Max({w} \cup ids)
  BY <1>2 DEF S
<1> QED
  BY <1>3, <1>4, <1>5, AuditAssumption

\* advance_watermark only ever moves to a decided id, and every possible writer of the gap of
\* the stall it leaves lies below its xmax when the writers still open do.
LEMMA EarnedByObserving ==
  ASSUME AuditTypeOK, RowsAreWritten, IdsAreDense,
         NEW prior \in WatermarkStates, WatermarkIsEarned(prior),
         NEW ids, ids \subseteq Visible,
         WritersLieBelow(AdvanceWatermark(prior, ids, SnapshotXmin, SnapshotXmax))
  PROVE  LET s == AdvanceWatermark(prior, ids, SnapshotXmin, SnapshotXmax)
         IN  s \in WatermarkStates /\ WatermarkIsEarned(s)
<1> DEFINE w == prior.watermark
           end == DenseEnd(w, ids)
           seen == Max({w} \cup ids)
           xmin == SnapshotXmin
           xmax == SnapshotXmax
<1>1. w \in 0..MaxId /\ prior.stallXmax \in 0..MaxXid+1 /\ prior.stallCeiling \in 0..MaxId
  BY DEF WatermarkStates
<1>2. ids \subseteq Ids
  BY DEF Visible, Allocated
<1>3. end \in w..MaxId /\ \A k \in w+1..end : k \in ids
  BY <1>1, <1>2, DenseEndIs
<1>4. seen \in w..MaxId /\ (seen = w \/ seen \in ids)
  BY <1>1, <1>2, SeenIs
<1>5. xmax \in 1..MaxXid+1 /\ \A x \in Completed : x < xmax
  BY SnapshotCoversEnded
<1>6. xmin \in 1..MaxXid+1 /\ \A x \in Open : xmin <= x
  BY SnapshotBelowOpen
<1>7. DecidedTo(w) /\ StallIsCovered(prior)
  BY DEF WatermarkIsEarned
<1>8. MaxId \in Nat /\ MaxXid \in Nat
  BY AuditAssumption
<1> HIDE DEF w, end, seen, xmin, xmax
<1>9. \A i \in Allocated : rows[i].xid \in Xids /\ tx[rows[i].xid] # "free"
  BY <1>8 DEF AuditTypeOK, Allocated, Xids, RowsAreWritten
<1>10. DecidedTo(end)
  <2>1. ASSUME NEW i \in 1..end PROVE i \in Allocated /\ rows[i].xid \in Completed
    <3>1. CASE i <= w
      <4>1. i \in 1..w
        BY <1>1, <1>3, <3>1
      <4> QED
        BY <1>7, <4>1 DEF DecidedTo
    <3>2. CASE i > w
      <4>1. i \in w+1..end
        BY <1>1, <1>3, <3>2
      <4>2. i \in Visible
        BY <1>3, <4>1
      <4> QED
        BY <1>9, <4>2 DEF Visible, Completed
    <3> QED
      BY <1>1, <1>3, <3>1, <3>2
  <2> QED
    BY <2>1 DEF DecidedTo
<1>11. \A i \in 1..seen : i \in Allocated
  BY <1>1, <1>4, <1>7 DEF DecidedTo, IdsAreDense, Visible
<1>12. CASE end = seen
  <2> DEFINE s == [watermark |-> end, stallXmax |-> NoStall, stallCeiling |-> 0]
  <2>1. s \in WatermarkStates
    BY <1>1, <1>3, <1>8 DEF WatermarkStates, NoStall
  <2>2. WatermarkIsEarned(s)
    BY <1>10 DEF WatermarkIsEarned, StallIsCovered, NoStall
  <2>3. AdvanceWatermark(prior, ids, SnapshotXmin, SnapshotXmax) = s
    BY <1>12 DEF AdvanceWatermark, w, end, seen
  <2> QED
    BY <2>1, <2>2, <2>3
<1>13. CASE end # seen /\ Proven(prior, xmin)
  <2> DEFINE to == Max({end, prior.stallCeiling})
             s == [watermark |-> to, stallXmax |-> NoStall, stallCeiling |-> 0]
  <2>1. to \in 0..MaxId /\ (to = end \/ to = prior.stallCeiling)
    <3> DEFINE U == {end, prior.stallCeiling}
    <3>1. PICK m \in U : m = Max(U)
      <4>1. U \subseteq 0..MaxId /\ U # {}
        BY <1>1, <1>3, <1>8
      <4>2. 0 \in Int /\ MaxId \in Int
        BY <1>8
      <4> HIDE DEF U
      <4> QED
        BY <4>1, <4>2, Maximum, Zenon
    <3>2. m \in 0..MaxId
      BY <1>1, <1>3, <1>8
    <3> QED
      BY <3>1, <3>2
  <2>2. DecidedTo(prior.stallCeiling)
    <3>1. SUFFICES ASSUME NEW i \in 1..prior.stallCeiling
                   PROVE  i \in Allocated /\ rows[i].xid \in Completed
      BY DEF DecidedTo
    <3>2. i \in Allocated /\ rows[i].xid < prior.stallXmax
      BY <1>7, <1>13 DEF StallIsCovered, Proven
    <3>3. rows[i].xid \in Xids /\ tx[rows[i].xid] # "free"
      BY <1>9, <3>2
    <3>4. rows[i].xid \notin Open
      BY <1>1, <1>6, <1>8, <1>13, <3>2, <3>3 DEF Proven, Xids
    <3> QED
      BY <3>2, <3>3, <3>4 DEF Open, Completed, AuditTypeOK
  <2>3. s \in WatermarkStates
    <3> HIDE DEF to
    <3> QED
      BY <2>1, <1>8 DEF WatermarkStates, NoStall
  <2>4. WatermarkIsEarned(s)
    <3>1. DecidedTo(to)
      BY <1>10, <2>1, <2>2
    <3> HIDE DEF to
    <3> QED
      BY <3>1 DEF WatermarkIsEarned, StallIsCovered, NoStall
  <2>5. AdvanceWatermark(prior, ids, SnapshotXmin, SnapshotXmax) = s
    BY <1>13 DEF AdvanceWatermark, w, end, seen, xmin
  <2> QED
    BY <2>3, <2>4, <2>5
<1>14. CASE end # seen /\ ~Proven(prior, xmin) /\ KeepStall(prior, end)
  <2> DEFINE s == [prior EXCEPT !.watermark = end]
  <2>1. s \in WatermarkStates
    BY <1>1, <1>3, <1>8 DEF WatermarkStates
  <2>2. WatermarkIsEarned(s)
    <3>1. /\ s.watermark = end /\ s.stallXmax = prior.stallXmax
          /\ s.stallCeiling = prior.stallCeiling
      BY DEF WatermarkStates
    <3> HIDE DEF s
    <3> QED
      BY <1>7, <1>10, <3>1 DEF WatermarkIsEarned, StallIsCovered
  <2>3. AdvanceWatermark(prior, ids, SnapshotXmin, SnapshotXmax) = s
    BY <1>14 DEF AdvanceWatermark, w, end, seen, xmin
  <2> QED
    BY <2>1, <2>2, <2>3
<1>15. CASE end # seen /\ ~Proven(prior, xmin) /\ ~KeepStall(prior, end)
  <2> DEFINE s == [watermark |-> end, stallXmax |-> xmax, stallCeiling |-> seen]
  <2>1. s \in WatermarkStates
    BY <1>1, <1>3, <1>4, <1>5, <1>8 DEF WatermarkStates
  <2>3. AdvanceWatermark(prior, ids, SnapshotXmin, SnapshotXmax) = s
    BY <1>15 DEF AdvanceWatermark, w, end, seen, xmin, xmax
  <2>2. WatermarkIsEarned(s)
    <3>1. s.watermark = end /\ s.stallXmax = xmax /\ s.stallCeiling = seen
      OBVIOUS
    <3> HIDE DEF s
    <3>2. \A i \in 1..seen : rows[i].xid \in Open \/ rows[i].xid \in Completed
      BY <1>9, <1>11 DEF AuditTypeOK, Open, Completed
    <3>3. \A i \in 1..seen : rows[i].xid \in Open => rows[i].xid < xmax
      BY <1>5, <2>3, <3>1 DEF WritersLieBelow, NoStall
    <3> QED
      BY <1>5, <1>10, <1>11, <3>1, <3>2, <3>3 DEF WatermarkIsEarned, StallIsCovered
  <2> QED
    BY <2>1, <2>2, <2>3
<1> QED
  BY <1>12, <1>13, <1>14, <1>15

-----------------------------------------------------------------------------
(* Transactions: rows are added and decided, nothing is taken back.          *)

LEMMA ChainedMeansPlaced ==
  ASSUME ChainIsPrefix, NEW o
  PROVE  Chained(o) = {i \in Ids : prev[i] # Unchained /\ rows[i].org = o}
BY DEF ChainIsPrefix, Chained, Visible, Allocated

\* What is decided stays decided: rows are immutable and completed transactions stay completed.
Grows ==
  /\ \A i \in Allocated : i \in Allocated' /\ rows'[i] = rows[i]
  /\ \A x \in Completed : x \in Completed' /\ tx'[x] = tx[x]

LEMMA EarnedStays ==
  ASSUME Grows, NEW s, WatermarkIsEarned(s)
  PROVE  /\ \A i \in 1..s.watermark : i \in Allocated' /\ rows'[i].xid \in Completed'
         /\ s.stallXmax # NoStall =>
              \A i \in 1..s.stallCeiling : i \in Allocated' /\ rows'[i].xid < s.stallXmax
BY DEF Grows, WatermarkIsEarned, DecidedTo, StallIsCovered

LEMMA ChainUntouched ==
  ASSUME AuditInv, Grows, prev' = prev, AuditTypeOK'
  PROVE  /\ ChainIsPrefix'
         /\ UntamperedChainVerifies'
         /\ \A o : Chained(o)' = Chained(o)
         /\ anchor' = anchor => CheckpointStaysTrue'
<1>1. \A i \in Ids : prev[i] # Unchained => i \in Visible /\ DecidedTo(i)
  BY DEF AuditInv, ChainIsPrefix
<1>2. \A i \in Visible : i \in Visible' /\ rows'[i] = rows[i]
  <2> SUFFICES ASSUME NEW i \in Visible
               PROVE  i \in Visible' /\ rows'[i] = rows[i]
    OBVIOUS
  <2>1. i \in Allocated /\ tx[rows[i].xid] = "committed" /\ rows[i].xid \in Completed
    <3>1. i \in Allocated /\ tx[rows[i].xid] = "committed" /\ i \in Ids
      BY DEF Visible, Allocated
    <3>2. rows[i].xid \in 0..MaxXid /\ rows[i].xid # 0
      BY <3>1 DEF AuditInv, AuditTypeOK, Allocated
    <3>3. rows[i].xid \in Xids
      BY <3>2, AuditAssumption DEF Xids
    <3> QED
      BY <3>1, <3>3 DEF Completed
  <2>2. i \in Allocated' /\ rows'[i] = rows[i] /\ tx'[rows[i].xid] = tx[rows[i].xid]
    BY <2>1 DEF Grows
  <2> QED
    BY <2>1, <2>2 DEF Visible
<1>3. ChainIsPrefix'
  <2> SUFFICES ASSUME NEW i \in Ids, prev[i] # Unchained
               PROVE  /\ i \in Visible'
                      /\ DecidedTo(i)'
                      /\ \A j \in 1..i : j \in Visible' /\ rows'[j].org = rows'[i].org
                                           => prev[j] # Unchained
    BY DEF ChainIsPrefix
  <2>1. i \in Visible /\ rows'[i] = rows[i] /\ i \in Visible'
    BY <1>1, <1>2
  <2>2. \A j \in 1..i : j \in Allocated /\ rows[j].xid \in Completed
    BY <1>1 DEF DecidedTo
  <2>3. \A j \in 1..i : /\ j \in Allocated' /\ rows'[j] = rows[j]
                        /\ rows[j].xid \in Completed'
                        /\ tx'[rows[j].xid] = tx[rows[j].xid]
    BY <2>2 DEF Grows
  <2>4. DecidedTo(i)'
    BY <2>3 DEF DecidedTo
  <2>5. \A j \in 1..i : j \in Visible' => j \in Visible
    BY <2>2, <2>3 DEF Visible
  <2> QED
    BY <2>1, <2>3, <2>4, <2>5 DEF AuditInv, ChainIsPrefix
<1>4. ASSUME NEW o PROVE Chained(o)' = Chained(o)
  <2>1. Chained(o) = {i \in Ids : prev[i] # Unchained /\ rows[i].org = o}
    BY ChainedMeansPlaced DEF AuditInv
  <2>2. Chained(o)' = {i \in Ids : prev'[i] # Unchained /\ rows'[i].org = o}
    <3>1. Chained(o)' = {i \in Visible' : rows'[i].org = o /\ prev'[i] # Unchained}
      BY DEF Chained
    <3>2. Visible' \subseteq Ids
      BY DEF Visible, Allocated
    <3> QED
      BY <1>3, <3>1, <3>2 DEF ChainIsPrefix
  <2> QED
    BY <1>1, <1>2, <2>1, <2>2
<1>5. UntamperedChainVerifies'
  <2> SUFFICES ASSUME NEW o \in Orgs PROVE ChainVerifies(o)'
    BY DEF UntamperedChainVerifies
  <2>1. ChainVerifies(o) /\ Chained(o)' = Chained(o)
    BY <1>4 DEF AuditInv, UntamperedChainVerifies
  <2> QED
    BY <2>1 DEF ChainVerifies
<1>6. ASSUME anchor' = anchor PROVE CheckpointStaysTrue'
  BY <1>4, <1>6 DEF AuditInv, CheckpointStaysTrue, CheckpointAttests
<1> QED
  BY <1>3, <1>4, <1>5, <1>6

LEMMA HistoryGrows ==
  ASSUME AuditInv, Grows, AuditTypeOK', RowsAreWritten', IdsAreDense',
         UNCHANGED <<prev, cursor, linker, anchor>>
  PROVE  AuditInv'
<1>1. WatermarkIsEarned(cursor)' /\ WatermarkIsEarned(linker.prior)'
  BY EarnedStays DEF AuditInv, WatermarkIsEarned, DecidedTo, StallIsCovered
<1>2. /\ ChainIsPrefix' /\ UntamperedChainVerifies' /\ CheckpointStaysTrue'
      /\ \A o : Chained(o)' = Chained(o)
  BY ChainUntouched
<1>3. SeedIsHead'
  <2> SUFFICES ASSUME linker.seeded PROVE SeedIsHead'
    BY DEF SeedIsHead
  <2> DEFINE o == rows[linker.at].org
  <2>1. linker.pc = "link" /\ o \in linker.todo /\ IsHead(o, linker.at)
    BY DEF AuditInv, SeedIsHead
  <2>2. rows'[linker.at] = rows[linker.at]
    BY <2>1 DEF IsHead, Chained, Visible, Grows
  <2>3. IsHead(o, linker.at)'
    BY <1>2, <2>1, <2>2 DEF IsHead
  <2> QED
    BY <2>1, <2>2, <2>3 DEF SeedIsHead
<1> QED
  BY <1>1, <1>2, <1>3 DEF AuditInv

-----------------------------------------------------------------------------
LEMMA AuditInitEstablishes == AuditInit => AuditInv
<1> SUFFICES ASSUME AuditInit PROVE AuditInv
  OBVIOUS
<1>1. Allocated = {} /\ Visible = {} /\ \A o : Chained(o) = {}
  BY DEF AuditInit, NoRow, Allocated, Visible, Chained
<1>2. (CHOOSE o \in Orgs : TRUE) \in Orgs
  BY AuditAssumption, Zenon
<1>3. AuditTypeOK
  <2>1. rows \in [Ids -> [xid : 0..MaxXid, org : Orgs]]
    BY <1>2, AuditAssumption DEF AuditInit, NoRow
  <2>2. cursor \in WatermarkStates
    BY AuditAssumption DEF AuditInit, GenesisCursor, WatermarkStates, NoStall
  <2> QED
    BY <2>1, <2>2, AuditAssumption
    DEF AuditInit, AuditTypeOK, Idle, Unchained, Genesis
<1>4. WatermarkIsEarned(cursor) /\ WatermarkIsEarned(linker.prior)
  BY DEF AuditInit, Idle, GenesisCursor, NoStall, WatermarkIsEarned, DecidedTo, StallIsCovered
<1>5. RowsAreWritten /\ IdsAreDense
  BY <1>1 DEF RowsAreWritten, IdsAreDense
<1>6. ChainIsPrefix
  BY DEF AuditInit, ChainIsPrefix
<1>7. SeedIsHead
  BY DEF AuditInit, Idle, SeedIsHead
<1>8. UntamperedChainVerifies /\ CheckpointStaysTrue
  BY <1>1 DEF AuditInit, UntamperedChainVerifies, ChainVerifies, CheckpointStaysTrue, CheckpointAttests
<1> QED
  BY <1>3, <1>4, <1>5, <1>6, <1>7, <1>8 DEF AuditInv

LEMMA BeginWriteKeeps ==
  ASSUME AuditInv, NEW x \in Xids, BeginWrite(x)
  PROVE  AuditInv'
<1>1. AuditTypeOK'
  BY DEF AuditInv, AuditTypeOK, BeginWrite
<1>2. Grows
  BY DEF AuditInv, AuditTypeOK, BeginWrite, Grows, Allocated, Completed
<1>3. RowsAreWritten' /\ IdsAreDense'
  <2>1. Allocated' = Allocated
    BY DEF BeginWrite, Allocated
  <2>2. \A y \in Xids : tx'[y] = "free" => tx[y] = "free"
    BY DEF AuditInv, AuditTypeOK, BeginWrite
  <2>3. \A i \in Allocated : rows[i].xid \in Xids
    BY AuditAssumption DEF AuditInv, AuditTypeOK, Allocated, Xids
  <2> QED
    BY <2>1, <2>2, <2>3 DEF BeginWrite, AuditInv, RowsAreWritten, IdsAreDense
<1> QED
  BY <1>1, <1>2, <1>3, HistoryGrows DEF BeginWrite

LEMMA EndTransactionKeeps ==
  ASSUME AuditInv, NEW x \in Xids, EndTransaction(x)
  PROVE  AuditInv'
<1>1. AuditTypeOK'
  BY DEF AuditInv, AuditTypeOK, EndTransaction
<1>2. Grows
  BY DEF AuditInv, AuditTypeOK, EndTransaction, Grows, Allocated, Completed
<1>3. RowsAreWritten' /\ IdsAreDense'
  <2>1. Allocated' = Allocated
    BY DEF EndTransaction, Allocated
  <2>2. \A y \in Xids : tx'[y] = "free" => tx[y] = "free"
    BY DEF AuditInv, AuditTypeOK, EndTransaction
  <2>3. \A i \in Allocated : rows[i].xid \in Xids
    BY AuditAssumption DEF AuditInv, AuditTypeOK, Allocated, Xids
  <2> QED
    BY <2>1, <2>2, <2>3 DEF EndTransaction, AuditInv, RowsAreWritten, IdsAreDense
<1> QED
  BY <1>1, <1>2, <1>3, HistoryGrows DEF EndTransaction

LEMMA InsertAuditRowKeeps ==
  ASSUME AuditInv, NEW x \in Xids, NEW o \in Orgs, InsertAuditRow(x, o)
  PROVE  AuditInv'
<1>1. PICK i \in Ids \ Allocated :
        /\ tx[x] = "open"
        /\ \A j \in 1..i-1 : j \in Allocated
        /\ rows' = [rows EXCEPT ![i] = [xid |-> x, org |-> o]]
        /\ UNCHANGED <<tx, prev, cursor, linker, anchor, crashes, covered>>
  BY Zenon DEF InsertAuditRow
<1>2. x \in 0..MaxXid /\ x # 0
  BY AuditAssumption DEF Xids
<1>3. AuditTypeOK'
  BY <1>1, <1>2 DEF AuditInv, AuditTypeOK
<1>4. rows'[i] = [xid |-> x, org |-> o] /\ \A j \in Ids \ {i} : rows'[j] = rows[j]
  BY <1>1 DEF AuditInv, AuditTypeOK
<1>5. Allocated' = Allocated \cup {i}
  BY <1>1, <1>2, <1>4 DEF Allocated
<1>6. Grows
  BY <1>1, <1>4, <1>5 DEF Grows, Completed, Allocated
<1>7. RowsAreWritten'
  BY <1>1, <1>4, <1>5, <1>6 DEF AuditInv, RowsAreWritten, Grows
<1>8. IdsAreDense'
  <2>1. \A j \in 1..i : j \in Allocated'
    BY <1>1, <1>5, AuditAssumption DEF Ids
  <2> QED
    BY <1>5, <2>1 DEF AuditInv, IdsAreDense
<1> QED
  BY <1>1, <1>3, <1>6, <1>7, <1>8, HistoryGrows

LEMMA SameRows ==
  ASSUME UNCHANGED <<tx, rows>>
  PROVE  /\ Allocated' = Allocated /\ Visible' = Visible /\ Completed' = Completed
         /\ Grows /\ (RowsAreWritten => RowsAreWritten') /\ (IdsAreDense => IdsAreDense')
         /\ \A w : DecidedTo(w) => \A i \in 1..w : i \in Allocated' /\ rows'[i].xid \in Completed'
BY DEF Allocated, Visible, Completed, Grows, RowsAreWritten, IdsAreDense, DecidedTo

-----------------------------------------------------------------------------
(* The linker's steps.                                                       *)

LEMMA ObserveType ==
  ASSUME AuditTypeOK, Observe
  PROVE  AuditTypeOK'
<1> DEFINE prior == linker.prior
           ids == IdsAbove(prior.watermark)
           end == DenseEnd(prior.watermark, ids)
           seen == Max({prior.watermark} \cup ids)
           state == AdvanceWatermark(prior, ids, SnapshotXmin, SnapshotXmax)
<1>1. prior \in WatermarkStates
  BY DEF AuditTypeOK
<1>2. /\ prior.watermark \in 0..MaxId /\ prior.stallXmax \in 0..MaxXid+1
      /\ prior.stallCeiling \in 0..MaxId
  BY <1>1 DEF WatermarkStates
<1>3. ids \subseteq Ids
  BY DEF IdsAbove, Visible, Allocated
<1>4. end \in 0..MaxId /\ seen \in 0..MaxId
  <2>1. end \in prior.watermark..MaxId /\ seen \in prior.watermark..MaxId
    BY <1>2, <1>3, DenseEndIs, SeenIs
  <2> HIDE DEF end, seen, prior
  <2> QED
    BY <1>2, <2>1, AuditAssumption
<1>5. Max({end, prior.stallCeiling}) \in 0..MaxId
  <2> DEFINE U == {end, prior.stallCeiling}
  <2>1. U \subseteq 0..MaxId /\ U # {}
    BY <1>2, <1>4
  <2> HIDE DEF U
  <2>2. 0 \in Int /\ MaxId \in Int
    BY AuditAssumption
  <2>3. Max(U) \in U
    BY <2>1, <2>2, Maximum, Zenon
  <2> QED
    BY <2>1, <2>3 DEF U
<1>6. SnapshotXmax \in 0..MaxXid+1
  BY SnapshotCoversEnded, AuditAssumption
<1>7. state \in WatermarkStates
  <2>1. \/ \E to \in 0..MaxId :
             state = [watermark |-> to, stallXmax |-> NoStall, stallCeiling |-> 0]
        \/ state = [prior EXCEPT !.watermark = end]
        \/ state = [watermark |-> end, stallXmax |-> SnapshotXmax, stallCeiling |-> seen]
    <3>1. \/ state = [watermark |-> end, stallXmax |-> NoStall, stallCeiling |-> 0]
          \/ state = [watermark |-> Max({end, prior.stallCeiling}),
                      stallXmax |-> NoStall, stallCeiling |-> 0]
          \/ state = [prior EXCEPT !.watermark = end]
          \/ state = [watermark |-> end, stallXmax |-> SnapshotXmax, stallCeiling |-> seen]
      BY DEF AdvanceWatermark
    <3> HIDE DEF state, end, seen, prior
    <3> QED
      BY <1>4, <1>5, <3>1
  <2>2. 0 \in 0..MaxXid+1 /\ 0 \in 0..MaxId
    BY AuditAssumption
  <2> HIDE DEF state, end, seen, prior
  <2> QED
    BY <1>1, <1>4, <1>6, <2>1, <2>2 DEF WatermarkStates, NoStall
<1> HIDE DEF prior, ids, end, seen, state
<1>8. \E todo \in SUBSET Orgs, pc \in {"link", "save"}, full \in BOOLEAN :
        linker' = [linker EXCEPT !.prior = state, !.todo = todo, !.pc = pc,
                                 !.seeded = FALSE, !.full = full]
  <2>1. Orgs \in SUBSET Orgs /\ {} \in SUBSET Orgs
    OBVIOUS
  <2> QED
    BY <2>1, Zenon DEF Observe, prior, ids, state
<1> QED
  BY <1>7, <1>8 DEF AuditTypeOK, Observe

LEMMA LinkBatchType ==
  ASSUME AuditTypeOK, NEW o \in Orgs, LinkBatch(o)
  PROVE  AuditTypeOK'
<1> DEFINE seed == IF linker.seeded THEN linker.at ELSE SeedPrevHash(o)
           batch == BatchOf(o)
           before(i) == Max({-1} \cup {j \in batch : j < i})
           again == Cardinality(batch) = Batch
<1>1. /\ prev' = [i \in Ids |-> IF i \notin batch THEN prev[i]
                                ELSE IF before(i) = -1 THEN seed ELSE before(i)]
      /\ linker' = [linker EXCEPT !.seeded = again,
                                  !.at = IF again THEN Max(batch) ELSE Genesis,
                                  !.todo = IF again THEN @ ELSE @ \ {o}]
      /\ UNCHANGED <<tx, rows, cursor, anchor, crashes, covered>>
  BY Zenon DEF LinkBatch
<1>2. MaxId \in Nat /\ MaxId \in Int /\ 0 \in Int /\ 1 \in Int /\ -1 \in Int
  BY AuditAssumption
<1>3. batch \subseteq 1..MaxId /\ Chained(o) \subseteq 1..MaxId
  BY DEF BatchOf, Chained, Visible, Allocated, Ids
<1>4. seed \in 0..MaxId
  <2> DEFINE S == {Genesis} \cup Chained(o)
  <2>1. S \subseteq 0..MaxId /\ S # {}
    BY <1>2, <1>3 DEF Genesis
  <2>2. Max(S) \in S
    <3> HIDE DEF S
    <3> QED
      BY <1>2, <2>1, Maximum, Zenon
  <2>3. SeedPrevHash(o) \in 0..MaxId
    BY <2>1, <2>2 DEF SeedPrevHash
  <2>4. linker.at \in 0..MaxId
    BY DEF AuditTypeOK
  <2> QED
    BY <2>3, <2>4
<1>5. ASSUME NEW i \in Ids PROVE before(i) = -1 \/ before(i) \in 0..MaxId
  <2> DEFINE S == {-1} \cup {j \in batch : j < i}
  <2>1. S \subseteq -1..MaxId /\ S # {}
    BY <1>2, <1>3
  <2>2. PICK m \in S : m = Max(S)
    <3> HIDE DEF S
    <3> QED
      BY <1>2, <2>1, Maximum, Zenon
  <2>3. m = -1 \/ m \in 0..MaxId
    BY <1>2, <2>1
  <2> QED
    BY <2>2, <2>3
<1>6. again => Max(batch) \in batch
  <2> SUFFICES ASSUME again PROVE Max(batch) \in batch
    OBVIOUS
  <2>1. batch # {}
    BY FS_EmptySet, AuditAssumption
  <2> HIDE DEF batch
  <2> QED
    BY <1>2, <1>3, <2>1, Maximum, Zenon
<1> HIDE DEF seed, batch, before, again
<1>7. prev' \in [Ids -> 0..MaxId \cup {Unchained}]
  BY <1>1, <1>4, <1>5 DEF AuditTypeOK
<1>8. linker' \in [pc : {"idle", "observe", "link", "save"}, prior : WatermarkStates,
                   todo : SUBSET Orgs, at : 0..MaxId, seeded : BOOLEAN, full : BOOLEAN]
  <2>1. (IF again THEN Max(batch) ELSE Genesis) \in 0..MaxId
    <3>1. again => Max(batch) \in 1..MaxId
      BY <1>3, <1>6, Zenon
    <3>2. 0 \in 0..MaxId /\ 1..MaxId \subseteq 0..MaxId
      BY <1>2
    <3> QED
      BY <3>1, <3>2, Zenon DEF Genesis
  <2>2. again \in BOOLEAN
    BY DEF again
  <2> QED
    BY <1>1, <2>1, <2>2 DEF AuditTypeOK
<1> QED
  BY <1>1, <1>7, <1>8 DEF AuditTypeOK

LEMMA LinkerMoves ==
  ASSUME AuditInv, UNCHANGED <<tx, rows, prev, anchor>>, AuditTypeOK', ~linker'.seeded,
         NEW c, NEW p, c = cursor', p = linker'.prior,
         WatermarkIsEarned(c), WatermarkIsEarned(p)
  PROVE  AuditInv'
<1>1. Grows /\ RowsAreWritten' /\ IdsAreDense'
  BY SameRows DEF AuditInv
<1>2. WatermarkIsEarned(cursor)' /\ WatermarkIsEarned(linker.prior)'
  BY <1>1, EarnedStays DEF WatermarkIsEarned, DecidedTo, StallIsCovered
<1>3. ChainIsPrefix' /\ UntamperedChainVerifies' /\ CheckpointStaysTrue'
  BY <1>1, ChainUntouched
<1>4. SeedIsHead'
  BY DEF SeedIsHead
<1> QED
  BY <1>1, <1>2, <1>3, <1>4 DEF AuditInv

LEMMA IdleType ==
  ASSUME NEW s \in WatermarkStates
  PROVE  /\ Idle(s) \in [pc : {"idle", "observe", "link", "save"}, prior : WatermarkStates,
                         todo : SUBSET Orgs, at : 0..MaxId, seeded : BOOLEAN, full : BOOLEAN]
         /\ Idle(s).prior = s /\ Idle(s).seeded = FALSE
BY AuditAssumption DEF Idle, Genesis

LEMMA LinkStartKeeps == ASSUME AuditInv, LinkStart PROVE AuditInv'
<1>1. cursor \in WatermarkStates /\ 0 \in 0..MaxId
  BY AuditAssumption DEF AuditInv, AuditTypeOK
<1>2. linker' = [pc |-> "observe", prior |-> cursor, todo |-> {}, at |-> 0,
                 seeded |-> FALSE, full |-> FALSE]
  BY DEF LinkStart, Idle, Genesis
<1>3. linker' \in [pc : {"idle", "observe", "link", "save"}, prior : WatermarkStates,
                    todo : SUBSET Orgs, at : 0..MaxId, seeded : BOOLEAN, full : BOOLEAN]
  BY <1>1, <1>2
<1>4. AuditTypeOK' /\ linker'.prior = cursor /\ ~linker'.seeded
  BY <1>2, <1>3 DEF AuditInv, AuditTypeOK, LinkStart
<1> QED
  BY <1>4, LinkerMoves DEF LinkStart, AuditInv

LEMMA LinkDoneKeeps == ASSUME AuditInv, LinkDone PROVE AuditInv'
<1>1. AuditTypeOK' /\ linker'.prior = linker.prior /\ linker'.seeded = linker.seeded
  BY DEF AuditInv, AuditTypeOK, LinkDone
<1>2. ~linker.seeded
  BY DEF AuditInv, SeedIsHead, LinkDone
<1> QED
  BY <1>1, <1>2, LinkerMoves DEF LinkDone, AuditInv

LEMMA SaveCursorKeeps == ASSUME AuditInv, SaveCursor PROVE AuditInv'
<1>1. linker.prior \in WatermarkStates
  BY DEF AuditInv, AuditTypeOK
<1>2. AuditTypeOK' /\ linker'.prior = linker.prior /\ ~linker'.seeded
  BY <1>1, IdleType DEF AuditInv, AuditTypeOK, SaveCursor
<1> QED
  BY <1>2, LinkerMoves DEF SaveCursor, AuditInv

LEMMA LinkerCrashKeeps == ASSUME AuditInv, LinkerCrash PROVE AuditInv'
<1>1. crashes' \in 0..MaxCrashes
  BY AuditAssumption DEF AuditInv, AuditTypeOK, LinkerCrash
<1>2. AuditTypeOK' /\ linker'.prior = cursor /\ ~linker'.seeded
  BY <1>1, IdleType DEF AuditInv, AuditTypeOK, LinkerCrash
<1> QED
  BY <1>2, LinkerMoves DEF LinkerCrash, AuditInv

LEMMA ObserveKeeps ==
  ASSUME AuditInv, Observe, covered'
  PROVE  AuditInv'
<1> DEFINE prior == linker.prior
           ids == IdsAbove(prior.watermark)
           state == AdvanceWatermark(prior, ids, SnapshotXmin, SnapshotXmax)
<1>1. prior \in WatermarkStates /\ WatermarkIsEarned(prior)
  BY DEF AuditInv, AuditTypeOK
<1>2. ids \subseteq Visible
  BY DEF IdsAbove
<1>3. state \in WatermarkStates /\ WatermarkIsEarned(state)
  <2>1. WritersLieBelow(state)
    BY DEF Observe
  <2> QED
    BY <1>1, <1>2, <2>1, EarnedByObserving DEF AuditInv
<1> HIDE DEF prior, ids, state
<1>4. \E todo \in SUBSET Orgs, pc \in {"link", "save"}, full \in BOOLEAN :
        linker' = [linker EXCEPT !.prior = state, !.todo = todo, !.pc = pc,
                                 !.seeded = FALSE, !.full = full]
  <2>1. Orgs \in SUBSET Orgs /\ {} \in SUBSET Orgs
    OBVIOUS
  <2> QED
    BY <2>1, Zenon DEF Observe, prior, ids, state
<1>5. AuditTypeOK' /\ linker'.prior = state /\ ~linker'.seeded
  BY <1>4, ObserveType DEF AuditInv, AuditTypeOK
<1>6. UNCHANGED <<tx, rows, prev, cursor, anchor>>
  BY DEF Observe
<1> QED
  BY <1>3, <1>5, <1>6, LinkerMoves DEF AuditInv

LEMMA LatestIsChained ==
  ASSUME NEW o, LatestChained(o) # 0
  PROVE  LatestChained(o) \in Chained(o)
<1> DEFINE S == {0} \cup Chained(o)
<1>1. Chained(o) \subseteq Ids
  BY DEF Chained, Visible, Allocated
<1>2. S \subseteq 0..MaxId /\ S # {}
  BY <1>1, AuditAssumption DEF Ids
<1>3. Max(S) \in S
  <2> HIDE DEF S
  <2>1. 0 \in Int /\ MaxId \in Int
    BY AuditAssumption
  <2> QED
    BY <1>2, <2>1, Maximum, Zenon
<1> QED
  BY <1>3, Zenon DEF LatestChained

LEMMA AnchorCheckpointKeeps ==
  ASSUME AuditInv, NEW o \in Orgs, AnchorCheckpoint(o)
  PROVE  AuditInv'
<1> DEFINE latest == LatestChained(o)
<1>1. latest # 0 /\ UNCHANGED <<tx, rows, prev, cursor, linker, crashes, covered>>
  BY DEF AnchorCheckpoint
<1>2. latest \in Chained(o) /\ latest \in Ids
  BY <1>1, LatestIsChained DEF Chained, Visible, Allocated
<1> DEFINE entry == [id |-> latest, prev |-> prev[latest]]
<1>3. prev[latest] \in 0..MaxId
  BY <1>2 DEF AuditInv, AuditTypeOK, Chained, Unchained
<1>4. entry \in [id : 0..MaxId, prev : 0..MaxId] /\ entry.id = latest /\ entry.prev = prev[latest]
  BY <1>2, <1>3, AuditAssumption DEF Ids
<1>5. anchor' = [anchor EXCEPT ![o] = entry]
  BY DEF AnchorCheckpoint
<1> HIDE DEF latest, entry
<1>6. AuditTypeOK'
  BY <1>1, <1>4, <1>5 DEF AuditInv, AuditTypeOK
<1>7. Grows /\ RowsAreWritten' /\ IdsAreDense'
  BY <1>1, SameRows DEF AuditInv
<1>8. WatermarkIsEarned(cursor)' /\ WatermarkIsEarned(linker.prior)'
  BY <1>1, <1>7, EarnedStays DEF AuditInv, WatermarkIsEarned, DecidedTo, StallIsCovered
<1>9. ChainIsPrefix' /\ UntamperedChainVerifies' /\ \A p : Chained(p)' = Chained(p)
  BY <1>1, <1>6, <1>7, ChainUntouched
<1>10. SeedIsHead'
  BY <1>1, <1>9 DEF AuditInv, SeedIsHead, IsHead
<1>11. CheckpointStaysTrue'
  <2> SUFFICES ASSUME NEW p \in Orgs PROVE CheckpointAttests(p)'
    BY DEF CheckpointStaysTrue
  <2>1. CASE p = o
    <3>1. anchor'[p] = entry
      BY <1>5, <2>1 DEF AuditInv, AuditTypeOK
    <3> QED
      BY <1>1, <1>2, <1>4, <1>9, <2>1, <3>1 DEF CheckpointAttests
  <2>2. CASE p # o
    <3>1. anchor'[p] = anchor[p]
      BY <1>5, <2>2 DEF AuditInv, AuditTypeOK
    <3> QED
      BY <1>1, <1>9, <3>1 DEF AuditInv, CheckpointStaysTrue, CheckpointAttests
  <2> QED
    BY <2>1, <2>2
<1> QED
  BY <1>6, <1>7, <1>8, <1>9, <1>10, <1>11 DEF AuditInv

-----------------------------------------------------------------------------
(* One batch: the lowest unchained rows of the organisation, all above its chain. *)

LEMMA BatchIsLowest ==
  ASSUME AuditInv, NEW o \in Orgs
  PROVE  /\ \A i \in BatchOf(o) : /\ i \in Visible /\ i \in Ids /\ rows[i].org = o
                                  /\ prev[i] = Unchained /\ i <= linker.prior.watermark
         /\ \A i \in BatchOf(o) : \A j \in Visible :
              rows[j].org = o /\ prev[j] = Unchained /\ j < i => j \in BatchOf(o)
         /\ \A i \in BatchOf(o) : \A c \in Chained(o) : c < i
<1> DEFINE ready == {i \in Visible : rows[i].org = o /\ prev[i] = Unchained
                                     /\ i <= linker.prior.watermark}
           below(i) == {j \in ready : j < i}
<1>1. BatchOf(o) = {i \in ready : Cardinality(below(i)) < Batch}
  BY DEF BatchOf
<1>2. Visible \subseteq Ids /\ \A i \in Ids : i \in Int
  BY AuditAssumption DEF Visible, Allocated, Ids
<1>3. linker.prior.watermark \in Int
  BY AuditAssumption DEF AuditInv, AuditTypeOK, WatermarkStates
<1>4. ASSUME NEW i \in BatchOf(o), NEW j \in Visible,
             rows[j].org = o, prev[j] = Unchained, j < i
      PROVE  j \in BatchOf(o)
  <2>1. i \in ready /\ Cardinality(below(i)) < Batch
    BY <1>1
  <2>2. j \in ready
    BY <1>2, <1>3, <1>4, <2>1
  <2>3. below(j) \subseteq below(i)
    BY <1>2, <1>4, <2>1
  <2>4. IsFiniteSet(below(i))
    <3>1. below(i) \subseteq 1..MaxId
      BY <1>2 DEF Ids
    <3>2. IsFiniteSet(1..MaxId)
      BY FS_Interval, AuditAssumption
    <3> HIDE DEF below
    <3> QED
      BY <3>1, <3>2, FS_Subset
  <2> HIDE DEF below
  <2>5. Cardinality(below(j)) <= Cardinality(below(i)) /\ IsFiniteSet(below(j))
    BY <2>3, <2>4, FS_Subset
  <2>6. Cardinality(below(j)) \in Int /\ Cardinality(below(i)) \in Int
    BY <2>4, <2>5, FS_CardinalityType
  <2>7. Cardinality(below(j)) < Batch
    BY <2>1, <2>5, <2>6, AuditAssumption
  <2> QED
    BY <1>1, <2>2, <2>7
<1>5. ASSUME NEW i \in BatchOf(o), NEW c \in Chained(o)
      PROVE  c < i
  <2>1. i \in Ids /\ i \in Visible /\ rows[i].org = o /\ prev[i] = Unchained
    BY <1>1, <1>2
  <2>2. c \in Ids /\ rows[c].org = o /\ prev[c] # Unchained
    BY <1>2 DEF Chained
  <2>3. ~(i \in 1..c)
    BY <2>1, <2>2 DEF AuditInv, ChainIsPrefix
  <2> QED
    BY <2>1, <2>2, <2>3, AuditAssumption DEF Ids
<1> QED
  BY <1>1, <1>2, <1>4, <1>5

LEMMA LinkBatchKeeps ==
  ASSUME AuditInv, NEW o \in Orgs, LinkBatch(o)
  PROVE  AuditInv' /\ \A i \in Ids : prev[i] # Unchained => prev'[i] = prev[i]
<1> DEFINE seed == IF linker.seeded THEN linker.at ELSE SeedPrevHash(o)
           batch == BatchOf(o)
           before(i) == Max({-1} \cup {j \in batch : j < i})
           again == Cardinality(batch) = Batch
<1>1. /\ linker.pc = "link" /\ o \in linker.todo
      /\ linker.seeded => rows[linker.at].org = o
      /\ prev' = [i \in Ids |-> IF i \notin batch THEN prev[i]
                                ELSE IF before(i) = -1 THEN seed ELSE before(i)]
      /\ linker' = [linker EXCEPT !.seeded = again,
                                  !.at = IF again THEN Max(batch) ELSE Genesis,
                                  !.todo = IF again THEN @ ELSE @ \ {o}]
      /\ UNCHANGED <<tx, rows, cursor, anchor, crashes, covered>>
  BY Zenon DEF LinkBatch
<1>2. /\ \A i \in batch : /\ i \in Visible /\ i \in Ids /\ rows[i].org = o
                          /\ prev[i] = Unchained /\ i <= linker.prior.watermark
      /\ \A i \in batch : \A j \in Visible :
           rows[j].org = o /\ prev[j] = Unchained /\ j < i => j \in batch
      /\ \A i \in batch : \A c \in Chained(o) : c < i
  BY BatchIsLowest
<1>3. /\ MaxId \in Nat /\ MaxId \in Int /\ 0 \in Int /\ 1 \in Int
      /\ Ids = 1..MaxId /\ \A i \in Ids : i \in Int /\ 0 < i
  BY AuditAssumption DEF Ids
<1>4. \A p : Chained(p) = {i \in Ids : prev[i] # Unchained /\ rows[i].org = p}
  BY ChainedMeansPlaced DEF AuditInv
<1>5. /\ seed = 0 \/ seed \in Chained(o)
      /\ \A c \in Chained(o) : c <= seed
      /\ seed \in 0..MaxId
  <2>1. CASE linker.seeded
    BY <1>1, <1>3, <1>4, <2>1 DEF AuditInv, SeedIsHead, IsHead
  <2>2. CASE ~linker.seeded
    <3> DEFINE S == {0} \cup Chained(o)
    <3>1. S \subseteq 0..MaxId /\ S # {}
      BY <1>3, <1>4
    <3>2. PICK m \in S : m = Max(S) /\ \A y \in S : y <= m
      <4> HIDE DEF S
      <4> QED
        BY <1>3, <3>1, Maximum, Zenon
    <3>3. seed = m
      BY <2>2, <3>2 DEF SeedPrevHash, Genesis
    <3> HIDE DEF seed
    <3> QED
      BY <3>1, <3>2, <3>3
  <2> QED
    BY <2>1, <2>2
<1>6. ASSUME NEW i \in batch
      PROVE  \/ before(i) = -1 /\ \A j \in batch : ~(j < i)
             \/ before(i) \in batch /\ before(i) < i /\ \A j \in batch : j < i => j <= before(i)
  <2> DEFINE S == {-1} \cup {j \in batch : j < i}
  <2>1. S \subseteq -1..MaxId /\ S # {}
    BY <1>2, <1>3
  <2>2. PICK m \in S : m = Max(S) /\ \A y \in S : y <= m
    <3>1. -1 \in Int
      OBVIOUS
    <3> HIDE DEF S
    <3> QED
      BY <1>3, <2>1, <3>1, Maximum, Zenon
  <2>3. before(i) = m
    BY <2>2
  <2> HIDE DEF batch, before
  <2>4. \A j \in batch : j < i => j \in S /\ j \in Int /\ 0 < j
    BY <1>2, <1>3
  <2>5. CASE m = -1
    <3>1. \A j \in batch : ~(j < i)
      <4> HIDE DEF S
      <4> QED
        BY <2>2, <2>4, <2>5
    <3> QED
      BY <2>3, <2>5, <3>1
  <2>6. CASE m \in batch /\ m < i
    <3>1. \A j \in batch : j < i => j <= m
      <4> HIDE DEF S
      <4> QED
        BY <2>2, <2>4
    <3> QED
      BY <2>3, <2>6, <3>1
  <2> QED
    BY <2>2, <2>5, <2>6
<1> HIDE DEF seed, batch, before, again
<1>7. \A i \in Ids \ batch : prev'[i] = prev[i]
  BY <1>1
<1>8. ASSUME NEW i \in batch
      PROVE  prev'[i] = (IF before(i) = -1 THEN seed ELSE before(i)) /\ prev'[i] \in 0..MaxId
  <2>1. prev'[i] = IF before(i) = -1 THEN seed ELSE before(i)
    BY <1>1, <1>2
  <2>2. before(i) # -1 => before(i) \in Ids
    BY <1>2, <1>6
  <2> QED
    BY <1>3, <1>5, <2>1, <2>2
<1>9. \A i \in Ids : prev'[i] # Unchained <=> prev[i] # Unchained \/ i \in batch
  BY <1>2, <1>3, <1>7, <1>8 DEF Unchained
<1>10. \A i \in Ids : prev[i] # Unchained => prev'[i] = prev[i]
  BY <1>2, <1>7
<1>11. Grows /\ RowsAreWritten' /\ IdsAreDense' /\ Visible' = Visible /\ Allocated' = Allocated
       /\ Completed' = Completed
  BY <1>1, SameRows DEF AuditInv
<1>12. again => Max(batch) \in batch /\ \A j \in batch : j <= Max(batch)
  <2> SUFFICES ASSUME again PROVE Max(batch) \in batch /\ \A j \in batch : j <= Max(batch)
    OBVIOUS
  <2>1. batch # {}
    BY FS_EmptySet, AuditAssumption DEF again
  <2>2. batch \subseteq 1..MaxId
    BY <1>2, <1>3
  <2> QED
    BY <1>3, <2>1, <2>2, Maximum, Zenon
<1>13. AuditTypeOK'
  BY LinkBatchType DEF AuditInv
<1>14. linker'.prior = linker.prior
  BY <1>1 DEF AuditInv, AuditTypeOK
<1>15. WatermarkIsEarned(cursor)' /\ WatermarkIsEarned(linker.prior)'
  BY <1>1, <1>11, <1>14, EarnedStays DEF AuditInv, WatermarkIsEarned, DecidedTo, StallIsCovered
<1>16. ChainIsPrefix'
  <2> SUFFICES ASSUME NEW i \in Ids, prev'[i] # Unchained
               PROVE  /\ i \in Visible /\ DecidedTo(i)
                      /\ \A j \in 1..i : j \in Visible /\ rows[j].org = rows[i].org
                                          => prev'[j] # Unchained
    BY <1>1, <1>11 DEF ChainIsPrefix, DecidedTo
  <2>1. \A j \in 1..i : j \in Ids
    BY <1>3
  <2>2. CASE prev[i] # Unchained
    BY <1>9, <2>1, <2>2 DEF AuditInv, ChainIsPrefix
  <2>3. CASE i \in batch
    <3>1. linker.prior.watermark \in Int
      BY AuditAssumption DEF AuditInv, AuditTypeOK, WatermarkStates
    <3>2. \A j \in 1..i : j \in 1..linker.prior.watermark
      BY <1>2, <1>3, <2>3, <3>1
    <3>3. DecidedTo(i)
      BY <3>2 DEF AuditInv, WatermarkIsEarned, DecidedTo
    <3>4. ASSUME NEW j \in 1..i, j \in Visible, rows[j].org = rows[i].org
          PROVE  prev'[j] # Unchained
      <4>1. j = i \/ j < i
        BY <1>3
      <4> QED
        BY <1>2, <1>9, <2>1, <2>3, <3>4, <4>1
    <3> QED
      BY <1>2, <2>3, <3>3, <3>4
  <2> QED
    BY <1>9, <2>2, <2>3
<1>17. \A p : Chained(p)' = {i \in Ids : prev'[i] # Unchained /\ rows[i].org = p}
  BY <1>1, <1>11, <1>16 DEF ChainIsPrefix, Chained, Visible, Allocated
<1>18. Chained(o)' = Chained(o) \cup batch
  BY <1>2, <1>4, <1>9, <1>17
<1>19. \A p : p # o => Chained(p)' = Chained(p)
  BY <1>2, <1>4, <1>9, <1>17
<1>20. SeedIsHead'
  <2> SUFFICES ASSUME linker'.seeded PROVE SeedIsHead'
    BY DEF SeedIsHead
  <2>1. again
    BY <1>1 DEF AuditInv, AuditTypeOK
  <2>2. linker'.at = Max(batch) /\ linker'.todo = linker.todo /\ linker'.pc = linker.pc
    BY <1>1, <2>1 DEF AuditInv, AuditTypeOK
  <2> DEFINE h == Max(batch)
  <2>3. h \in batch /\ \A j \in batch : j <= h
    BY <1>12, <2>1
  <2> HIDE DEF h
  <2>4. h \in Chained(o)' /\ rows'[h].org = o
    BY <1>1, <1>2, <1>18, <2>3
  <2>5. \A j \in Chained(o)' : j <= h
    <3> SUFFICES ASSUME NEW j \in Chained(o)' PROVE j <= h
      OBVIOUS
    <3>1. j \in batch \/ j < h
      BY <1>2, <1>18, <2>3
    <3> QED
      BY <1>2, <1>3, <1>4, <1>18, <2>3, <3>1
  <2>6. linker'.at = h
    BY <2>2 DEF h
  <2> QED
    BY <1>1, <2>2, <2>4, <2>5, <2>6 DEF SeedIsHead, IsHead
<1>21. UntamperedChainVerifies'
  <2> SUFFICES ASSUME NEW p \in Orgs, NEW i \in Chained(p)'
               PROVE  prev'[i] = Max({0} \cup {j \in Chained(p)' : j < i})
    BY DEF UntamperedChainVerifies, ChainVerifies, Genesis
  <2>1. i \in Ids
    BY <1>17
  <2>2. CASE i \notin batch
    <3>1. i \in Chained(p)
      BY <1>18, <1>19, <2>2
    <3>2. prev'[i] = Max({0} \cup {j \in Chained(p) : j < i})
      BY <1>7, <2>1, <2>2, <3>1 DEF AuditInv, UntamperedChainVerifies, ChainVerifies, Genesis
    <3>3. {j \in Chained(p) : j < i} = {j \in Chained(p)' : j < i}
      <4>1. CASE p # o
        BY <1>19, <4>1
      <4>2. CASE p = o
        <5>1. \A j \in batch : i < j /\ j \in Int /\ i \in Int
          BY <1>2, <1>3, <2>1, <3>1, <4>2
        <5> QED
          BY <1>18, <4>2, <5>1
      <4> QED
        BY <4>1, <4>2
    <3> QED
      BY <3>2, <3>3
  <2>3. CASE i \in batch
    <3>1. p = o
      BY <1>2, <1>17, <2>3
    <3> DEFINE S == {0} \cup {j \in Chained(p)' : j < i}
    <3>2. S \subseteq 0..MaxId
      BY <1>3, <1>17
    <3>3. \A c \in Chained(o) : c \in S /\ c \in Int
      BY <1>2, <1>3, <1>4, <1>18, <2>3, <3>1
    <3>4. \A y \in S : y = 0 \/ y \in Chained(o) \/ (y \in batch /\ y < i)
      BY <1>18, <3>1
    <3>5. prev'[i] \in S /\ \A y \in S : y <= prev'[i]
      <4>1. CASE before(i) = -1 /\ \A j \in batch : ~(j < i)
        <5>1. prev'[i] = seed
          BY <1>8, <2>3, <4>1
        <5>2. \A y \in S : y = 0 \/ y \in Chained(o)
          BY <3>4, <4>1
        <5> HIDE DEF S
        <5>3. seed \in S
          BY <1>5, <3>3 DEF S
        <5> QED
          BY <1>5, <5>1, <5>2, <5>3
      <4>2. CASE /\ before(i) \in batch /\ before(i) < i
                 /\ \A j \in batch : j < i => j <= before(i)
        <5>1. before(i) # -1 /\ before(i) \in Int /\ 0 < before(i)
          BY <1>2, <1>3, <4>2
        <5>2. prev'[i] = before(i)
          BY <1>8, <2>3, <5>1
        <5>3. before(i) \in S
          BY <1>18, <3>1, <4>2
        <5>4. ASSUME NEW y \in S PROVE y <= before(i)
          <6>1. CASE y = 0
            BY <5>1, <6>1
          <6>2. CASE y \in Chained(o)
            BY <1>2, <3>3, <4>2, <5>1, <6>2
          <6>3. CASE y \in batch /\ y < i
            BY <4>2, <6>3
          <6> QED
            BY <3>4, <6>1, <6>2, <6>3
        <5> QED
          BY <5>2, <5>3, <5>4
      <4> QED
        BY <1>6, <2>3, <4>1, <4>2
    <3>6. Max(S) = prev'[i]
      <4> HIDE DEF S
      <4> QED
        BY <1>3, <3>2, <3>5, MaximumIs, Zenon
    <3> QED
      BY <3>6
  <2> QED
    BY <2>2, <2>3
<1>22. CheckpointStaysTrue'
  <2>1. \A p \in Orgs : Chained(p) \subseteq Chained(p)' /\ Chained(p) \subseteq Ids
    BY <1>4, <1>18, <1>19
  <2>2. \A p \in Orgs : \A i \in Chained(p) : prev'[i] = prev[i]
    BY <1>4, <1>10
  <2> QED
    BY <1>1, <2>1, <2>2 DEF AuditInv, CheckpointStaysTrue, CheckpointAttests
<1> QED
  BY <1>10, <1>11, <1>13, <1>15, <1>16, <1>20, <1>21, <1>22 DEF AuditInv

LEMMA AuditStepKeeps ==
  ASSUME AuditInv, [AuditNext]_auditVars, covered'
  PROVE  AuditInv' /\ \A i \in Ids : prev[i] # Unchained => prev'[i] = prev[i]
<1>1. CASE \E x \in Xids : BeginWrite(x)
  BY <1>1, BeginWriteKeeps DEF BeginWrite
<1>2. CASE \E x \in Xids : EndTransaction(x)
  BY <1>2, EndTransactionKeeps DEF EndTransaction
<1>3. CASE \E x \in Xids, o \in Orgs : InsertAuditRow(x, o)
  BY <1>3, InsertAuditRowKeeps DEF InsertAuditRow
<1>4. CASE LinkStart
  BY <1>4, LinkStartKeeps DEF LinkStart
<1>5. CASE Observe
  BY <1>5, ObserveKeeps DEF Observe
<1>6. CASE \E o \in Orgs : LinkBatch(o)
  BY <1>6, LinkBatchKeeps
<1>7. CASE LinkDone
  BY <1>7, LinkDoneKeeps DEF LinkDone
<1>8. CASE SaveCursor
  BY <1>8, SaveCursorKeeps DEF SaveCursor
<1>9. CASE LinkerCrash
  BY <1>9, LinkerCrashKeeps DEF LinkerCrash
<1>10. CASE \E o \in Orgs : AnchorCheckpoint(o)
  BY <1>10, AnchorCheckpointKeeps DEF AnchorCheckpoint
<1>11. CASE UNCHANGED auditVars
  <2>1. UNCHANGED <<tx, rows, prev, cursor, linker, anchor, crashes, covered>>
    BY <1>11 DEF auditVars
  <2>2. AuditTypeOK'
    BY <2>1 DEF AuditInv, AuditTypeOK
  <2>3. Grows /\ RowsAreWritten' /\ IdsAreDense'
    BY <2>1, SameRows DEF AuditInv
  <2> QED
    BY <2>1, <2>2, <2>3, HistoryGrows
<1> QED
  BY <1>1, <1>2, <1>3, <1>4, <1>5, <1>6, <1>7, <1>8, <1>9, <1>10, <1>11
  DEF AuditNext, TransactionStep, LinkerStep

LEMMA AuditInvImplies ==
  ASSUME AuditInv
  PROVE  AuditTypeOK /\ UntamperedChainVerifies /\ WatermarkIsDecided /\ CheckpointStaysTrue
BY DEF AuditInv, WatermarkIsEarned, DecidedTo, WatermarkIsDecided

-----------------------------------------------------------------------------
(* What holds of the chain whether or not the precondition has held.          *)

PlacedIsVisible == \A i \in Ids : prev[i] # Unchained => i \in Visible

AttestInv == AuditTypeOK /\ PlacedIsVisible /\ CheckpointStaysTrue

LEMMA AttestedStays ==
  ASSUME AttestInv, AuditTypeOK',
         \A i \in Visible : i \in Visible' /\ rows'[i] = rows[i],
         \A i \in Ids : prev[i] # Unchained => prev'[i] = prev[i],
         \A i \in Ids : prev'[i] # Unchained => prev[i] # Unchained \/ i \in Visible
  PROVE  /\ PlacedIsVisible'
         /\ anchor' = anchor => CheckpointStaysTrue'
<1>1. \A o : \A i \in Chained(o) : i \in Chained(o)' /\ prev'[i] = prev[i]
  BY DEF Chained, Visible, Allocated
<1>2. PlacedIsVisible'
  BY DEF AttestInv, PlacedIsVisible
<1>3. ASSUME anchor' = anchor PROVE CheckpointStaysTrue'
  BY <1>1, <1>3 DEF AttestInv, CheckpointStaysTrue, CheckpointAttests
<1> QED
  BY <1>2, <1>3

LEMMA AttestStep ==
  ASSUME AttestInv, [AuditNext]_auditVars
  PROVE  AttestInv' /\ \A i \in Ids : prev[i] # Unchained => prev'[i] = prev[i]
<1> USE DEF AttestInv
<1>1. \A i \in Visible : i \in Ids /\ rows[i].xid \in Xids
  BY AuditAssumption DEF AuditTypeOK, Visible, Allocated, Xids
<1>2. CASE \E x \in Xids : BeginWrite(x) \/ EndTransaction(x)
  <2>1. PICK x \in Xids : BeginWrite(x) \/ EndTransaction(x)
    BY <1>2
  <2>2. UNCHANGED <<rows, prev, cursor, linker, anchor, crashes, covered>>
    BY <2>1 DEF BeginWrite, EndTransaction
  <2>3. tx' \in [Xids -> {"free", "open", "committed", "aborted"}]
    BY <2>1 DEF AuditTypeOK, BeginWrite, EndTransaction
  <2>4. \A y \in Xids : tx[y] = "committed" => tx'[y] = "committed"
    BY <2>1 DEF AuditTypeOK, BeginWrite, EndTransaction
  <2>5. \A i \in Visible : i \in Visible' /\ rows'[i] = rows[i]
    BY <1>1, <2>2, <2>4 DEF Visible, Allocated
  <2>6. AuditTypeOK'
    BY <2>2, <2>3 DEF AuditTypeOK
  <2> QED
    BY <2>2, <2>5, <2>6, AttestedStays
<1>3. CASE \E x \in Xids, o \in Orgs : InsertAuditRow(x, o)
  <2>1. PICK x \in Xids, o \in Orgs, i \in Ids \ Allocated :
          /\ rows' = [rows EXCEPT ![i] = [xid |-> x, org |-> o]]
          /\ UNCHANGED <<tx, prev, cursor, linker, anchor, crashes, covered>>
    BY <1>3, Zenon DEF InsertAuditRow
  <2>2. x \in 0..MaxXid
    BY AuditAssumption DEF Xids
  <2>3. AuditTypeOK'
    BY <2>1, <2>2 DEF AuditTypeOK
  <2>4. \A j \in Visible : j \in Visible' /\ rows'[j] = rows[j]
    <3>1. \A j \in Allocated : rows'[j] = rows[j]
      BY <2>1 DEF AuditTypeOK, Allocated
    <3> QED
      BY <2>1, <3>1 DEF Visible, Allocated
  <2> QED
    BY <2>1, <2>3, <2>4, AttestedStays
<1>4. CASE /\ LinkStart \/ Observe \/ LinkDone \/ SaveCursor \/ LinkerCrash
           /\ AuditTypeOK'
  <2>1. UNCHANGED <<tx, rows, prev, anchor>>
    BY <1>4 DEF LinkStart, Observe, LinkDone, SaveCursor, LinkerCrash
  <2>2. \A i \in Visible : i \in Visible' /\ rows'[i] = rows[i]
    BY <2>1 DEF Visible, Allocated
  <2> QED
    BY <1>4, <2>1, <2>2, AttestedStays
<1>5. CASE LinkStart
  <2>1. cursor \in WatermarkStates /\ 0 \in 0..MaxId
    BY AuditAssumption DEF AuditTypeOK
  <2>2. linker' = [pc |-> "observe", prior |-> cursor, todo |-> {}, at |-> 0,
                   seeded |-> FALSE, full |-> FALSE]
    BY <1>5 DEF LinkStart, Idle, Genesis
  <2>3. linker' \in [pc : {"idle", "observe", "link", "save"}, prior : WatermarkStates,
                     todo : SUBSET Orgs, at : 0..MaxId, seeded : BOOLEAN, full : BOOLEAN]
    BY <2>1, <2>2
  <2>4. AuditTypeOK'
    BY <1>5, <2>3 DEF AuditTypeOK, LinkStart
  <2> QED
    BY <1>4, <1>5, <2>4
<1>6. CASE Observe
  BY <1>4, <1>6, ObserveType
<1>7. CASE LinkDone
  <2>1. AuditTypeOK'
    BY <1>7 DEF AuditTypeOK, LinkDone
  <2> QED
    BY <1>4, <1>7, <2>1
<1>8. CASE SaveCursor
  <2>1. linker.prior \in WatermarkStates
    BY DEF AuditTypeOK
  <2>2. AuditTypeOK'
    BY <1>8, <2>1, IdleType DEF AuditTypeOK, SaveCursor
  <2> QED
    BY <1>4, <1>8, <2>2
<1>9. CASE LinkerCrash
  <2>1. crashes' \in 0..MaxCrashes
    BY <1>9, AuditAssumption DEF AuditTypeOK, LinkerCrash
  <2>2. AuditTypeOK'
    BY <1>9, <2>1, IdleType DEF AuditTypeOK, LinkerCrash
  <2> QED
    BY <1>4, <1>9, <2>2
<1>10. CASE \E o \in Orgs : LinkBatch(o)
  <2>1. PICK o \in Orgs : LinkBatch(o)
    BY <1>10
  <2>2. AuditTypeOK'
    BY <2>1, LinkBatchType
  <2>3. UNCHANGED <<tx, rows, anchor>> /\ \A i \in Ids \ BatchOf(o) : prev'[i] = prev[i]
    BY <2>1 DEF LinkBatch
  <2>4. \A i \in BatchOf(o) : i \in Visible /\ prev[i] = Unchained
    BY DEF BatchOf
  <2>5. \A i \in Visible : i \in Visible' /\ rows'[i] = rows[i]
    BY <2>3 DEF Visible, Allocated
  <2> QED
    BY <2>2, <2>3, <2>4, <2>5, AttestedStays
<1>11. CASE \E o \in Orgs : AnchorCheckpoint(o)
  <2>1. PICK o \in Orgs : AnchorCheckpoint(o)
    BY <1>11
  <2>2. UNCHANGED <<tx, rows, prev, cursor, linker, crashes, covered>>
    BY <2>1 DEF AnchorCheckpoint
  <2>3. \A i \in Visible : i \in Visible' /\ rows'[i] = rows[i]
    BY <2>2 DEF Visible, Allocated
  <2>4. PICK id \in Chained(o) : anchor' = [anchor EXCEPT ![o] = [id |-> id, prev |-> prev[id]]]
    BY <2>1, LatestIsChained DEF AnchorCheckpoint
  <2>5. id \in Ids /\ prev[id] \in 0..MaxId /\ id \in 0..MaxId
    BY AuditAssumption DEF AuditTypeOK, Chained, Visible, Allocated, Ids, Unchained
  <2>6. AuditTypeOK'
    BY <2>2, <2>4, <2>5 DEF AuditTypeOK
  <2>7. \A p : Chained(p)' = Chained(p)
    BY <2>2 DEF Chained, Visible, Allocated
  <2>8. CheckpointStaysTrue'
    <3> SUFFICES ASSUME NEW p \in Orgs PROVE CheckpointAttests(p)'
      BY DEF CheckpointStaysTrue
    <3>1. CASE p = o
      <4>1. anchor'[p].id = id /\ anchor'[p].prev = prev[id]
        BY <2>4, <3>1 DEF AuditTypeOK
      <4> QED
        BY <2>2, <2>7, <3>1, <4>1 DEF CheckpointAttests
    <3>2. CASE p # o
      <4>1. anchor'[p] = anchor[p]
        BY <2>4, <3>2 DEF AuditTypeOK
      <4> QED
        BY <2>2, <2>7, <4>1 DEF CheckpointStaysTrue, CheckpointAttests
    <3> QED
      BY <3>1, <3>2
  <2> QED
    BY <2>2, <2>3, <2>6, <2>8, AttestedStays
<1>12. CASE UNCHANGED auditVars
  <2>1. UNCHANGED <<tx, rows, prev, cursor, linker, anchor, crashes, covered>>
    BY <1>12 DEF auditVars
  <2>2. AuditTypeOK'
    BY <2>1 DEF AuditTypeOK
  <2>3. \A i \in Visible : i \in Visible' /\ rows'[i] = rows[i]
    BY <2>1 DEF Visible, Allocated
  <2> QED
    BY <2>1, <2>2, <2>3, AttestedStays
<1> QED
  BY <1>2, <1>3, <1>5, <1>6, <1>7, <1>8, <1>9, <1>10, <1>11, <1>12
  DEF AuditNext, TransactionStep, LinkerStep

\* The inductive invariant: what is attested, and the whole chain while the precondition holds.
TrailInv == AttestInv /\ (covered => AuditInv)

LEMMA CoveredOnce ==
  ASSUME [AuditNext]_auditVars, covered'
  PROVE  covered
BY DEF AuditNext, TransactionStep, LinkerStep, auditVars, BeginWrite, EndTransaction,
       InsertAuditRow, LinkStart, Observe, LinkBatch, LinkDone, SaveCursor, LinkerCrash,
       AnchorCheckpoint

LEMMA TrailStep ==
  ASSUME TrailInv, [AuditNext]_auditVars
  PROVE  TrailInv' /\ \A i \in Ids : prev[i] # Unchained => prev'[i] = prev[i]
<1>1. AttestInv' /\ \A i \in Ids : prev[i] # Unchained => prev'[i] = prev[i]
  BY AttestStep DEF TrailInv
<1>2. ASSUME covered' PROVE AuditInv'
  BY <1>2, CoveredOnce, AuditStepKeeps DEF TrailInv
<1> QED
  BY <1>1, <1>2 DEF TrailInv

\* With PostgreSQL's own snapshots: as long as no stall was recorded with a writer of its gap
\* still open at or above its xmax, the untampered chain verifies and the saved watermark is
\* decided, in whatever order transactions draw ids, commit and roll back, and wherever the
\* linker dies; and with no condition at all, no row is chained twice and a checkpoint stays
\* true.
THEOREM ChainNeverBreaks == AuditSpec => ChainIsSound
<1>1. AuditInit => TrailInv
  BY AuditInitEstablishes DEF TrailInv, AttestInv, AuditInv, ChainIsPrefix, PlacedIsVisible
<1>2. TrailInv /\ [AuditNext]_auditVars => TrailInv'
  BY TrailStep
<1>3. TrailInv /\ [AuditNext]_auditVars
        => [\A i \in Ids : prev[i] # Unchained => prev'[i] = prev[i]]_auditVars
  BY TrailStep
<1>4. TrailInv => /\ AuditTypeOK /\ CheckpointStaysTrue
                  /\ covered => UntamperedChainVerifies /\ WatermarkIsDecided
  BY AuditInvImplies DEF TrailInv, AttestInv
<1> QED
  BY <1>1, <1>2, <1>3, <1>4, PTL DEF AuditSpec, ChainIsSound, ChainedIsFinal

\* Even where xmax left the writer of a gap out, and the chain can then break on a late
\* commit, what was attested is not rewritten: a chained row keeps its place and the newest
\* checkpoint of every organisation names a chained row with the hash that was signed.
THEOREM AttestedIsFinal ==
  AuditSpec => [](AuditTypeOK /\ CheckpointStaysTrue) /\ ChainedIsFinal
<1>1. AuditInit => AttestInv
  BY AuditInitEstablishes DEF AttestInv, AuditInv, ChainIsPrefix, PlacedIsVisible
<1>2. AttestInv /\ [AuditNext]_auditVars => AttestInv'
  BY AttestStep
<1>3. AttestInv /\ [AuditNext]_auditVars
        => [\A i \in Ids : prev[i] # Unchained => prev'[i] = prev[i]]_auditVars
  BY AttestStep
<1>4. AttestInv => AuditTypeOK /\ CheckpointStaysTrue
  BY DEF AttestInv
<1> QED
  BY <1>1, <1>2, <1>3, <1>4, PTL DEF AuditSpec, ChainedIsFinal
=============================================================================
