--------------------------- MODULE WorkflowQuorum ---------------------------
(***************************************************************************)
(* The pure quorum evaluation of a workflow stage.  A quorum is a record    *)
(* [type, n]: n is the count of N_OF_M or the percentage of PERCENT, and    *)
(* unused by ALL and ANY.                                                   *)
(***************************************************************************)
EXTENDS Naturals

Quora == [type: {"ALL", "ANY"}, n: {1}]
           \cup [type: {"N_OF_M"}, n: Nat \ {0}]
           \cup [type: {"PERCENT"}, n: 1..100]

Verdicts == {"PENDING", "MET", "FAILED"}

AtLeastOne(k) == IF k = 0 THEN 1 ELSE k

(* The fewest distinct approvals a pool of `resolved' candidates must give. *)
RequiredApprovals(spec, resolved) ==
  CASE spec.type = "ALL" -> AtLeastOne(resolved)
    [] spec.type = "N_OF_M" -> spec.n
    [] spec.type = "PERCENT" -> (spec.n * resolved + 99) \div 100
    [] OTHER -> 1

Undecided(approvals, rejects, resolved) ==
  IF approvals + rejects > resolved THEN 0 ELSE resolved - (approvals + rejects)

Verdict(met, hopeless) ==
  IF met THEN "MET" ELSE IF hopeless THEN "FAILED" ELSE "PENDING"

\* Mutant: N_OF_M is satisfied one approval early.
QuorumStateOneShort(spec, approvals, rejects, resolved) ==
  Verdict(approvals + 1 >= RequiredApprovals(spec, resolved) /\ approvals > 0, FALSE)

QuorumState(spec, approvals, rejects, resolved) ==
  LET reachable == approvals + Undecided(approvals, rejects, resolved)
  IN  CASE spec.type = "ALL" ->
             IF rejects > 0 THEN "FAILED"
             ELSE Verdict(resolved > 0 /\ approvals >= resolved, FALSE)
        [] spec.type = "N_OF_M" ->
             Verdict(approvals >= spec.n, reachable < spec.n)
        [] spec.type = "PERCENT" ->
             Verdict(resolved > 0 /\ approvals * 100 >= spec.n * resolved,
                     reachable * 100 < spec.n * resolved)
        [] OTHER ->
             Verdict(approvals >= 1, Undecided(approvals, rejects, resolved) = 0)
=============================================================================
