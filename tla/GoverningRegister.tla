------------------------- MODULE GoverningRegister -------------------------
(***************************************************************************)
(* What the vault promises a reader: at any instant a document is governed  *)
(* by no version or by one version, a later version replaces an earlier one *)
(* in a single step, and a retired document is never governed again.        *)
(***************************************************************************)
EXTENDS Naturals

CONSTANTS Docs, MaxVersions

VARIABLES governing,  \* the version that governs each document (0: none)
          retired     \* the documents that have been retired

Init ==
  /\ governing = [d \in Docs |-> 0]
  /\ retired = {}

(* Version v takes over, with no instant at which nothing governs.          *)
Adopt(d, v) ==
  /\ d \notin retired
  /\ v > governing[d]
  /\ governing' = [governing EXCEPT ![d] = v]
  /\ UNCHANGED retired

Retire(d) ==
  /\ governing[d] # 0
  /\ governing' = [governing EXCEPT ![d] = 0]
  /\ retired' = retired \cup {d}

Next == \E d \in Docs : Retire(d) \/ \E v \in 1..MaxVersions : Adopt(d, v)

Spec == Init /\ [][Next]_<<governing, retired>>
=============================================================================
