------------------------ MODULE MCDocumentLifecycle ------------------------
(* Small instances of DocumentLifecycle for TLC.                            *)
EXTENDS DocumentLifecycle, TLC

Interchangeable == Permutations(Users) \cup Permutations(Tokens)
=============================================================================
