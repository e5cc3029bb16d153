--------------------------- MODULE MCSessionStore ---------------------------
(***************************************************************************)
(* Instances of SessionStore for TLC.                                      *)
(***************************************************************************)
EXTENDS SessionStore, TLC

\* Ids, keys and pods are interchangeable: nothing orders or chooses them.
Interchangeable == Permutations(Sids) \cup Permutations(Keys) \cup Permutations(Pods)
=============================================================================
