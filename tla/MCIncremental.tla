----------------------------- MODULE MCIncremental -----------------------------
(***************************************************************************)
(* Incremental for TLC: a file that changes and one that comes and goes.     *)
(***************************************************************************)
EXTENDS Incremental

MayHold == [f \in Paths |-> IF f = "a.c" THEN {"v1", "v2"} ELSE {"v1"}]
=============================================================================
