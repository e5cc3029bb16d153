---------------------------- MODULE MCReviewGate ----------------------------
(***************************************************************************)
(* Instances of ReviewGate for TLC: signals that reach, miss and just miss   *)
(* the thresholds, reports of test runs with two failures.                 *)
(***************************************************************************)
EXTENDS ReviewGate, TLC

Values(yes, partial) ==
  [s \in SignalNames |-> IF s \in partial THEN 2 ELSE IF s \in yes THEN Whole ELSE None]
Merits == Quality \ {"api_verified", "config_valid"}

\* All merits, one of them measured and one a null that wins over its measurement;
\* none; a fifth of the verification with all other merits.
SomeSignals ==
  {[value |-> [Values(Merits, {}) EXCEPT !["api_verified"] = Null],
    reached |-> [s \in Composite |-> TRUE]]}
    \cup {[value |-> Values(yes, partial), reached |-> [s \in Composite |-> None]] :
            <<yes, partial>> \in {<<{}, {}>>, <<Quality, {"api_verified"}>>}}

Interchangeable == Permutations(Threads)

SomeReports == {<<>>, <<"t1", None, "t2">>}
=============================================================================
