---------------------------- MODULE MCSearchCache ----------------------------
(***************************************************************************)
(* Instances of SearchCache for TLC: one module A, requests with a filter    *)
(* on it and requests without, and two queries of which x names A.           *)
(***************************************************************************)
EXTENDS SearchCache, TLC

Filter == [m \in Metas |-> IF m = "A" THEN "A" ELSE None]
Between == [k \in Keys |-> IF k.meta = "A" THEN {"A"} ELSE {}]
Text == [k \in Keys |-> IF k.meta = "A" \/ k.query = "x" THEN {"A"} ELSE {}]

Exact == {<<q, q>> : q \in Queries}
Config(lruMax, lruTtl, semMax, semTtl, near) ==
  [lruMax |-> lruMax, lruTtl |-> lruTtl, semMax |-> semMax, semTtl |-> semTtl,
   near |-> near]
Strict == Config(1, 0, 2, 1, Exact)
Loose == Config(2, 0, 1, 0, Queries \X Queries)

\* Exact matches only, or any similarity; each larger in one tier.
Both == {Strict, Loose}
Interchangeable == Permutations(Searches) \cup Permutations(Threads)
=============================================================================
