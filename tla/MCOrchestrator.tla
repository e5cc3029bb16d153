--------------------------- MODULE MCOrchestrator ---------------------------
(***************************************************************************)
(* One request and one other user of the client, two slots (one wide, one  *)
(* narrow) whose budgets together exceed the total, plans of up to three   *)
(* steps that repeat, skip, reverse and mix ids, and prompts that overflow. *)
(***************************************************************************)
EXTENDS Orchestrator, TLC

CONSTANTS r1, e1, api, safety, odd, none

MCRuns      == {r1}
MCEnhancers == {e1}
MCSlots == {api, safety}
MCShare == (api :> 4) @@ (safety :> 2)
MCPlans == {<< >>, <<1, 2>>, <<2, 1>>, <<1, 1>>, <<1, 2, 1>>, <<1, odd>>, <<odd>>}

Item(s, t, v) == [slot |-> s, tokens |-> t, score |-> v]
Pool == {Item(api, 2, 1), Item(api, 2, 3), Item(api, 4, 2), Item(safety, 2, 2),
         Item(safety, 4, 1)}
MCCandidates == UNION {[1..n -> Pool] : n \in 0..3}
=============================================================================
