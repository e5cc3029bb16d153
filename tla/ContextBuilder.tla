--------------------------- MODULE ContextBuilder ---------------------------
(***************************************************************************)
(* ContextBuilder.build of src/HybridRAG/code/querier/context_builder.py:  *)
(* from the candidates a search found, the ones that go into the context   *)
(* of a language model.  Candidates compete for the budget of their slot;  *)
(* what slots leave unused goes to the slots that are (nearly) full; a cap *)
(* on the total then removes the least relevant of what was selected.      *)
(* Texts are abstracted to their tokens.  A candidate is named by its      *)
(* place in the list of candidates.                                        *)
(***************************************************************************)
EXTENDS Integers, Sequences, FiniteSets, SequencesExt, FiniteSetsExt

CONSTANTS Slots,       \* the slot categories
          SlotShare,   \* tokens per slot out of FullBudget
          FullBudget,  \* the budget SlotShare is written for (8000)
          MaxTokens    \* the budget of this build

ASSUME BuilderAssumption ==
    /\ IsFiniteSet(Slots)
    /\ SlotShare \in [Slots -> Nat]
    /\ FullBudget \in Nat \ {0}
    /\ MaxTokens \in Nat

\* The elements of S, sorted.
InOrder(S, Before(_, _)) ==
    CHOOSE s \in [1..Cardinality(S) -> S] :
        ToSet(s) = S /\ \A k, l \in DOMAIN s : k < l => Before(s[k], s[l])

SlotBudget == [s \in Slots |-> (SlotShare[s] * MaxTokens) \div FullBudget]

Tokens(c, chosen) == MapThenSumSet(LAMBDA i : c[i].tokens, chosen)

\* The candidates of a slot, the most relevant first (a stable sort).
Ranked(c, s) ==
    InOrder({i \in DOMAIN c : c[i].slot = s},
            LAMBDA i, j : \/ c[i].score > c[j].score
                          \/ c[i].score = c[j].score /\ i < j)

\* The slots in the order in which candidates first name them.
SlotOrder(c) ==
    LET First(s) == Min({i \in DOMAIN c : c[i].slot = s})
    IN  InOrder({c[i].slot : i \in DOMAIN c}, LAMBDA s, u : First(s) < First(u))

OfSlot(c, s, chosen) == {i \in ToSet(chosen) : c[i].slot = s}

\* Whatever still fits beside what is selected of its slot already.
Take(c, s, budget, chosen, i) ==
    LET own == OfSlot(c, s, chosen)
    IN  IF i \notin own /\ Tokens(c, own) + c[i].tokens <= budget
        THEN Append(chosen, i) ELSE chosen

\* One pass over a slot.
FillSlot(c, s, budget, selected) ==
    FoldLeft(LAMBDA chosen, i : Take(c, s, budget, chosen, i), selected, Ranked(c, s))

Pass(c, budgets, selected) ==
    FoldLeft(LAMBDA chosen, s : FillSlot(c, s, budgets[s], chosen),
             selected, SlotOrder(c))

\* The budgets after slots below 30 % have given what they do not use to the
\* slots at 90 % and above.  The givers keep their own budget.
Redistributed(c, selected) ==
    LET used   == [s \in Slots |-> Tokens(c, OfSlot(c, s, selected))]
        idle   == {s \in Slots : 10 * used[s] < 3 * SlotBudget[s]}
        hungry == {s \in Slots \ idle : 10 * used[s] >= 9 * SlotBudget[s]}
        unused == MapThenSumSet(LAMBDA s : SlotBudget[s] - used[s], idle)
    IN  [s \in Slots |-> SlotBudget[s] + (IF s \in hungry
                                          THEN unused \div Cardinality(hungry) ELSE 0)]

\* Variant: the cap removes the most relevant first.
CapFromTheTop(c, selected) ==
    LET falling == InOrder(ToSet(selected),
                       LAMBDA i, j : \/ c[i].score > c[j].score
                                     \/ c[i].score = c[j].score /\ i < j)
        Rest(k) == SubSeq(falling, k + 1, Len(falling))
    IN  Rest(Min({k \in 0..Len(falling) : Tokens(c, ToSet(Rest(k))) <= MaxTokens}))

\* Over the total, the selected are sorted the least relevant first, and
\* removed from that end until the rest fits.
Cap(c, selected) ==
    IF Tokens(c, ToSet(selected)) <= MaxTokens THEN selected
    ELSE LET place(i) == CHOOSE k \in DOMAIN selected : selected[k] = i
             rising   == InOrder(ToSet(selected),
                             LAMBDA i, j : \/ c[i].score < c[j].score
                                           \/ /\ c[i].score = c[j].score
                                              /\ place(i) < place(j))
             Rest(k)  == SubSeq(rising, k + 1, Len(rising))
         IN  Rest(Min({k \in 0..Len(rising) : Tokens(c, ToSet(Rest(k))) <= MaxTokens}))

Build(c) ==
    LET first    == Pass(c, SlotBudget, <<>>)
        selected == Cap(c, Pass(c, Redistributed(c, first), first))
    IN  [items |-> selected, total |-> Tokens(c, ToSet(selected))]
=============================================================================
