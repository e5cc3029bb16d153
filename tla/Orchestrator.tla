---------------------------- MODULE Orchestrator ----------------------------
(***************************************************************************)
(* RLMOrchestrator.run (src/HybridRAG/code/querier/rlm_orchestrator.py) as *)
(* the rlm_orchestrate tool runs it, one worker thread per request, with   *)
(* the OpenAI client and the access token (token_manager.py) that it       *)
(* shares with other threads, among them the searches' query enhancer.  A  *)
(* run asks the model for a plan, searches for each step, builds a context *)
(* of what it found (ContextBuilder) and asks the model again, with the    *)
(* steps' answers in its prompt.                                           *)
(*                                                                         *)
(* Tokens are numbered as they are issued; 0 is "none yet".  Time passes   *)
(* for a token when it comes within five minutes of its end and when it    *)
(* ends.  Texts are abstracted to their tokens, an answer to its step.     *)
(***************************************************************************)
EXTENDS ContextBuilder

CONSTANTS Runs,          \* worker threads with a request
          Enhancers,     \* threads in which a search expands its query
          StepIds,       \* what a plan may number its steps with
          Unordered,     \* a step id that cannot be sorted with the others
          MaxSteps,      \* MAX_STEPS
          Plans,         \* sequences of step ids that the model may answer
          Candidates,    \* lists of candidates a search may find
          BaseSizes,     \* tokens of instruction, task and session context
          Header,        \* tokens of a step's heading in the prompt
          PromptBudget,  \* context window less the response and the reserve
          FailureText,   \* tokens of the text that stands for a failed search
          MinCut,        \* the smallest part worth a truncated answer (200)
          MaxAttempts,   \* tries of one call of the model (3)
          MaxTokenNo,    \* bound: tokens issued
          MaxFaults,     \* bound: failures of the endpoints
          None

ASSUME OrchestratorAssumption ==
    /\ StepIds \subseteq Nat /\ 1 \in StepIds /\ Unordered \notin StepIds
    /\ Plans \subseteq Seq(StepIds \cup {Unordered})
    /\ Candidates \subseteq Seq([slot : Slots, tokens : Nat, score : Nat])
    /\ BaseSizes \subseteq Nat
    /\ {Header, PromptBudget, MinCut, FailureText, MaxSteps} \subseteq Nat
    /\ {MaxTokenNo, MaxFaults} \subseteq Nat
    /\ MaxAttempts \in Nat \ {0}
    /\ Runs \cap Enhancers = {}
    /\ None \notin Runs \cup Enhancers \cup StepIds \cup {Unordered}

VARIABLES token,    \* LLAMA_TOKEN of .env, which every check loads again
          life,     \* of each token: "unissued", "fresh", "ending", "ended", "revoked"
          client,   \* the token of the shared client, or None
          lock,     \* the thread in _get_shared_openai_client, or None
          pc, asks, \* of each run: where it is, and what it asks the model for
          tries, held,            \* of its call: failed tries, the client's token
          plan, at, answers,      \* step ids, steps done, answers by step id
          found, built,           \* what a search found, the context built of it
          prompt,                 \* what the synthesis is given
          outcome, faults

tokens   == <<token, life>>
shared   == <<token, life, client, lock, faults>>
call     == <<tries, held>>
results  == <<plan, at, answers, found, built, prompt, outcome>>
vars     == <<shared, pc, asks, call, results>>

Threads   == Runs \cup Enhancers
TokenNos  == 0..MaxTokenNo
StepKeys  == StepIds \cup {Unordered}
NoAnswers == << >>
NoContext == [items |-> << >>, total |-> 0]
NoPrompt  == [blocks |-> << >>, cut |-> None, full |-> FALSE, base |-> 0, used |-> 0]
NoToken   == [no |-> 0, early |-> FALSE]

\* Variant: without the buffer.
IsExpiredLate(t) == life[t] \in {"unissued", "ended"}

\* A token's `exp` claim, read with the five minutes of buffer.
IsExpired(t) == life[t] \in {"unissued", "ending", "ended"}
\* What the model's gateway accepts.
Accepts(t)   == life[t] \in {"fresh", "ending"}

Init ==
    /\ token = 0
    /\ life = [t \in TokenNos |-> "unissued"]
    /\ client = None /\ lock = None /\ faults = 0
    /\ pc = [p \in Threads |-> "idle"] /\ asks = [r \in Runs |-> "plan"]
    /\ tries = [r \in Runs |-> 0] /\ held = [p \in Threads |-> NoToken]
    /\ plan = [r \in Runs |-> << >>] /\ at = [r \in Runs |-> 0]
    /\ answers = [r \in Runs |-> NoAnswers] /\ prompt = [r \in Runs |-> NoPrompt]
    /\ found = [r \in Runs |-> << >>] /\ built = [r \in Runs |-> NoContext]
    /\ outcome = [r \in Runs |-> None]

Goto(r, here, there) == pc[r] = here /\ pc' = [pc EXCEPT ![r] = there]
Fault == faults < MaxFaults /\ faults' = faults + 1

-----------------------------------------------------------------------------
(* The shared client and its token.                                        *)

\* Thread p gets the client made for token t; `early`: before the last five
\* minutes of t.
Hand(p, t) ==
    /\ client' = t
    /\ held' = [held EXCEPT ![p] = [no |-> t, early |-> life'[t] # "ending"]]

\* Variant: the check and the fetch are not under one lock.
GetClientUnlocked(p) ==
    /\ UNCHANGED <<tokens, lock>>
    /\ IF IsExpired(token)
       THEN Goto(p, "ask", "fetch") /\ UNCHANGED <<client, held>>
       ELSE Goto(p, "ask", "call") /\ Hand(p, token)
    /\ UNCHANGED <<faults, asks, tries, results>>

\* The client's lock is taken and get_token decides: the token as it is, with
\* the client there is if it was made for it, or a new one must be fetched.
GetClient(p) ==
    /\ lock = None
    /\ UNCHANGED tokens
    /\ IF IsExpired(token)
       THEN /\ Goto(p, "ask", "fetch") /\ lock' = p
            /\ UNCHANGED <<client, held>>
       ELSE /\ Goto(p, "ask", "call")
            /\ Hand(p, token)
            /\ UNCHANGED lock
    /\ UNCHANGED <<faults, asks, tries, results>>

\* fetch_new_token and _update_env_file, still under the lock.
Fetch(p) ==
    /\ Goto(p, "fetch", "call")
    /\ token < MaxTokenNo
    /\ token' = token + 1
    /\ life' = [life EXCEPT ![token + 1] = "fresh"]
    /\ Hand(p, token + 1)
    /\ lock' = None
    /\ UNCHANGED <<faults, asks, tries, results>>

\* The token endpoint fails or refuses, or the new token cannot be written to
\* .env, from which the next check has the old one again: an error that is not
\* retried.
FetchFails(p) ==
    /\ Goto(p, "fetch", "unavailable")
    /\ Fault /\ lock' = None
    /\ UNCHANGED <<tokens, client, asks, call, results>>

\* McalQueryEnhancer: one call, and whatever goes wrong with the shared client
\* ends it; only a run drops the client.
Enhance(e) ==
    /\ Goto(e, "idle", "ask")
    /\ UNCHANGED <<shared, asks, call, results>>

Enhanced(e) ==
    /\ \E here \in {"call", "unavailable"} : Goto(e, here, "idle")
    /\ held' = [held EXCEPT ![e] = NoToken]
    /\ UNCHANGED <<shared, asks, tries, results>>

-----------------------------------------------------------------------------
(* A run's call of the model: at most MaxAttempts tries.                   *)

\* rlm_orchestrate: a request reaches a worker thread.
Start(r) ==
    /\ Goto(r, "idle", "ask")
    /\ UNCHANGED <<shared, asks, call, results>>

Answered(r) ==
    /\ Accepts(held[r].no)
    /\ Goto(r, "call", "answered")
    /\ UNCHANGED <<shared, asks, call, results>>

\* Variant: as often as it takes.
TryForever(r) == Goto(r, "call", "ask") /\ UNCHANGED tries

\* After an error worth another try.
TryAgain(r) ==
    /\ tries' = [tries EXCEPT ![r] = @ + 1]
    /\ Goto(r, "call", IF tries[r] + 1 < MaxAttempts THEN "ask" ELSE "unavailable")

\* 401: the shared client is dropped, under its lock.
Rejected(r) ==
    /\ ~ Accepts(held[r].no) /\ lock = None
    /\ TryAgain(r)
    /\ client' = None
    /\ UNCHANGED <<tokens, lock, faults, asks, held, results>>

\* A lost connection, a timeout, a rate limit, a server error.
Unreachable(r) ==
    /\ TryAgain(r) /\ Fault
    /\ UNCHANGED <<tokens, client, lock, asks, held, results>>

\* Any other error, among them a prompt that is larger than the model's window.
Refused(r) ==
    /\ Goto(r, "call", "unavailable") /\ Fault
    /\ UNCHANGED <<tokens, client, lock, asks, call, results>>

-----------------------------------------------------------------------------
(* Planning.                                                               *)

Steps(p) == SubSeq(p, 1, IF Len(p) < MaxSteps THEN Len(p) ELSE MaxSteps)

FollowPlan(r, p) ==
    /\ plan' = [plan EXCEPT ![r] = Steps(p)]
    /\ asks' = [asks EXCEPT ![r] = "synthesis"]
    /\ tries' = [tries EXCEPT ![r] = 0] /\ held' = [held EXCEPT ![r] = NoToken]
    /\ UNCHANGED <<shared, at, answers, found, built, prompt, outcome>>

\* The model answers with a plan, or with no object that has steps: then the
\* question itself is the only step.
Planned(r) ==
    /\ asks[r] = "plan" /\ Goto(r, "answered", "search")
    /\ \E p \in Plans \cup {<<1>>} : FollowPlan(r, p)

PlannerUnavailable(r) ==
    /\ asks[r] = "plan" /\ Goto(r, "unavailable", "search")
    /\ FollowPlan(r, <<1>>)

-----------------------------------------------------------------------------
(* Searching.                                                              *)

Searching(r) == pc[r] = "search" /\ at[r] < Len(plan[r])

\* The answer of the step in turn, kept under the id the plan gives it.
Answer(r, size) ==
    LET id == plan[r][at[r] + 1]
    IN  /\ at' = [at EXCEPT ![r] = @ + 1]
        /\ answers' = [answers EXCEPT ![r] =
               [k \in DOMAIN @ \cup {id} |->
                   IF k = id THEN [step |-> at[r] + 1, size |-> size] ELSE @[k]]]

\* A search (tried with fewer parameters if its function does not know them).
Search(r) ==
    /\ Searching(r) /\ Goto(r, "search", "assembled")
    /\ \E c \in Candidates :
          /\ found' = [found EXCEPT ![r] = c]
          /\ built' = [built EXCEPT ![r] = Build(c)]
    /\ UNCHANGED <<shared, asks, call, plan, at, answers, prompt, outcome>>

Assembled(r) ==
    /\ Goto(r, "assembled", "search")
    /\ Answer(r, built[r].total)
    /\ found' = [found EXCEPT ![r] = << >>]
    /\ built' = [built EXCEPT ![r] = NoContext]
    /\ UNCHANGED <<shared, asks, call, plan, prompt, outcome>>

\* The search or the assembly raises, or there is no search: a text says so.
SearchFails(r) ==
    /\ Searching(r)
    /\ Answer(r, FailureText)
    /\ UNCHANGED <<shared, pc, asks, call, plan, found, built, prompt, outcome>>

-----------------------------------------------------------------------------
(* Synthesis.                                                              *)

\* Variant: an answer is admitted while there is budget left at all.
AdmitBeyond(ans, p, id) ==
    IF p.used <= PromptBudget
    THEN [p EXCEPT !.blocks = Append(@, id), !.used = @ + Header + ans[id].size]
    ELSE [p EXCEPT !.full = TRUE]

\* The answers in the order of their ids, as long as they fit; of the first that
\* does not four characters for each token left are kept, if that is worth it,
\* and it is the last.  How many tokens that part has nobody counts, neither the
\* code nor `used`: in hexadecimal or register tables it may be more than left.
Admit(ans, p, id) ==
    LET block == Header + ans[id].size
        left  == PromptBudget - p.used
    IN  CASE p.full -> p
          [] ~ p.full /\ block <= left ->
                [p EXCEPT !.blocks = Append(@, id), !.used = @ + block]
          [] ~ p.full /\ block > left /\ left > MinCut ->
                [p EXCEPT !.cut = id, !.full = TRUE]
          [] OTHER -> [p EXCEPT !.full = TRUE]

Prompt(ans, base) ==
    FoldLeft(LAMBDA p, id : Admit(ans, p, id),
             [NoPrompt EXCEPT !.base = base, !.used = base],
             InOrder(DOMAIN ans, LAMBDA k, l : k < l))

Sortable(ids) == Unordered \notin ids \/ ids = {Unordered}

Synthesize(r) ==
    /\ ~ Searching(r) /\ Sortable(DOMAIN answers[r])
    /\ Goto(r, "search", "ask")
    /\ \E base \in BaseSizes : prompt' = [prompt EXCEPT ![r] = Prompt(answers[r], base)]
    /\ UNCHANGED <<shared, asks, call, plan, at, found, built, answers, outcome>>

\* The run returns or raises, and its variables are gone.
Finish(r, here, how) ==
    /\ Goto(r, here, "done")
    /\ outcome' = [outcome EXCEPT ![r] = how]
    /\ tries' = [tries EXCEPT ![r] = 0] /\ held' = [held EXCEPT ![r] = NoToken]
    /\ plan' = [plan EXCEPT ![r] = << >>] /\ at' = [at EXCEPT ![r] = 0]
    /\ answers' = [answers EXCEPT ![r] = NoAnswers]
    /\ prompt' = [prompt EXCEPT ![r] = NoPrompt]
    /\ UNCHANGED <<shared, asks, found, built>>

\* `steps` is not a list, or holds something other than objects.
Malformed(r) == asks[r] = "plan" /\ Finish(r, "answered", "error")

\* The ids cannot be sorted, after all searches are done.
Unsortable(r) ==
    /\ ~ Searching(r) /\ ~ Sortable(DOMAIN answers[r])
    /\ Finish(r, "search", "error")

\* The model's text is the result; an empty text counts as none.
Synthesized(r) ==
    /\ asks[r] = "synthesis"
    /\ \E how \in {"complete", "degraded"} : Finish(r, "answered", how)

SynthesisUnavailable(r) ==
    asks[r] = "synthesis" /\ Finish(r, "unavailable", "degraded")

-----------------------------------------------------------------------------
(* The world: tokens age, and the gateway may stop accepting one early.    *)
(* Assumed: five minutes are longer than a call takes, with the three      *)
(* attempts of the SDK and a minute's timeout for each phase of them; so a *)
(* token handed out before them does not end during the call.              *)

Ages(t, from, to) ==
    /\ t < MaxTokenNo /\ life[t] = from
    /\ life' = [life EXCEPT ![t] = to]
    /\ UNCHANGED <<token, client, lock, faults, pc, asks, call, results>>

Ending(t)  == Ages(t, "fresh", "ending")
Revoked(t) == Ages(t, "fresh", "revoked")
Ended(t) ==
    /\ \A p \in Threads : ~ (pc[p] = "call" /\ held[p].no = t /\ held[p].early)
    /\ \E from \in {"ending", "revoked"} : Ages(t, from, "ended")

ClientFor(p) == GetClient(p) \/ Fetch(p) \/ FetchFails(p)

Work(r) ==
    \/ Answered(r) \/ Rejected(r) \/ Unreachable(r) \/ Refused(r)
    \/ Planned(r) \/ PlannerUnavailable(r) \/ Malformed(r)
    \/ Search(r) \/ Assembled(r) \/ SearchFails(r)
    \/ Synthesize(r) \/ Unsortable(r) \/ Synthesized(r) \/ SynthesisUnavailable(r)

Next ==
    \/ \E p \in Threads : ClientFor(p)
    \/ \E e \in Enhancers : Enhance(e) \/ Enhanced(e)
    \/ \E r \in Runs : Start(r) \/ Work(r)
    \/ \E t \in TokenNos : Ending(t) \/ Revoked(t) \/ Ended(t)

\* A thread that can go on does; every request to an endpoint has a timeout, so
\* it is answered or fails.  The lock is held for one fetch at a time, and a
\* thread that waits for it gets it in the end.
Fairness ==
    /\ \A p \in Threads : WF_vars(Fetch(p) \/ FetchFails(p))
    /\ \A e \in Enhancers : WF_vars(Enhanced(e))
    /\ \A r \in Runs : SF_vars(GetClient(r)) /\ SF_vars(Rejected(r)) /\ WF_vars(Work(r))

Spec == Init /\ [][Next]_vars /\ Fairness

-----------------------------------------------------------------------------
(* Properties.                                                             *)

TypeOK ==
    /\ token \in TokenNos
    /\ life \in [TokenNos -> {"unissued", "fresh", "ending", "ended", "revoked"}]
    /\ client \in TokenNos \cup {None} /\ lock \in Threads \cup {None}
    /\ faults \in 0..MaxFaults
    /\ \A p \in Threads : held[p].no \in TokenNos
    /\ \A r \in Runs :
          /\ pc[r] \in {"idle", "ask", "fetch", "call", "answered", "unavailable",
                        "search", "assembled", "done"}
          /\ asks[r] \in {"plan", "synthesis"}
          /\ tries[r] \in 0..MaxAttempts
          /\ Len(plan[r]) <= MaxSteps /\ at[r] \in 0..Len(plan[r])
          /\ DOMAIN answers[r] \subseteq StepKeys
          /\ outcome[r] \in {None, "complete", "degraded", "error"}

\* A call never goes out with a token that ends before it is answered: the
\* buffer of token_manager.py (_EXPIRY_BUFFER_MINUTES, 77-94) covers the call,
\* although the client is shared and was made by another thread long before.
CallsOutliveTheirTokens ==
    \A p \in Threads : pc[p] = "call" => life[held[p].no] # "ended"

\* A new token is fetched only in place of one that is missing or about to end
\* (get_token, "fetching a new one only if expired"), however many threads ask
\* at once.
FetchesOnlyWhenExpired ==
    [][token' # token => IsExpired(token)]_vars

Before(k, l) == k # l /\ {k, l} \subseteq StepIds /\ k < l

\* What the synthesis sees is whole from the lowest step id up to where the
\* budget ends, with at most the next answer cut; every step before it is
\* heard unless a later step of the plan has taken its id.
PromptIsPrefix ==
    \A r \in Runs : asks[r] = "synthesis" /\ pc[r] \in {"ask", "call"} =>
        LET whole == ToSet(prompt[r].blocks)
            heard == {answers[r][k].step : k \in whole}
        IN  /\ \A k \in whole, l \in DOMAIN answers[r] : Before(l, k) => l \in whole
            /\ \A l \in DOMAIN answers[r] :
                  l = prompt[r].cut => \A k \in DOMAIN answers[r] : Before(k, l) => k \in whole
            /\ ~ prompt[r].full =>
                  \A i \in DOMAIN plan[r] :
                      i \in heard \/ \E j \in heard : j > i /\ plan[r][j] = plan[r][i]

\* The answers shown whole fit the budget whenever the task itself does, and an
\* answer is left out only because the first that is left out does not fit any
\* more; a part of that one is shown just when more than MinCut tokens are left.
PromptFits ==
    \A r \in Runs : asks[r] = "synthesis" /\ pc[r] \in {"ask", "call"} =>
        LET p    == prompt[r]
            left == PromptBudget - p.used
            rest == DOMAIN answers[r] \ ToSet(p.blocks)
        IN  /\ p.base <= PromptBudget => left >= 0
            /\ p.full => \E l \in rest :
                  /\ \A k \in rest \ {l} : Before(l, k)
                  /\ Header + answers[r][l].size > left
                  /\ p.cut = l <=> left > MinCut

\* A prompt drops and cuts answers only where its budget demands it, from the
\* highest step id down, and what it shows whole keeps within the budget
\* (_synthesize, 983-1017).
PromptIsFittingPrefix == PromptIsPrefix /\ PromptFits

\* The context of a step never exceeds its budget, names no candidate twice,
\* and is nothing but candidates.
ContextFits ==
    \A r \in Runs :
        LET chosen == built[r].items
        IN  /\ Tokens(found[r], ToSet(chosen)) <= MaxTokens
            /\ Cardinality(ToSet(chosen)) = Len(chosen)
            /\ ToSet(chosen) \subseteq DOMAIN found[r]

\* Within a slot nothing is left out for something less relevant that is no
\* smaller, through both passes and the cap.
MostRelevantStay ==
    \A r \in Runs : \A i \in DOMAIN found[r] \ ToSet(built[r].items) :
        \A j \in ToSet(built[r].items) :
            /\ found[r][i].slot = found[r][j].slot
            /\ found[r][i].tokens <= found[r][j].tokens
            => found[r][i].score <= found[r][j].score

\* The context of a step is the best of what was found that fits its budget
\* (ContextBuilder.build, through both passes and the cap).
ContextKeepsBest == ContextFits /\ MostRelevantStay

\* Every request that was accepted is answered.
RunsEnd == \A r \in Runs : pc[r] = "ask" ~> pc[r] = "done"
=============================================================================
