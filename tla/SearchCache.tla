----------------------------- MODULE SearchCache -----------------------------
(***************************************************************************)
(* search_database with the two-tier cache of cache_service.py, and what     *)
(* removes entries from it: cache_invalidate_module, cache_clear,            *)
(* cache_refresh_config, the TTLs and the callback of IngestionService.      *)
(*                                                                         *)
(* The tools run on the event loop.  A search looks into both tiers, awaits  *)
(* the backends and then stores its result, LRU tier first; an ingestion     *)
(* thread may run between any two steps, and other tools during the await.   *)
(* Each tier has its lock, so one operation on one tier is one step.  The    *)
(* lookup in both tiers is one step as well: what a thread removes between    *)
(* them could as well have been removed before.                              *)
(***************************************************************************)
EXTENDS Integers, FiniteSets

CONSTANTS
  Searches,     \* search_database requests
  Threads,      \* ingestion threads
  Modules,      \* modules of the graph
  Metas,        \* <<workspace, module filter, alpha>> of a request
  Queries,      \* query texts
  FilterOf,     \* the module filter of a meta, None when there is none
  InKey,        \* the modules that occur between two colons of a key
  InText,       \* the modules whose names occur anywhere in a key
  Configs,      \* cache configurations the environment variables may give
  None,
  MaxVersion,   \* bound: versions of a module's data
  MaxTime,      \* bound: the clock
  MaxCommands   \* bound: cache_clear and cache_refresh_config calls

\* The LRU tier joins the four with colons.  Two keys are two strings as long as
\* no workspace and no module has a colon in its name.
Keys == [meta : Metas, query : Queries]

ASSUME KeyAssumption ==
  /\ None \notin Modules
  /\ FilterOf \in [Metas -> Modules \cup {None}]
  /\ InKey \in [Keys -> SUBSET Modules]
  /\ InText \in [Keys -> SUBSET Modules]
  /\ \A k \in Keys : /\ FilterOf[k.meta] \in InKey[k] \cup {None}
                     /\ InKey[k] \subseteq InText[k]
\* near: the pairs of queries whose similarity reaches the threshold.
ASSUME ConfigAssumption ==
  Configs \subseteq [lruMax : Nat \ {0}, lruTtl : Nat, semMax : Nat \ {0},
                     semTtl : Nat, near : SUBSET (Queries \X Queries)]
ASSUME BoundsAssumption ==
  /\ MaxVersion \in Nat
  /\ MaxTime \in Nat
  /\ MaxCommands \in Nat

VARIABLES
  now,       \* the clock
  graph,     \* graph[m]: version of the data of module m in Neo4j and Qdrant
  cfg,       \* the configuration of the cache
  commands,  \* cache_clear and cache_refresh_config calls so far
  lru,       \* lru[k]: the entry of the LRU tier for key k, or None
  sem,       \* the entries of the semantic tier
  touches,   \* insertions and hits so far: the order of both tiers
  pc,        \* pc[q]: what search q is doing
  req,       \* req[q]: its key
  seen,      \* seen[q]: the versions its backends have read, while it needs them
  answer,    \* answer[q]: what the entry held that it was answered from
  job,       \* job[t]: what ingestion thread t is doing
  late,      \* late[q]: modules invalidated since q has read (history)
  floor      \* floor[m]: version of m when it was last invalidated (history)

searchVars == <<pc, req, seen, answer>>
history == <<late, floor>>
vars == <<now, graph, cfg, commands, lru, sem, touches, searchVars, job, history>>

Versions == [Modules -> Nat]
Unread == [m \in Modules |-> 0]
LruEntry == [seen : Versions, late : SUBSET Modules, at : Nat, ttl : Nat, used : Nat]
SemEntry == [key : Keys, seen : Versions, late : SUBSET Modules, at : Nat, used : Nat]
ASSUME NoneAssumption == None \notin Keys \cup LruEntry

Resting == [step |-> "idle", mod |-> None, mark |-> 0]
Job == {Resting} \cup [step : {"written", "half"}, mod : Modules, mark : Nat]

Init ==
  /\ now = 0
  /\ graph = Unread
  /\ cfg \in Configs
  /\ commands = 0
  /\ lru = [k \in Keys |-> None]
  /\ sem = {}
  /\ touches = 0
  /\ pc = [q \in Searches |-> "new"]
  /\ req = [q \in Searches |-> None]
  /\ seen = [q \in Searches |-> Unread]
  /\ answer = [q \in Searches |-> None]
  /\ job = [t \in Threads |-> Resting]
  /\ late = [q \in Searches |-> {}]
  /\ floor = Unread

(***************************************************************************)
(* The two tiers                                                           *)
(***************************************************************************)

LruLive(k) == lru[k] # None /\ now <= lru[k].at + lru[k].ttl
SemLive == {e \in sem : now <= e.at + cfg.semTtl}

\* popitem(last=False) until at most n entries are left.
KeepRecent(tier, n) ==
  LET there == {k \in Keys : tier[k] # None}
  IN [k \in Keys |->
        IF k \in there /\ Cardinality({j \in there : tier[j].used > tier[k].used}) < n
        THEN tier[k] ELSE None]
KeepNewest(entries, n) ==
  {e \in entries : Cardinality({d \in entries : d.used > e.used}) < n}

\* Variant: the structured parameters are not compared.
MatchingAnything(k) == {e \in SemLive : <<e.key.query, k.query>> \in cfg.near}
\* Live entries with the same metadata whose query is near enough.
Matching(k) ==
  {e \in SemLive : e.key.meta = k.meta /\ <<e.key.query, k.query>> \in cfg.near}
\* The most similar of them: an equal query before a similar one, the oldest
\* entry of a query before the later ones.
Best(k) ==
  LET same == {e \in Matching(k) : e.key.query = k.query}
      closest == IF same # {} THEN same ELSE Matching(k)
  IN {e \in closest :
        \A d \in closest : d.key.query = e.key.query => e.used <= d.used}

NewEntry(q) ==
  [seen |-> seen[q], late |-> late[q], at |-> now, ttl |-> cfg.lruTtl, used |-> touches + 1]

\* invalidate_by_module of each tier.
\* Variant: only keys that begin with the module's name; all begin with the workspace.
LruWithoutPrefix(m) == lru
LruWithout(m) == [k \in Keys |-> IF m \in InKey[k] THEN None ELSE lru[k]]
SemWithout(m) == {e \in sem : m \notin InText[e.key]}

(***************************************************************************)
(* search_database                                                         *)
(***************************************************************************)

\* A search that stores its result does so without an await.
LoopFree == \A q \in Searches : pc[q] # "storing"

Reply(q, entry) ==
  /\ answer' = [answer EXCEPT ![q] = [seen |-> entry.seen, late |-> entry.late]]
  /\ pc' = [pc EXCEPT ![q] = "done"]

Receive(q, k) ==
  /\ LoopFree
  /\ pc[q] = "new"
  /\ req' = [req EXCEPT ![q] = k]
  /\ UNCHANGED <<now, graph, cfg, commands, seen, job, history>>

LruHit(q, k) ==
  /\ Receive(q, k)
  /\ LruLive(k)
  /\ Reply(q, lru[k])
  /\ lru' = [lru EXCEPT ![k].used = touches + 1]
  /\ touches' = touches + 1
  /\ UNCHANGED sem

\* The LRU lookup deletes an expired entry, the semantic one all expired ones.
LruMiss(q, k) ==
  /\ Receive(q, k)
  /\ ~LruLive(k)
  /\ lru' = [lru EXCEPT ![k] = None]
  /\ sem' = SemLive
  /\ UNCHANGED touches

SemanticHit(q, k) ==
  /\ LruMiss(q, k)
  /\ \E e \in Best(k) : Reply(q, e)

\* Without a search service the request is answered with an error.
Miss(q, k) ==
  /\ LruMiss(q, k)
  /\ Matching(k) = {}
  /\ \E step \in {"waiting", "failed"} : pc' = [pc EXCEPT ![q] = step]
  /\ UNCHANGED answer

\* The backends answer the awaiting search, or an exception does.
Read(q) ==
  /\ pc[q] = "waiting"
  /\ \/ /\ seen' = [seen EXCEPT ![q] = graph]
        /\ pc' = [pc EXCEPT ![q] = "found"]
     \/ /\ pc' = [pc EXCEPT ![q] = "failed"]
        /\ UNCHANGED seen
  /\ UNCHANGED <<now, graph, cfg, commands, lru, sem, touches, req, answer, job, history>>

StoreLru(q) ==
  /\ LoopFree
  /\ pc[q] = "found"
  /\ pc' = [pc EXCEPT ![q] = "storing"]
  /\ lru' = KeepRecent([lru EXCEPT ![req[q]] = NewEntry(q)], cfg.lruMax)
  /\ touches' = touches + 1
  /\ UNCHANGED <<now, graph, cfg, commands, sem, req, seen, answer, job, history>>

StoreSemantic(q) ==
  /\ pc[q] = "storing"
  /\ sem' = KeepNewest(sem \cup {[key |-> req[q], seen |-> seen[q], late |-> late[q],
                                  at |-> now, used |-> touches]}, cfg.semMax)
  /\ pc' = [pc EXCEPT ![q] = "done"]
  /\ seen' = [seen EXCEPT ![q] = Unread]
  /\ late' = [late EXCEPT ![q] = {}]
  /\ UNCHANGED <<now, graph, cfg, commands, lru, touches, req, answer, job, floor>>

(***************************************************************************)
(* What removes entries                                                    *)
(***************************************************************************)

Later(a, b) == IF a > b THEN a ELSE b
\* Searches that have read the backends and not yet stored what they read.
Carrying(q) == pc[q] \in {"found", "storing"}
Overtaken(m) ==
  [q \in Searches |-> IF Carrying(q) THEN late[q] \cup {m} ELSE late[q]]

\* The tool cache_invalidate_module.
InvalidateModule(m) ==
  /\ LoopFree
  /\ lru' = LruWithout(m)
  /\ sem' = SemWithout(m)
  /\ late' = Overtaken(m)
  /\ floor' = [floor EXCEPT ![m] = graph[m]]
  /\ UNCHANGED <<now, graph, cfg, commands, touches, searchVars, job>>

Clear(tiers) ==
  /\ LoopFree
  /\ commands < MaxCommands
  /\ commands' = commands + 1
  /\ lru' = IF "lru" \in tiers THEN [k \in Keys |-> None] ELSE lru
  /\ sem' = IF "semantic" \in tiers THEN {} ELSE sem
  /\ UNCHANGED <<now, graph, cfg, touches, searchVars, job, history>>

\* Variant: the new size counts from the next insertion on.
RefreshLazily(c) ==
  /\ LoopFree
  /\ commands < MaxCommands
  /\ commands' = commands + 1
  /\ cfg' = c
  /\ UNCHANGED <<now, graph, lru, sem, touches, searchVars, job, history>>
RefreshConfig(c) ==
  /\ LoopFree
  /\ commands < MaxCommands
  /\ commands' = commands + 1
  /\ cfg' = c
  /\ lru' = KeepRecent(lru, c.lruMax)
  /\ sem' = KeepNewest(sem, c.semMax)
  /\ UNCHANGED <<now, graph, touches, searchVars, job, history>>

\* cache_stats drops the expired entries of the semantic tier.
Stats ==
  /\ LoopFree
  /\ sem' = SemLive
  /\ UNCHANGED <<now, graph, cfg, commands, lru, touches, searchVars, job, history>>

(***************************************************************************)
(* Ingestion threads, pipelines and the clock                              *)
(***************************************************************************)

NewVersion(m) ==
  /\ graph[m] < MaxVersion
  /\ graph' = [graph EXCEPT ![m] = @ + 1]

\* IngestionService: the module is written, then the callback invalidates it.
Ingest(t, m) ==
  /\ job[t] = Resting
  /\ NewVersion(m)
  /\ job' = [job EXCEPT ![t] = [step |-> "written", mod |-> m, mark |-> graph'[m]]]
  /\ UNCHANGED <<now, cfg, commands, lru, sem, touches, searchVars, history>>

IngestedLru(t) ==
  /\ job[t].step = "written"
  /\ lru' = LruWithout(job[t].mod)
  /\ late' = Overtaken(job[t].mod)
  /\ job' = [job EXCEPT ![t].step = "half"]
  /\ UNCHANGED <<now, graph, cfg, commands, sem, touches, searchVars, floor>>

IngestedSemantic(t) ==
  /\ job[t].step = "half"
  /\ sem' = SemWithout(job[t].mod)
  /\ floor' = [floor EXCEPT ![job[t].mod] = Later(@, job[t].mark)]
  /\ job' = [job EXCEPT ![t] = Resting]
  /\ UNCHANGED <<now, graph, cfg, commands, lru, touches, searchVars, late>>

\* A pipeline run by hand, or an ingestion that fails after it has written.
Publish(m) ==
  /\ NewVersion(m)
  /\ UNCHANGED <<now, cfg, commands, lru, sem, touches, searchVars, job, history>>

Tick ==
  /\ now < MaxTime
  /\ now' = now + 1
  /\ UNCHANGED <<graph, cfg, commands, lru, sem, touches, searchVars, job, history>>

Next ==
  \/ \E q \in Searches, k \in Keys : LruHit(q, k) \/ SemanticHit(q, k) \/ Miss(q, k)
  \/ \E q \in Searches : Read(q) \/ StoreLru(q) \/ StoreSemantic(q)
  \/ \E m \in Modules : InvalidateModule(m) \/ Publish(m)
  \/ \E tiers \in (SUBSET {"lru", "semantic"}) \ {{}} : Clear(tiers)
  \/ \E c \in Configs : RefreshConfig(c)
  \/ Stats
  \/ \E t \in Threads, m \in Modules : Ingest(t, m)
  \/ \E t \in Threads : IngestedLru(t) \/ IngestedSemantic(t)
  \/ Tick

Spec == Init /\ [][Next]_vars

(***************************************************************************)
(* Properties                                                              *)
(***************************************************************************)

Steps == {"new", "waiting", "found", "storing", "done", "failed"}

\* Type correctness of every variable; a search that has started has its key.
TypeOK ==
  /\ now \in Nat
  /\ graph \in Versions
  /\ cfg \in Configs
  /\ commands \in Nat
  /\ lru \in [Keys -> LruEntry \cup {None}]
  /\ sem \subseteq SemEntry
  /\ touches \in Nat
  /\ pc \in [Searches -> Steps]
  /\ req \in [Searches -> Keys \cup {None}]
  /\ seen \in [Searches -> Versions]
  /\ answer \in [Searches -> [seen : Versions, late : SUBSET Modules] \cup {None}]
  /\ job \in [Threads -> Job]
  /\ late \in [Searches -> SUBSET Modules]
  /\ floor \in Versions
  /\ \A q \in Searches : pc[q] # "new" => req[q] \in Keys

\* Once a module was invalidated, by the tool or after an ingestion, no tier
\* holds a result for it that was read before, except what a search stored that
\* had read the backends when the invalidation ran ("Invalidate all cache entries
\* for a specific module"; PRQ "Ingestion completion shall emit event for cache
\* invalidation").
FreshUnlessOvertaken ==
  /\ \A k \in Keys :
       LET m == FilterOf[k.meta] IN
       lru[k] # None /\ m # None /\ m \notin lru[k].late => lru[k].seen[m] >= floor[m]
  /\ \A e \in sem :
       LET m == FilterOf[e.key.meta] IN
       m # None /\ m \notin e.late => e.seen[m] >= floor[m]

\* No tier answers a request for a module with data older than the module's
\* last invalidation, whatever request the entry was stored for and however alike
\* the queries are, unless an overtaken search stored it ("Structured params must
\* match exactly before checking similarity").
AnswersAreFresh ==
  [][\A q \in Searches : answer'[q] # answer[q] =>
       LET m == FilterOf[req'[q].meta] IN
       m # None /\ m \notin answer'[q].late => answer'[q].seen[m] >= floor[m]]_vars

\* No sequence of insertions and shrinking configurations leaves a tier above its
\* size ("Evicts if shrunk").
SizesBounded ==
  /\ Cardinality({k \in Keys : lru[k] # None}) <= cfg.lruMax
  /\ Cardinality(sem) <= cfg.semMax
=============================================================================
