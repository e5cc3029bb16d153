-------------------------- MODULE SearchCacheProofs --------------------------
(***************************************************************************)
(* Proofs about SearchCache, for any searches, threads, modules, keys and   *)
(* configurations: types, what an invalidation leaves behind, how old an    *)
(* answer may be, and the sizes of the tiers.                               *)
(***************************************************************************)
EXTENDS SearchCache, FiniteSetTheorems, WellFoundedInduction, TLAPS

(***************************************************************************)
(* The tiers: what trimming, touching and removing do to them.             *)
(***************************************************************************)

\* Trimming keeps entries as they are.
LEMMA KeepRecentKeeps ==
  ASSUME NEW tier, NEW n, NEW k \in Keys
  PROVE  KeepRecent(tier, n)[k] \in {tier[k], None}
BY DEF KeepRecent

LEMMA KeepRecentType ==
  ASSUME NEW tier \in [Keys -> LruEntry \cup {None}], NEW n
  PROVE  KeepRecent(tier, n) \in [Keys -> LruEntry \cup {None}]
BY DEF KeepRecent

LEMMA KeepNewestKeeps ==
  ASSUME NEW entries, NEW n
  PROVE  KeepNewest(entries, n) \subseteq entries
BY DEF KeepNewest

\* An entry for the key of a search that has read the backends.
LEMMA NewEntryType ==
  ASSUME TypeOK, NEW q \in Searches
  PROVE  /\ NewEntry(q) \in LruEntry
         /\ NewEntry(q).seen = seen[q]
         /\ NewEntry(q).late = late[q]
         /\ NewEntry(q).used = touches + 1
<1>1. cfg.lruTtl \in Nat
  BY ConfigAssumption DEF TypeOK
<1> QED BY <1>1 DEF NewEntry, LruEntry, TypeOK

LEMMA TouchedType ==
  ASSUME TypeOK, NEW k \in Keys, lru[k] # None
  PROVE  [lru EXCEPT ![k].used = touches + 1] \in [Keys -> LruEntry \cup {None}]
<1>1. lru[k] \in LruEntry
  BY DEF TypeOK
<1>2. [lru[k] EXCEPT !.used = touches + 1] \in LruEntry
  BY <1>1 DEF LruEntry, TypeOK
<1> QED BY <1>2 DEF TypeOK

(***************************************************************************)
(* Types                                                                   *)
(***************************************************************************)

LEMMA TypeInit == Init => TypeOK
<1> SUFFICES ASSUME Init PROVE TypeOK
  OBVIOUS
<1>1. Unread \in Versions
  BY DEF Unread, Versions
<1>2. Resting \in Job
  BY DEF Job
<1> QED BY <1>1, <1>2 DEF Init, TypeOK, Steps

LEMMA ReceiveType ==
  ASSUME TypeOK, NEW q \in Searches, NEW k \in Keys, Receive(q, k)
  PROVE  /\ req' \in [Searches -> Keys \cup {None}]
         /\ req'[q] = k
         /\ \A r \in Searches : r # q => req'[r] = req[r]
BY DEF Receive, TypeOK

LEMMA LookupType ==
  ASSUME TypeOK, NEW q \in Searches, NEW k \in Keys,
         LruHit(q, k) \/ SemanticHit(q, k) \/ Miss(q, k)
  PROVE  TypeOK'
<1>1. CASE LruHit(q, k)
  <2>1. lru[k] \in LruEntry /\ lru[k] # None
    BY <1>1 DEF LruHit, LruLive, TypeOK
  <2>2. lru' \in [Keys -> LruEntry \cup {None}]
    BY <1>1, <2>1, TouchedType DEF LruHit
  <2>3. [seen |-> lru[k].seen, late |-> lru[k].late] \in [seen : Versions, late : SUBSET Modules]
    BY <2>1 DEF LruEntry
  <2>4. answer' \in [Searches -> [seen : Versions, late : SUBSET Modules] \cup {None}]
    BY <1>1, <2>3 DEF LruHit, Reply, TypeOK
  <2>5. pc' \in [Searches -> Steps] /\ \A r \in Searches : r # q => pc'[r] = pc[r]
    BY <1>1 DEF LruHit, Reply, TypeOK, Steps
  <2>6. \A r \in Searches : pc'[r] # "new" => req'[r] \in Keys
    BY <1>1, <2>5, ReceiveType DEF LruHit, TypeOK
  <2>7. req' \in [Searches -> Keys \cup {None}]
    BY <1>1, ReceiveType DEF LruHit
  <2>8. touches' \in Nat /\ UNCHANGED <<now, graph, cfg, commands, sem, seen, job, late, floor>>
    BY <1>1 DEF LruHit, Receive, history, TypeOK
  <2> QED BY <2>2, <2>4, <2>5, <2>6, <2>7, <2>8 DEF TypeOK
<1>2. ASSUME LruMiss(q, k)
      PROVE  /\ lru' \in [Keys -> LruEntry \cup {None}]
             /\ sem' \subseteq SemEntry
             /\ touches' \in Nat
             /\ req' \in [Searches -> Keys \cup {None}]
             /\ \A r \in Searches : r # q => req'[r] = req[r]
             /\ req'[q] = k
             /\ UNCHANGED <<now, graph, cfg, commands, seen, job, history>>
  BY <1>2, ReceiveType DEF LruMiss, SemLive, Receive, TypeOK
<1>3. CASE SemanticHit(q, k)
  <2>1. PICK e \in Best(k) : Reply(q, e)
    BY <1>3 DEF SemanticHit
  <2>2. e \in SemEntry
    BY <2>1 DEF Best, Matching, SemLive, TypeOK
  <2>3. [seen |-> e.seen, late |-> e.late] \in [seen : Versions, late : SUBSET Modules]
    BY <2>2 DEF SemEntry
  <2>4. answer' \in [Searches -> [seen : Versions, late : SUBSET Modules] \cup {None}]
    BY <2>1, <2>3 DEF Reply, TypeOK
  <2>5. pc' \in [Searches -> Steps] /\ \A r \in Searches : r # q => pc'[r] = pc[r]
    BY <2>1 DEF Reply, TypeOK, Steps
  <2> QED BY <1>2, <1>3, <2>4, <2>5 DEF SemanticHit, TypeOK, history
<1>4. CASE Miss(q, k)
  <2>1. pc' \in [Searches -> Steps] /\ \A r \in Searches : r # q => pc'[r] = pc[r]
    BY <1>4 DEF Miss, TypeOK, Steps
  <2> QED BY <1>2, <1>4, <2>1 DEF Miss, TypeOK, history
<1> QED BY <1>1, <1>3, <1>4

LEMMA ReadType ==
  ASSUME TypeOK, NEW q \in Searches, Read(q)
  PROVE  TypeOK'
BY DEF Read, TypeOK, Steps, history

LEMMA StoreType ==
  ASSUME TypeOK, NEW q \in Searches, StoreLru(q) \/ StoreSemantic(q)
  PROVE  TypeOK'
<1>1. CASE StoreLru(q)
  <2>1. [lru EXCEPT ![req[q]] = NewEntry(q)] \in [Keys -> LruEntry \cup {None}]
    BY NewEntryType DEF TypeOK
  <2>2. lru' \in [Keys -> LruEntry \cup {None}]
    BY <1>1, <2>1, KeepRecentType DEF StoreLru
  <2>3. touches' \in Nat
    BY <1>1 DEF StoreLru, TypeOK
  <2>4. pc' \in [Searches -> Steps] /\ \A r \in Searches : pc'[r] # "new" => pc[r] # "new"
    BY <1>1 DEF StoreLru, TypeOK, Steps
  <2>5. UNCHANGED <<now, graph, cfg, commands, sem, req, seen, answer, job, late, floor>>
    BY <1>1 DEF StoreLru, history
  <2> QED BY <2>2, <2>3, <2>4, <2>5 DEF TypeOK
<1>2. CASE StoreSemantic(q)
  <2>1. req[q] \in Keys
    BY <1>2 DEF StoreSemantic, TypeOK
  <2>2. [key |-> req[q], seen |-> seen[q], late |-> late[q],
         at |-> now, used |-> touches] \in SemEntry
    BY <2>1 DEF SemEntry, TypeOK
  <2>3. sem' \subseteq SemEntry
    BY <1>2, <2>2, KeepNewestKeeps DEF StoreSemantic, TypeOK
  <2>4. Unread \in Versions
    BY DEF Unread, Versions
  <2> QED BY <1>2, <2>3, <2>4 DEF StoreSemantic, TypeOK, Steps
<1> QED BY <1>1, <1>2

LEMMA RemovalType ==
  ASSUME TypeOK, NEW m \in Modules
  PROVE  /\ LruWithout(m) \in [Keys -> LruEntry \cup {None}]
         /\ SemWithout(m) \subseteq SemEntry
         /\ Overtaken(m) \in [Searches -> SUBSET Modules]
BY DEF LruWithout, SemWithout, Overtaken, TypeOK

LEMMA VersionType ==
  ASSUME TypeOK, NEW m \in Modules, NewVersion(m)
  PROVE  graph' \in Versions /\ graph'[m] \in Nat
BY DEF NewVersion, TypeOK, Versions

LEMMA JobTypes ==
  ASSUME TypeOK, NEW t \in Threads, job[t].step # "idle"
  PROVE  /\ job[t].step \in {"written", "half"}
         /\ job[t].mod \in Modules
         /\ job[t].mark \in Nat
         /\ job[t] \in [step : {"written", "half"}, mod : Modules, mark : Nat]
<1>1. job[t] \in Job
  BY DEF TypeOK
<1>2. job[t] # Resting
  BY DEF Resting
<1>3. job[t] \in [step : {"written", "half"}, mod : Modules, mark : Nat]
  BY <1>1, <1>2 DEF Job
<1> QED BY <1>3

LEMMA TypeNext == TypeOK /\ [Next]_vars => TypeOK'
<1> SUFFICES ASSUME TypeOK, [Next]_vars PROVE TypeOK'
  OBVIOUS
<1>1. ASSUME NEW q \in Searches, NEW k \in Keys,
             LruHit(q, k) \/ SemanticHit(q, k) \/ Miss(q, k)
      PROVE  TypeOK'
  BY <1>1, LookupType
<1>2. ASSUME NEW q \in Searches, Read(q) \/ StoreLru(q) \/ StoreSemantic(q)
      PROVE  TypeOK'
  BY <1>2, ReadType, StoreType
<1>3. ASSUME NEW m \in Modules, InvalidateModule(m) PROVE TypeOK'
  <2>1. floor' \in Versions
    BY <1>3 DEF InvalidateModule, TypeOK, Versions
  <2> QED BY <1>3, <2>1, RemovalType DEF InvalidateModule, TypeOK, searchVars
<1>4. ASSUME NEW m \in Modules, Publish(m) PROVE TypeOK'
  BY <1>4, VersionType DEF Publish, TypeOK, searchVars, history
<1>5. ASSUME NEW tiers, Clear(tiers) PROVE TypeOK'
  BY <1>5 DEF Clear, TypeOK, searchVars, history
<1>6. ASSUME NEW c \in Configs, RefreshConfig(c) PROVE TypeOK'
  <2>1. lru' \in [Keys -> LruEntry \cup {None}]
    BY <1>6, KeepRecentType DEF RefreshConfig, TypeOK
  <2>2. sem' \subseteq SemEntry
    BY <1>6, KeepNewestKeeps DEF RefreshConfig, TypeOK
  <2> QED BY <1>6, <2>1, <2>2 DEF RefreshConfig, TypeOK, searchVars, history
<1>7. CASE Stats
  BY <1>7 DEF Stats, SemLive, TypeOK, searchVars, history
<1>8. ASSUME NEW t \in Threads, NEW m \in Modules, Ingest(t, m) PROVE TypeOK'
  <2>1. [step |-> "written", mod |-> m, mark |-> graph'[m]] \in Job
    BY <1>8, VersionType DEF Ingest, Job
  <2> QED BY <1>8, <2>1, VersionType DEF Ingest, TypeOK, searchVars, history
<1>9. ASSUME NEW t \in Threads, IngestedLru(t) PROVE TypeOK'
  <2>1. job[t].mod \in Modules
    BY <1>9, JobTypes DEF IngestedLru
  <2>2. [job[t] EXCEPT !.step = "half"] \in Job
    <3>1. job[t] \in [step : {"written", "half"}, mod : Modules, mark : Nat]
      BY <1>9, JobTypes DEF IngestedLru
    <3> QED BY <3>1 DEF Job
  <2>3. job' \in [Threads -> Job]
    BY <1>9, <2>2 DEF IngestedLru, TypeOK
  <2> QED BY <1>9, <2>1, <2>3, RemovalType DEF IngestedLru, TypeOK, searchVars
<1>10. ASSUME NEW t \in Threads, IngestedSemantic(t) PROVE TypeOK'
  <2>1. job[t].mod \in Modules /\ job[t].mark \in Nat
    BY <1>10, JobTypes DEF IngestedSemantic
  <2>2. floor' \in Versions
    BY <1>10, <2>1 DEF IngestedSemantic, Later, TypeOK, Versions
  <2>3. job' \in [Threads -> Job]
    BY <1>10 DEF IngestedSemantic, TypeOK, Job
  <2> QED BY <1>10, <2>1, <2>2, <2>3, RemovalType
          DEF IngestedSemantic, TypeOK, searchVars
<1>11. CASE Tick
  BY <1>11 DEF Tick, TypeOK, searchVars, history
<1>12. CASE UNCHANGED vars
  BY <1>12 DEF vars, TypeOK, searchVars, history
<1> QED BY <1>1, <1>2, <1>3, <1>4, <1>5, <1>6, <1>7, <1>8, <1>9, <1>10, <1>11, <1>12
        DEF Next

\* Every variable keeps its type, and a search that has started has its key:
\* whatever the searches, threads, modules, keys, configurations and bounds.
THEOREM CacheTypeCorrect == Spec => []TypeOK
<1> QED BY TypeInit, TypeNext, PTL DEF Spec

(***************************************************************************)
(* What an invalidation leaves behind.  An entry stored for a module is as   *)
(* new as the last invalidation of the module, or was overtaken by it; so    *)
(* is what a search carries to the cache.  A thread half-way through its     *)
(* invalidation has already made that true of the LRU tier for the version   *)
(* it has written.                                                           *)
(***************************************************************************)

Published ==
  /\ \A m \in Modules : floor[m] <= graph[m]
  /\ \A t \in Threads : job[t].step # "idle" => job[t].mark <= graph[job[t].mod]

\* A search that carries a result is as new as v for m, or was overtaken.
CarriedSince(m, v) ==
  \A q \in Searches : Carrying(q) /\ m \notin late[q] => seen[q][m] >= v
LruSince(m, v) ==
  \A k \in Keys :
    lru[k] # None /\ FilterOf[k.meta] = m /\ m \notin lru[k].late => lru[k].seen[m] >= v
SemSince(m, v) ==
  \A e \in sem : FilterOf[e.key.meta] = m /\ m \notin e.late => e.seen[m] >= v

FreshInv ==
  /\ Published
  /\ \A m \in Modules :
       CarriedSince(m, floor[m]) /\ LruSince(m, floor[m]) /\ SemSince(m, floor[m])
  /\ \A t \in Threads : job[t].step = "half" =>
       CarriedSince(job[t].mod, job[t].mark) /\ LruSince(job[t].mod, job[t].mark)

LEMMA FreshInvImplies ==
  ASSUME TypeOK, FreshInv
  PROVE  FreshUnlessOvertaken
<1>1. ASSUME NEW k \in Keys, lru[k] # None, FilterOf[k.meta] # None,
             FilterOf[k.meta] \notin lru[k].late
      PROVE  lru[k].seen[FilterOf[k.meta]] >= floor[FilterOf[k.meta]]
  <2>1. FilterOf[k.meta] \in Modules
    BY <1>1, KeyAssumption DEF Keys
  <2> QED BY <1>1, <2>1 DEF FreshInv, LruSince
<1>2. ASSUME NEW e \in sem, FilterOf[e.key.meta] # None,
             FilterOf[e.key.meta] \notin e.late
      PROVE  e.seen[FilterOf[e.key.meta]] >= floor[FilterOf[e.key.meta]]
  <2>1. FilterOf[e.key.meta] \in Modules
    BY <1>2, KeyAssumption DEF TypeOK, SemEntry, Keys
  <2> QED BY <1>2, <2>1 DEF FreshInv, SemSince
<1> QED BY <1>1, <1>2 DEF FreshUnlessOvertaken

LEMMA FreshInit == Init => FreshInv
<1> SUFFICES ASSUME Init PROVE FreshInv
  OBVIOUS
<1>1. Published
  BY DEF Init, Published, Unread, Resting
<1>2. \A t \in Threads : job[t].step # "half"
  BY DEF Init, Resting
<1>3. ASSUME NEW m \in Modules
      PROVE  CarriedSince(m, floor[m]) /\ LruSince(m, floor[m]) /\ SemSince(m, floor[m])
  BY DEF Init, CarriedSince, Carrying, LruSince, SemSince
<1> QED BY <1>1, <1>2, <1>3 DEF FreshInv

\* Entries disappear or keep what they hold, the data only gets newer.
OnlyLess ==
  /\ \A k \in Keys : lru'[k] # None =>
       lru[k] # None /\ lru'[k].seen = lru[k].seen /\ lru'[k].late = lru[k].late
  /\ sem' \subseteq sem
  /\ \A q \in Searches : Carrying(q)' => Carrying(q)
  /\ UNCHANGED <<job, late, floor, seen>>
  /\ \A m \in Modules : graph[m] <= graph'[m]

LEMMA OnlyLessFresh ==
  ASSUME TypeOK, TypeOK', FreshInv, OnlyLess
  PROVE  FreshInv'
<1>1. Published'
  <2>1. \A t \in Threads : job[t].step # "idle" => job[t].mod \in Modules /\ job[t].mark \in Nat
    BY JobTypes
  <2> QED BY <2>1 DEF FreshInv, Published, OnlyLess, TypeOK, Versions
<1>2. ASSUME NEW m, NEW v, CarriedSince(m, v) PROVE CarriedSince(m, v)'
  BY <1>2 DEF OnlyLess, CarriedSince
<1>3. ASSUME NEW m, NEW v, LruSince(m, v) PROVE LruSince(m, v)'
  BY <1>3 DEF OnlyLess, LruSince
<1>4. ASSUME NEW m, NEW v, SemSince(m, v) PROVE SemSince(m, v)'
  BY <1>4 DEF OnlyLess, SemSince
<1> QED BY <1>1, <1>2, <1>3, <1>4 DEF FreshInv, OnlyLess

LEMMA LookupIsLess ==
  ASSUME TypeOK, NEW q \in Searches, NEW k \in Keys,
         LruHit(q, k) \/ SemanticHit(q, k) \/ Miss(q, k)
  PROVE  OnlyLess
<1>1. Receive(q, k)
  BY DEF LruHit, SemanticHit, Miss, LruMiss
<1>2. \A r \in Searches : Carrying(r)' => Carrying(r)
  BY DEF LruHit, SemanticHit, Miss, Reply, Carrying, TypeOK
<1>3. /\ UNCHANGED <<job, late, floor, seen, graph>>
      /\ \A m \in Modules : graph[m] <= graph'[m]
  BY <1>1 DEF Receive, history, TypeOK, Versions
<1>4. sem' \subseteq sem
  BY DEF LruHit, SemanticHit, Miss, LruMiss, SemLive
<1>5. \A j \in Keys : lru'[j] # None =>
        lru[j] # None /\ lru'[j].seen = lru[j].seen /\ lru'[j].late = lru[j].late
  <2>1. CASE LruHit(q, k)
    <3>1. lru[k] \in LruEntry /\ lru[k] # None
      BY <2>1 DEF LruHit, LruLive, TypeOK
    <3>2. lru' = [lru EXCEPT ![k] = [lru[k] EXCEPT !.used = touches + 1]]
      BY <2>1 DEF LruHit
    <3>3. [lru[k] EXCEPT !.used = touches + 1].seen = lru[k].seen
          /\ [lru[k] EXCEPT !.used = touches + 1].late = lru[k].late
      BY <3>1 DEF LruEntry
    <3> QED BY <3>1, <3>2, <3>3 DEF TypeOK
  <2>2. CASE LruMiss(q, k)
    BY <2>2 DEF LruMiss, TypeOK
  <2> QED BY <2>1, <2>2 DEF SemanticHit, Miss
<1> QED BY <1>2, <1>3, <1>4, <1>5 DEF OnlyLess

\* The backends are read after everything that was invalidated so far.
LEMMA ReadFresh ==
  ASSUME TypeOK, FreshInv, NEW q \in Searches, Read(q)
  PROVE  FreshInv'
<1>1. UNCHANGED <<lru, sem, graph, job, late, floor>>
  BY DEF Read, history
<1>2. ASSUME NEW m \in Modules, NEW v \in Nat, CarriedSince(m, v), v <= graph[m]
      PROVE  CarriedSince(m, v)'
  <2>1. ASSUME NEW r \in Searches, Carrying(r)', m \notin late'[r]
        PROVE  seen'[r][m] >= v
    <3>1. CASE r = q
      <4>1. seen'[q] = graph
        BY <2>1, <3>1 DEF Read, Carrying, TypeOK
      <4> QED BY <1>2, <3>1, <4>1 DEF TypeOK, Versions
    <3>2. CASE r # q
      <4>1. Carrying(r) /\ seen'[r] = seen[r]
        BY <2>1, <3>2 DEF Read, Carrying, TypeOK
      <4> QED BY <1>1, <1>2, <2>1, <4>1 DEF CarriedSince
    <3> QED BY <3>1, <3>2
  <2> QED BY <2>1 DEF CarriedSince
<1>3. ASSUME NEW m \in Modules
      PROVE  CarriedSince(m, floor[m])' /\ LruSince(m, floor[m])' /\ SemSince(m, floor[m])'
  <2>1. floor[m] \in Nat /\ floor[m] <= graph[m] /\ CarriedSince(m, floor[m])
    BY DEF FreshInv, Published, TypeOK, Versions
  <2>2. CarriedSince(m, floor[m])'
    BY <1>1, <1>2, <2>1 DEF CarriedSince
  <2> QED BY <1>1, <2>2 DEF FreshInv, LruSince, SemSince
<1>4. ASSUME NEW t \in Threads, job[t].step = "half"
      PROVE  CarriedSince(job[t].mod, job[t].mark)' /\ LruSince(job[t].mod, job[t].mark)'
  <2>1. /\ job[t].mod \in Modules /\ job[t].mark \in Nat
        /\ job[t].mark <= graph[job[t].mod]
        /\ CarriedSince(job[t].mod, job[t].mark)
    BY <1>4, JobTypes DEF FreshInv, Published
  <2>2. CarriedSince(job[t].mod, job[t].mark)'
    BY <1>1, <1>2, <2>1 DEF CarriedSince
  <2> QED BY <1>1, <1>4, <2>2 DEF FreshInv, LruSince
<1>5. Published'
  BY <1>1 DEF FreshInv, Published
<1> QED BY <1>1, <1>3, <1>4, <1>5 DEF FreshInv

\* What a search stores is what it carried.
LEMMA StoreLruFresh ==
  ASSUME TypeOK, FreshInv, NEW q \in Searches, StoreLru(q)
  PROVE  FreshInv'
<1>1. UNCHANGED <<sem, graph, job, late, floor, seen>>
  BY DEF StoreLru, history
<1>2. \A r \in Searches : Carrying(r)' => Carrying(r)
  BY DEF StoreLru, Carrying, TypeOK
<1>3. ASSUME NEW m, NEW v, CarriedSince(m, v) PROVE CarriedSince(m, v)'
  BY <1>1, <1>2, <1>3 DEF CarriedSince
<1>4. ASSUME NEW k \in Keys, lru'[k] # None
      PROVE  lru'[k] = lru[k] \/ (lru'[k].seen = seen[q] /\ lru'[k].late = late[q])
  <2>1. lru'[k] = [lru EXCEPT ![req[q]] = NewEntry(q)][k]
    BY <1>4, KeepRecentKeeps DEF StoreLru
  <2> QED BY <2>1, NewEntryType DEF TypeOK
<1>5. ASSUME NEW m, NEW v, CarriedSince(m, v), LruSince(m, v) PROVE LruSince(m, v)'
  <2>1. Carrying(q)
    BY DEF StoreLru, Carrying
  <2> QED BY <1>4, <1>5, <2>1 DEF CarriedSince, LruSince
<1>6. ASSUME NEW m, NEW v, SemSince(m, v) PROVE SemSince(m, v)'
  BY <1>1, <1>6 DEF SemSince
<1>7. Published'
  BY <1>1 DEF FreshInv, Published
<1> QED BY <1>1, <1>3, <1>5, <1>6, <1>7 DEF FreshInv

LEMMA StoreSemanticFresh ==
  ASSUME TypeOK, FreshInv, NEW q \in Searches, StoreSemantic(q)
  PROVE  FreshInv'
<1>1. UNCHANGED <<lru, graph, job, floor>>
  BY DEF StoreSemantic
<1>2. \A r \in Searches : Carrying(r)' =>
        Carrying(r) /\ seen'[r] = seen[r] /\ late'[r] = late[r]
  BY DEF StoreSemantic, Carrying, TypeOK
<1>3. ASSUME NEW m, NEW v, CarriedSince(m, v) PROVE CarriedSince(m, v)'
  BY <1>2, <1>3 DEF CarriedSince
<1>4. \A e \in sem' : e \in sem \/ (e.seen = seen[q] /\ e.late = late[q])
  BY KeepNewestKeeps DEF StoreSemantic
<1>5. ASSUME NEW m, NEW v, CarriedSince(m, v), SemSince(m, v) PROVE SemSince(m, v)'
  <2>1. Carrying(q)
    BY DEF StoreSemantic, Carrying
  <2> QED BY <1>4, <1>5, <2>1 DEF CarriedSince, SemSince
<1>6. ASSUME NEW m, NEW v, LruSince(m, v) PROVE LruSince(m, v)'
  BY <1>1, <1>6 DEF LruSince
<1>7. Published'
  BY <1>1 DEF FreshInv, Published
<1> QED BY <1>1, <1>3, <1>5, <1>6, <1>7 DEF FreshInv

\* An invalidation empties a tier of its module and overtakes who carries.
LEMMA RemovalFresh ==
  ASSUME TypeOK, NEW m \in Modules, NEW v
  PROVE  /\ lru' = LruWithout(m) => LruSince(m, v)'
         /\ sem' = SemWithout(m) => SemSince(m, v)'
         /\ late' = Overtaken(m) /\ UNCHANGED pc => CarriedSince(m, v)'
<1>1. ASSUME lru' = LruWithout(m) PROVE LruSince(m, v)'
  <2>1. \A k \in Keys : FilterOf[k.meta] = m => lru'[k] = None
    BY <1>1, KeyAssumption DEF LruWithout
  <2> QED BY <2>1 DEF LruSince
<1>2. ASSUME sem' = SemWithout(m) PROVE SemSince(m, v)'
  <2>1. \A e \in sem' : FilterOf[e.key.meta] # m
    BY <1>2, KeyAssumption DEF SemWithout, TypeOK, SemEntry
  <2> QED BY <2>1 DEF SemSince
<1>3. ASSUME late' = Overtaken(m), UNCHANGED pc PROVE CarriedSince(m, v)'
  <2>1. \A q \in Searches : Carrying(q)' => m \in late'[q]
    BY <1>3 DEF Overtaken, Carrying, TypeOK
  <2> QED BY <2>1 DEF CarriedSince
<1> QED BY <1>1, <1>2, <1>3

LEMMA RemovalKeeps ==
  ASSUME TypeOK, NEW m \in Modules, NEW a, NEW v, UNCHANGED <<pc, seen>>
  PROVE  /\ lru' \in {lru, LruWithout(m)} /\ LruSince(a, v) => LruSince(a, v)'
         /\ sem' \in {sem, SemWithout(m)} /\ SemSince(a, v) => SemSince(a, v)'
         /\ late' \in {late, Overtaken(m)} /\ CarriedSince(a, v) => CarriedSince(a, v)'
<1>1. ASSUME lru' \in {lru, LruWithout(m)}, LruSince(a, v) PROVE LruSince(a, v)'
  BY <1>1 DEF LruWithout, LruSince
<1>2. ASSUME sem' \in {sem, SemWithout(m)}, SemSince(a, v) PROVE SemSince(a, v)'
  BY <1>2 DEF SemWithout, SemSince
<1>3. ASSUME late' \in {late, Overtaken(m)}, CarriedSince(a, v) PROVE CarriedSince(a, v)'
  BY <1>3 DEF Overtaken, Carrying, CarriedSince, TypeOK
<1> QED BY <1>1, <1>2, <1>3

LEMMA InvalidateFresh ==
  ASSUME TypeOK, FreshInv, NEW m \in Modules, InvalidateModule(m)
  PROVE  FreshInv'
<1>1. /\ lru' = LruWithout(m) /\ sem' = SemWithout(m) /\ late' = Overtaken(m)
      /\ UNCHANGED <<pc, seen, graph, job>>
  BY DEF InvalidateModule, searchVars
<1>2. floor'[m] = graph[m] /\ \A a \in Modules : a # m => floor'[a] = floor[a]
  BY DEF InvalidateModule, TypeOK, Versions
<1>3. Published'
  BY <1>1, <1>2 DEF FreshInv, Published, TypeOK, Versions
<1>4. ASSUME NEW a \in Modules
      PROVE  CarriedSince(a, floor[a])' /\ LruSince(a, floor[a])' /\ SemSince(a, floor[a])'
  <2>1. CASE a = m
    BY <1>1, <2>1, RemovalFresh DEF CarriedSince, LruSince, SemSince
  <2>2. CASE a # m
    <3>1. CarriedSince(a, floor[a]) /\ LruSince(a, floor[a]) /\ SemSince(a, floor[a])
      BY DEF FreshInv
    <3> QED BY <1>1, <1>2, <2>2, <3>1, RemovalKeeps DEF CarriedSince, LruSince, SemSince
  <2> QED BY <2>1, <2>2
<1>5. ASSUME NEW t \in Threads, job[t].step = "half"
      PROVE  CarriedSince(job[t].mod, job[t].mark)' /\ LruSince(job[t].mod, job[t].mark)'
  <2>1. CarriedSince(job[t].mod, job[t].mark) /\ LruSince(job[t].mod, job[t].mark)
    BY <1>5 DEF FreshInv
  <2> QED BY <1>1, <2>1, RemovalKeeps DEF CarriedSince, LruSince
<1> QED BY <1>1, <1>3, <1>4, <1>5 DEF FreshInv

LEMMA IngestFresh ==
  ASSUME TypeOK, FreshInv, NEW t \in Threads, NEW m \in Modules, Ingest(t, m)
  PROVE  FreshInv'
<1>1. UNCHANGED <<lru, sem, pc, seen, late, floor>>
  BY DEF Ingest, searchVars, history
<1>2. job'[t] = [step |-> "written", mod |-> m, mark |-> graph'[m]]
      /\ \A u \in Threads : u # t => job'[u] = job[u]
  BY DEF Ingest, TypeOK
<1>3. graph'[m] \in Nat /\ \A a \in Modules : graph[a] <= graph'[a]
  BY VersionType DEF Ingest, NewVersion, TypeOK, Versions
<1>4. \A u \in Threads : job[u].step # "idle" => job[u].mod \in Modules /\ job[u].mark \in Nat
  BY JobTypes
<1>5. \A a \in Modules : floor[a] <= graph'[a]
  BY <1>3, VersionType DEF FreshInv, Published, Ingest, TypeOK, Versions
<1>6. ASSUME NEW u \in Threads, job'[u].step # "idle"
      PROVE  job'[u].mark <= graph'[job'[u].mod]
  <2>1. CASE u = t
    BY <1>2, <1>3, <2>1
  <2>2. CASE u # t
    <3>1. job[u].mark <= graph[job[u].mod]
      BY <1>2, <1>6, <2>2 DEF FreshInv, Published
    <3>2. graph' \in Versions
      BY VersionType DEF Ingest
    <3> QED BY <1>2, <1>3, <1>4, <1>6, <2>2, <3>1, <3>2 DEF TypeOK, Versions
  <2> QED BY <2>1, <2>2
<1>7. Published'
  BY <1>1, <1>5, <1>6 DEF Published
<1>8. \A u \in Threads : job'[u].step = "half" => job'[u] = job[u]
  BY <1>2
<1> QED BY <1>1, <1>7, <1>8 DEF FreshInv, CarriedSince, Carrying, LruSince, SemSince

LEMMA IngestedLruFresh ==
  ASSUME TypeOK, FreshInv, NEW t \in Threads, IngestedLru(t)
  PROVE  FreshInv'
<1> DEFINE m == job[t].mod
<1>1. m \in Modules /\ job[t].step # "idle"
  BY JobTypes DEF IngestedLru
<1>2. /\ lru' = LruWithout(m) /\ late' = Overtaken(m)
      /\ UNCHANGED <<sem, pc, seen, graph, floor>>
  BY DEF IngestedLru, searchVars
<1>3. /\ job'[t].mod = m /\ job'[t].mark = job[t].mark
      /\ \A u \in Threads : u # t => job'[u] = job[u]
  <2>1. job[t] \in [step : {"written", "half"}, mod : Modules, mark : Nat]
    BY <1>1, JobTypes
  <2> QED BY <2>1 DEF IngestedLru, TypeOK
<1>4. Published'
  BY <1>1, <1>2, <1>3 DEF FreshInv, Published
<1>5. ASSUME NEW a \in Modules
      PROVE  CarriedSince(a, floor[a])' /\ LruSince(a, floor[a])' /\ SemSince(a, floor[a])'
  <2>1. CarriedSince(a, floor[a]) /\ LruSince(a, floor[a]) /\ SemSince(a, floor[a])
    BY DEF FreshInv
  <2> QED BY <1>1, <1>2, <2>1, RemovalKeeps DEF CarriedSince, LruSince, SemSince
<1>6. ASSUME NEW u \in Threads, job'[u].step = "half"
      PROVE  CarriedSince(job[u].mod, job[u].mark)' /\ LruSince(job[u].mod, job[u].mark)'
  <2>1. CASE u = t
    BY <1>1, <1>2, <1>3, <2>1, RemovalFresh DEF CarriedSince, LruSince
  <2>2. CASE u # t
    <3>1. CarriedSince(job[u].mod, job[u].mark) /\ LruSince(job[u].mod, job[u].mark)
      BY <1>3, <1>6, <2>2 DEF FreshInv
    <3> QED BY <1>1, <1>2, <1>3, <2>2, <3>1, RemovalKeeps DEF CarriedSince, LruSince
  <2> QED BY <2>1, <2>2
<1> QED BY <1>4, <1>5, <1>6 DEF FreshInv

LEMMA IngestedSemanticFresh ==
  ASSUME TypeOK, FreshInv, NEW t \in Threads, IngestedSemantic(t)
  PROVE  FreshInv'
<1> DEFINE m == job[t].mod
<1>1. m \in Modules /\ job[t].step = "half" /\ job[t].mark \in Nat
  BY JobTypes DEF IngestedSemantic
<1>2. sem' = SemWithout(m) /\ UNCHANGED <<lru, late, pc, seen, graph>>
  BY DEF IngestedSemantic, searchVars
<1>3. /\ floor'[m] \in {floor[m], job[t].mark}
      /\ \A a \in Modules : a # m => floor'[a] = floor[a]
  BY <1>1 DEF IngestedSemantic, Later, TypeOK, Versions
<1>4. job'[t] = Resting /\ \A u \in Threads : u # t => job'[u] = job[u]
  BY DEF IngestedSemantic, TypeOK
<1>5. Published'
  BY <1>1, <1>2, <1>3, <1>4 DEF FreshInv, Published, Resting
<1>6. ASSUME NEW a \in Modules
      PROVE  CarriedSince(a, floor[a])' /\ LruSince(a, floor[a])' /\ SemSince(a, floor[a])'
  <2>1. CarriedSince(a, floor'[a]) /\ LruSince(a, floor'[a])
    BY <1>1, <1>3 DEF FreshInv
  <2>2. CarriedSince(a, floor[a])' /\ LruSince(a, floor[a])'
    BY <1>2, <2>1 DEF CarriedSince, Carrying, LruSince
  <2>3. SemSince(a, floor[a])'
    <3>1. CASE a = m
      BY <1>1, <1>2, <3>1, RemovalFresh DEF SemSince
    <3>2. CASE a # m
      BY <1>1, <1>2, <1>3, <3>2, RemovalKeeps DEF FreshInv, SemSince
    <3> QED BY <3>1, <3>2
  <2> QED BY <2>2, <2>3
<1>7. ASSUME NEW u \in Threads, job'[u].step = "half"
      PROVE  CarriedSince(job[u].mod, job[u].mark)' /\ LruSince(job[u].mod, job[u].mark)'
  <2>1. u # t /\ job'[u] = job[u]
    BY <1>4, <1>7 DEF Resting
  <2> QED BY <1>2, <1>7, <2>1 DEF FreshInv, CarriedSince, Carrying, LruSince
<1> QED BY <1>5, <1>6, <1>7 DEF FreshInv

LEMMA FreshNext == TypeOK /\ FreshInv /\ [Next]_vars => FreshInv'
<1> SUFFICES ASSUME TypeOK, FreshInv, [Next]_vars PROVE FreshInv'
  OBVIOUS
<1>0. TypeOK'
  BY TypeNext
<1>1. ASSUME NEW q \in Searches, NEW k \in Keys,
             LruHit(q, k) \/ SemanticHit(q, k) \/ Miss(q, k)
      PROVE  FreshInv'
  BY <1>0, <1>1, LookupIsLess, OnlyLessFresh
<1>2. ASSUME NEW q \in Searches, Read(q) \/ StoreLru(q) \/ StoreSemantic(q)
      PROVE  FreshInv'
  BY <1>2, ReadFresh, StoreLruFresh, StoreSemanticFresh
<1>3. ASSUME NEW m \in Modules, InvalidateModule(m) PROVE FreshInv'
  BY <1>3, InvalidateFresh
<1>4. ASSUME NEW t \in Threads, NEW m \in Modules, Ingest(t, m) PROVE FreshInv'
  BY <1>4, IngestFresh
<1>5. ASSUME NEW t \in Threads, IngestedLru(t) \/ IngestedSemantic(t) PROVE FreshInv'
  BY <1>5, IngestedLruFresh, IngestedSemanticFresh
<1>6. ASSUME NEW m \in Modules, Publish(m) PROVE OnlyLess
  BY <1>6, VersionType
     DEF Publish, NewVersion, OnlyLess, Carrying, TypeOK, Versions, searchVars, history
<1>7. ASSUME UNCHANGED <<graph, searchVars, job, history>>,
             sem' \subseteq sem, \A k \in Keys : lru'[k] \in {lru[k], None}
      PROVE  OnlyLess
  BY <1>7 DEF OnlyLess, Carrying, TypeOK, Versions, searchVars, history
<1>8. ASSUME NEW tiers, Clear(tiers) PROVE OnlyLess
  BY <1>7, <1>8 DEF Clear
<1>9. ASSUME NEW c, RefreshConfig(c) PROVE OnlyLess
  BY <1>7, <1>9, KeepRecentKeeps, KeepNewestKeeps DEF RefreshConfig
<1>10. CASE Stats
  BY <1>0, <1>7, OnlyLessFresh, <1>10 DEF Stats, SemLive
<1>11. CASE Tick
  BY <1>0, <1>7, OnlyLessFresh, <1>11 DEF Tick
<1>12. CASE UNCHANGED vars
  BY <1>0, <1>7, OnlyLessFresh, <1>12 DEF vars
<1> QED BY <1>0, <1>1, <1>2, <1>3, <1>4, <1>5, <1>6, <1>8, <1>9, <1>10, <1>11, <1>12,
           OnlyLessFresh DEF Next

\* However searches, ingestions and invalidations interleave, an invalidation
\* leaves no older result for its module in either tier, except what a search
\* stored that had read the backends when it ran.
THEOREM InvalidationsLeaveFreshEntries == Spec => []FreshUnlessOvertaken
<1>1. TypeOK /\ FreshInv => FreshUnlessOvertaken
  BY FreshInvImplies
<1> QED BY <1>1, TypeInit, TypeNext, FreshInit, FreshNext, PTL DEF Spec

\* A lookup gives what an entry of the request's own module filter holds.
LEMMA LookupIsFresh ==
  ASSUME TypeOK, FreshUnlessOvertaken, NEW q \in Searches, NEW k \in Keys,
         LruHit(q, k) \/ SemanticHit(q, k) \/ Miss(q, k)
  PROVE  /\ \A r \in Searches \ {q} : answer'[r] = answer[r]
         /\ answer'[q] # answer[q] =>
              LET m == FilterOf[req'[q].meta] IN
              m # None /\ m \notin answer'[q].late => answer'[q].seen[m] >= floor[m]
<1> DEFINE m == FilterOf[k.meta]
<1>1. Receive(q, k)
  BY DEF LruHit, SemanticHit, Miss, LruMiss
<1>2. req'[q] = k
  BY <1>1, ReceiveType
<1>3. CASE LruHit(q, k)
  <2>1. /\ lru[k] # None /\ \A r \in Searches \ {q} : answer'[r] = answer[r]
        /\ answer'[q] = [seen |-> lru[k].seen, late |-> lru[k].late]
    BY <1>3 DEF LruHit, LruLive, Reply, TypeOK
  <2>2. m # None /\ m \notin lru[k].late => lru[k].seen[m] >= floor[m]
    BY <2>1 DEF FreshUnlessOvertaken
  <2> QED BY <1>2, <2>1, <2>2
<1>4. CASE SemanticHit(q, k)
  <2>1. PICK e \in Best(k) : Reply(q, e)
    BY <1>4 DEF SemanticHit
  <2>2. e \in sem /\ e.key.meta = k.meta
    BY DEF Best, Matching, SemLive
  <2>3. /\ answer'[q] = [seen |-> e.seen, late |-> e.late]
        /\ \A r \in Searches \ {q} : answer'[r] = answer[r]
    BY <2>1 DEF Reply, TypeOK
  <2>4. m # None /\ m \notin e.late => e.seen[m] >= floor[m]
    BY <2>2 DEF FreshUnlessOvertaken
  <2> QED BY <1>2, <2>3, <2>4
<1>5. CASE Miss(q, k)
  BY <1>5 DEF Miss
<1> QED BY <1>3, <1>4, <1>5

\* However searches, ingestions and invalidations interleave, and whatever counts
\* as similar: a request for a module is never answered from a tier with data
\* older than the module's last invalidation, but for what an overtaken search
\* stored.
THEOREM RequestsGetFreshAnswers == Spec => AnswersAreFresh
<1> DEFINE Step == \A q \in Searches : answer'[q] # answer[q] =>
             LET m == FilterOf[req'[q].meta] IN
             m # None /\ m \notin answer'[q].late => answer'[q].seen[m] >= floor[m]
<1>1. ASSUME TypeOK, FreshUnlessOvertaken, [Next]_vars PROVE Step
  <2>1. ASSUME NEW q \in Searches, NEW k \in Keys,
               LruHit(q, k) \/ SemanticHit(q, k) \/ Miss(q, k)
        PROVE  Step
    BY <1>1, <2>1, LookupIsFresh
  <2>2. CASE UNCHANGED answer
    BY <2>2
  <2> QED BY <1>1, <2>1, <2>2
          DEF Next, Read, StoreLru, StoreSemantic, InvalidateModule, Publish, Clear,
              RefreshConfig, Stats, Ingest, IngestedLru, IngestedSemantic, Tick, vars,
              searchVars
<1>2. TypeOK /\ FreshUnlessOvertaken /\ [Next]_vars => [Step]_vars
  BY <1>1
<1> QED BY <1>2, CacheTypeCorrect, InvalidationsLeaveFreshEntries, PTL
        DEF Spec, AnswersAreFresh

(***************************************************************************)
(* Sizes.  Both tiers keep the n entries that were inserted or touched last. *)
(* That leaves at most n because no two entries of a tier have the same     *)
(* place in the order: a touch takes a new place, and only one search at a  *)
(* time is between its two insertions.                                      *)
(***************************************************************************)

\* Every set of naturals that is not empty has a least element.
LEMMA LeastOf ==
  ASSUME NEW T, T \subseteq Nat, T # {}
  PROVE  \E x \in T : \A y \in T : x <= y
<1>1. PICK x \in T : \A y \in T : ~(<<y, x>> \in OpToRel(<, Nat))
  BY NatLessThanWellFounded, WFMin
<1>2. ASSUME NEW y \in T PROVE x <= y
  <2>1. <<y, x>> \in Nat \X Nat
    BY <1>1
  <2>2. ~(y < x)
    BY <1>1, <2>1 DEF OpToRel
  <2> QED BY <2>1, <2>2
<1> QED BY <1>1, <1>2

\* Of a finite set ordered by place, the members with less than n above them are
\* at most n.
LEMMA TopIsSmall ==
  ASSUME NEW S, IsFiniteSet(S), NEW place \in [S -> Nat], NEW n \in Nat,
         \A x, y \in S : place[x] = place[y] => x = y
  PROVE  LET Top == {x \in S : Cardinality({y \in S : place[y] > place[x]}) < n}
         IN IsFiniteSet(Top) /\ Cardinality(Top) <= n
<1> DEFINE Above(x) == {y \in S : place[y] > place[x]}
           Top == {x \in S : Cardinality(Above(x)) < n}
<1> SUFFICES IsFiniteSet(Top) /\ Cardinality(Top) <= n
  OBVIOUS
<1>1. Top \subseteq S
  OBVIOUS
<1>2. \A x \in Top : Cardinality(Above(x)) < n
  OBVIOUS
<1>3. \A x \in S : IsFiniteSet(Above(x)) /\ Cardinality(Above(x)) \in Nat
  BY FS_Subset, FS_CardinalityType
<1> HIDE DEF Top
<1>4. IsFiniteSet(Top) /\ Cardinality(Top) \in Nat
  BY <1>1, FS_Subset, FS_CardinalityType
<1>5. CASE Top = {}
  BY <1>5, FS_EmptySet
<1>6. CASE Top # {}
  <2> DEFINE Places == {place[x] : x \in Top}
  <2>1. Places \subseteq Nat /\ Places # {}
    BY <1>1, <1>6
  <2>2. PICK v \in Places : \A w \in Places : v <= w
    BY <2>1, LeastOf
  <2>3. PICK x \in Top : place[x] = v
    BY <2>2
  <2>4. ASSUME NEW y \in Top \ {x} PROVE y \in Above(x)
    <3>1. place[y] \in Places /\ place[x] <= place[y]
      BY <2>2, <2>3
    <3>2. x \in S /\ y \in S /\ place[x] # place[y]
      BY <1>1, <2>3, <2>4
    <3> QED BY <3>1, <3>2
  <2>5. Cardinality(Above(x)) \in Nat /\ IsFiniteSet(Above(x)) /\ Cardinality(Above(x)) < n
    BY <1>1, <1>2, <1>3, <2>3
  <2> HIDE DEF Above
  <2>6. Cardinality(Top \ {x}) = Cardinality(Top) - 1
    BY <1>4, <2>3, FS_RemoveElement
  <2>7. Cardinality(Top \ {x}) <= Cardinality(Above(x))
    BY <2>4, <2>5, FS_Subset
  <2> QED BY <1>4, <2>5, <2>6, <2>7
<1> QED BY <1>5, <1>6

Stored(tier) == {k \in Keys : tier[k] # None}

\* The entries of a tier are finitely many, each with its own place.
LruOrdered(tier) ==
  /\ IsFiniteSet(Stored(tier))
  /\ \A k \in Stored(tier) : tier[k].used \in Nat
  /\ \A k, j \in Stored(tier) : tier[k].used = tier[j].used => k = j
SemOrdered(entries) ==
  /\ IsFiniteSet(entries)
  /\ \A e \in entries : e.used \in Nat
  /\ \A d, e \in entries : d.used = e.used => d = e

LEMMA KeepRecentBounds ==
  ASSUME NEW tier, LruOrdered(tier), NEW n \in Nat
  PROVE  Cardinality(Stored(KeepRecent(tier, n))) <= n
<1> DEFINE S == Stored(tier)
           place == [k \in S |-> tier[k].used]
           Top == {x \in S : Cardinality({y \in S : place[y] > place[x]}) < n}
<1>1. IsFiniteSet(S) /\ place \in [S -> Nat] /\ \A x, y \in S : place[x] = place[y] => x = y
  BY DEF LruOrdered
<1>2. IsFiniteSet(Top) /\ Cardinality(Top) <= n
  <2> HIDE DEF S, place
  <2> QED BY <1>1, TopIsSmall
<1>3. ASSUME NEW k \in S
      PROVE  {y \in S : place[y] > place[k]} = {j \in S : tier[j].used > tier[k].used}
  OBVIOUS
<1>4. Stored(KeepRecent(tier, n)) \subseteq Top
  <2>1. ASSUME NEW k \in Stored(KeepRecent(tier, n))
        PROVE  k \in S /\ Cardinality({j \in S : tier[j].used > tier[k].used}) < n
    BY <2>1 DEF Stored, KeepRecent
  <2> QED BY <1>3, <2>1
<1> HIDE DEF Top
<1>5. Cardinality(Stored(KeepRecent(tier, n))) <= Cardinality(Top)
      /\ Cardinality(Stored(KeepRecent(tier, n))) \in Nat /\ Cardinality(Top) \in Nat
  BY <1>2, <1>4, FS_Subset, FS_CardinalityType
<1> QED BY <1>2, <1>5

LEMMA KeepNewestBounds ==
  ASSUME NEW entries, SemOrdered(entries), NEW n \in Nat
  PROVE  Cardinality(KeepNewest(entries, n)) <= n
<1> DEFINE place == [e \in entries |-> e.used]
           Top == {x \in entries : Cardinality({y \in entries : place[y] > place[x]}) < n}
<1>1. /\ IsFiniteSet(entries) /\ place \in [entries -> Nat]
      /\ \A x, y \in entries : place[x] = place[y] => x = y
  BY DEF SemOrdered
<1>2. IsFiniteSet(Top) /\ Cardinality(Top) <= n
  <2> HIDE DEF place
  <2> QED BY <1>1, TopIsSmall
<1>3. ASSUME NEW e \in entries
      PROVE  {y \in entries : place[y] > place[e]} = {d \in entries : d.used > e.used}
  OBVIOUS
<1>4. KeepNewest(entries, n) = Top
  BY <1>3 DEF KeepNewest
<1> QED BY <1>2, <1>4

\* No entry has a place that is still to be given; while a search is between its
\* two insertions, its place is not taken in the semantic tier either.
Storing(q) == pc[q] = "storing"
Placed ==
  /\ LruOrdered(lru) /\ \A k \in Stored(lru) : lru[k].used <= touches
  /\ SemOrdered(sem) /\ \A e \in sem : e.used <= touches
  /\ \A q, r \in Searches : Storing(q) /\ Storing(r) => q = r
  /\ \A q \in Searches : Storing(q) => \A e \in sem : e.used < touches

LEMMA PlacedInit == Init => Placed /\ SizesBounded
<1> SUFFICES ASSUME Init PROVE Placed /\ SizesBounded
  OBVIOUS
<1>1. Stored(lru) = {} /\ sem = {}
  BY DEF Init, Stored
<1>2. Cardinality({}) = 0 /\ IsFiniteSet({})
  BY FS_EmptySet
<1>3. cfg.lruMax \in Nat /\ cfg.semMax \in Nat
  BY ConfigAssumption DEF Init
<1>4. SizesBounded
  BY <1>1, <1>2, <1>3 DEF SizesBounded, Stored
<1>5. \A q \in Searches : ~Storing(q)
  BY DEF Init, Storing
<1> QED BY <1>1, <1>2, <1>4, <1>5 DEF Placed, LruOrdered, SemOrdered

LEMMA SizeTypes ==
  ASSUME TypeOK
  PROVE  cfg.lruMax \in Nat \ {0} /\ cfg.semMax \in Nat \ {0} /\ touches \in Nat
BY ConfigAssumption DEF TypeOK

\* In this step tiers only lose entries, and no search begins to store.
Loses ==
  /\ \A k \in Keys : lru'[k] \in {lru[k], None}
  /\ sem' \subseteq sem
  /\ UNCHANGED touches
  /\ \A q \in Searches : Storing(q)' => Storing(q)

LEMMA LosesPlaced ==
  ASSUME Placed, Loses
  PROVE  Placed' /\ Stored(lru') \subseteq Stored(lru)
<1>1. Stored(lru') \subseteq Stored(lru) /\ \A k \in Stored(lru') : lru'[k] = lru[k]
  BY DEF Loses, Stored
<1>2. IsFiniteSet(Stored(lru')) /\ IsFiniteSet(sem')
  BY <1>1, FS_Subset DEF Placed, LruOrdered, SemOrdered, Loses
<1>3. LruOrdered(lru') /\ \A k \in Stored(lru') : lru'[k].used <= touches'
  BY <1>1, <1>2 DEF Placed, LruOrdered, Loses
<1>4. SemOrdered(sem') /\ \A e \in sem' : e.used <= touches'
  BY <1>2 DEF Placed, SemOrdered, Loses
<1>5. /\ \A q, r \in Searches : Storing(q)' /\ Storing(r)' => q = r
      /\ \A q \in Searches : Storing(q)' => \A e \in sem' : e.used < touches'
  BY DEF Placed, Loses
<1> QED BY <1>1, <1>3, <1>4, <1>5 DEF Placed

LEMMA LosesBounded ==
  ASSUME TypeOK, Placed, SizesBounded, Loses, UNCHANGED cfg
  PROVE  Placed' /\ SizesBounded'
<1>1. Placed' /\ Stored(lru') \subseteq Stored(lru)
  BY LosesPlaced
<1>2. IsFiniteSet(Stored(lru)) /\ IsFiniteSet(sem) /\ IsFiniteSet(Stored(lru')) /\ IsFiniteSet(sem')
  BY <1>1 DEF Placed, LruOrdered, SemOrdered
<1>3. /\ Cardinality(Stored(lru')) <= Cardinality(Stored(lru))
      /\ Cardinality(sem') <= Cardinality(sem)
  BY <1>1, <1>2, FS_Subset DEF Loses
<1>4. /\ Cardinality(Stored(lru)) \in Nat /\ Cardinality(Stored(lru')) \in Nat
      /\ Cardinality(sem) \in Nat /\ Cardinality(sem') \in Nat
  BY <1>2, FS_CardinalityType
<1>5. Cardinality(Stored(lru)) <= cfg.lruMax /\ Cardinality(sem) <= cfg.semMax
  BY DEF SizesBounded, Stored
<1>6. Cardinality(Stored(lru')) <= cfg'.lruMax /\ Cardinality(sem') <= cfg'.semMax
  BY <1>3, <1>4, <1>5, SizeTypes
<1> QED BY <1>1, <1>6 DEF SizesBounded, Stored

\* A hit moves its entry to the last place.
LEMMA HitPlaced ==
  ASSUME TypeOK, Placed, SizesBounded, NEW q \in Searches, NEW k \in Keys, LruHit(q, k)
  PROVE  Placed' /\ SizesBounded'
<1>1. lru[k] \in LruEntry /\ lru[k] # None
  BY DEF LruHit, LruLive, TypeOK
<1>2. lru' = [lru EXCEPT ![k] = [lru[k] EXCEPT !.used = touches + 1]]
      /\ touches' = touches + 1 /\ UNCHANGED <<sem, cfg>>
  BY DEF LruHit, Receive
<1>3. [lru[k] EXCEPT !.used = touches + 1] \in LruEntry
      /\ [lru[k] EXCEPT !.used = touches + 1].used = touches + 1
  BY <1>1, SizeTypes DEF LruEntry
<1>4. lru'[k].used = touches + 1 /\ lru'[k] # None
      /\ \A j \in Keys : j # k => lru'[j] = lru[j]
  BY <1>2, <1>3, NoneAssumption DEF TypeOK
<1>5. Stored(lru') = Stored(lru)
  BY <1>1, <1>4 DEF Stored
<1>6. LruOrdered(lru') /\ \A j \in Stored(lru') : lru'[j].used <= touches'
  <2>1. \A j \in Stored(lru) : j \in Keys /\ lru[j].used \in Nat /\ lru[j].used <= touches
    BY DEF Placed, LruOrdered, Stored
  <2>2. touches \in Nat /\ touches' = touches + 1
    BY <1>2, SizeTypes
  <2>3. \A j \in Stored(lru) : IF j = k THEN lru'[j].used = touches + 1
                              ELSE lru'[j].used = lru[j].used
    BY <1>4, <2>1
  <2>4. \A j \in Stored(lru) : lru'[j].used \in Nat /\ lru'[j].used <= touches'
    BY <2>1, <2>2, <2>3
  <2>5. ASSUME NEW i \in Stored(lru), NEW j \in Stored(lru), lru'[i].used = lru'[j].used
        PROVE  i = j
    <3>1. lru[i].used = lru[j].used => i = j
      BY DEF Placed, LruOrdered
    <3> QED BY <2>1, <2>2, <2>3, <2>5, <3>1
  <2>6. IsFiniteSet(Stored(lru'))
    BY <1>5 DEF Placed, LruOrdered
  <2> QED BY <1>5, <2>4, <2>5, <2>6 DEF LruOrdered
<1>7. SemOrdered(sem') /\ \A e \in sem' : e.used <= touches'
  BY <1>2, SizeTypes DEF Placed, SemOrdered
<1>8. \A r \in Searches : ~Storing(r)'
  BY DEF LruHit, Receive, Reply, LoopFree, Storing, TypeOK
<1>9. SizesBounded'
  BY <1>2, <1>5 DEF SizesBounded, Stored
<1> QED BY <1>6, <1>7, <1>8, <1>9 DEF Placed

LEMMA MissLoses ==
  ASSUME TypeOK, NEW q \in Searches, NEW k \in Keys, SemanticHit(q, k) \/ Miss(q, k)
  PROVE  Loses /\ UNCHANGED cfg
<1>1. LruMiss(q, k)
  BY DEF SemanticHit, Miss
<1>2. \A r \in Searches : Storing(r)' => Storing(r)
  BY DEF SemanticHit, Miss, Reply, Storing, TypeOK
<1> QED BY <1>1, <1>2 DEF LruMiss, SemLive, Receive, Loses, TypeOK

\* An insertion takes the last place of the LRU tier and reserves it in the other.
LEMMA StoreLruPlaced ==
  ASSUME TypeOK, Placed, SizesBounded, NEW q \in Searches, StoreLru(q)
  PROVE  Placed' /\ SizesBounded'
<1> DEFINE tier == [lru EXCEPT ![req[q]] = NewEntry(q)]
<1>1. req[q] \in Keys
  BY DEF StoreLru, TypeOK
<1>2. lru' = KeepRecent(tier, cfg.lruMax) /\ touches' = touches + 1 /\ UNCHANGED <<sem, cfg>>
  BY DEF StoreLru
<1>3. tier[req[q]].used = touches + 1 /\ \A j \in Keys : j # req[q] => tier[j] = lru[j]
  BY <1>1, NewEntryType DEF TypeOK
<1> HIDE DEF tier
<1>4. Stored(tier) \subseteq Stored(lru) \cup {req[q]}
  BY <1>3 DEF Stored
<1>5. IsFiniteSet(Stored(tier))
  <2>1. IsFiniteSet(Stored(lru) \cup {req[q]})
    BY FS_AddElement DEF Placed, LruOrdered
  <2> QED BY <1>4, <2>1, FS_Subset
<1>6. LruOrdered(tier) /\ \A k \in Stored(tier) : tier[k].used <= touches + 1
  BY <1>3, <1>4, <1>5, SizeTypes DEF Placed, LruOrdered, Stored
<1>7. Cardinality(Stored(lru')) <= cfg.lruMax
  BY <1>2, <1>6, SizeTypes, KeepRecentBounds
<1>8. Stored(lru') \subseteq Stored(tier) /\ \A k \in Stored(lru') : lru'[k] = tier[k]
  BY <1>2, KeepRecentKeeps DEF Stored
<1>9. IsFiniteSet(Stored(lru'))
  BY <1>5, <1>8, FS_Subset
<1>10. LruOrdered(lru') /\ \A k \in Stored(lru') : lru'[k].used <= touches'
  BY <1>2, <1>6, <1>8, <1>9 DEF LruOrdered
<1>11. SemOrdered(sem') /\ \A e \in sem' : e.used < touches' /\ e.used <= touches'
  BY <1>2, SizeTypes DEF Placed, SemOrdered
<1>12. \A r \in Searches : Storing(r)' => r = q
  BY DEF StoreLru, LoopFree, Storing, TypeOK
<1>13. SizesBounded'
  BY <1>2, <1>7 DEF SizesBounded, Stored
<1> QED BY <1>10, <1>11, <1>12, <1>13 DEF Placed

LEMMA StoreSemanticPlaced ==
  ASSUME TypeOK, Placed, SizesBounded, NEW q \in Searches, StoreSemantic(q)
  PROVE  Placed' /\ SizesBounded'
<1> DEFINE new == [key |-> req[q], seen |-> seen[q], late |-> late[q],
                   at |-> now, used |-> touches]
           entries == sem \cup {new}
<1>1. sem' = KeepNewest(entries, cfg.semMax) /\ UNCHANGED <<lru, touches, cfg>>
  BY DEF StoreSemantic
<1>2. new.used = touches /\ \A e \in sem : e.used < touches
  BY DEF StoreSemantic, Storing, Placed
<1> HIDE DEF new
<1>3. IsFiniteSet(entries)
  BY FS_AddElement DEF Placed, SemOrdered
<1>4. SemOrdered(entries) /\ \A e \in entries : e.used <= touches
  BY <1>2, <1>3, SizeTypes DEF Placed, SemOrdered
<1> HIDE DEF entries
<1>5. Cardinality(sem') <= cfg.semMax
  BY <1>1, <1>4, SizeTypes, KeepNewestBounds
<1>6. sem' \subseteq entries
  BY <1>1, KeepNewestKeeps
<1>7. IsFiniteSet(sem')
  BY <1>3, <1>6, FS_Subset
<1>8. SemOrdered(sem') /\ \A e \in sem' : e.used <= touches'
  BY <1>1, <1>4, <1>6, <1>7 DEF SemOrdered
<1>9. \A r \in Searches : ~Storing(r)'
  BY DEF StoreSemantic, Storing, Placed, TypeOK
<1>10. SizesBounded'
  BY <1>1, <1>5 DEF SizesBounded
<1> QED BY <1>1, <1>8, <1>9, <1>10 DEF Placed

LEMMA RefreshPlaced ==
  ASSUME TypeOK, Placed, SizesBounded, NEW c \in Configs, RefreshConfig(c)
  PROVE  Placed' /\ SizesBounded'
<1>1. /\ cfg' = c /\ lru' = KeepRecent(lru, c.lruMax) /\ sem' = KeepNewest(sem, c.semMax)
      /\ UNCHANGED <<touches, pc>>
  BY DEF RefreshConfig, searchVars
<1>2. Loses
  BY <1>1, KeepRecentKeeps, KeepNewestKeeps DEF Loses, Storing
<1>3. c.lruMax \in Nat /\ c.semMax \in Nat
  BY ConfigAssumption
<1>4. Cardinality(Stored(lru')) <= cfg'.lruMax /\ Cardinality(sem') <= cfg'.semMax
  BY <1>1, <1>3, KeepRecentBounds, KeepNewestBounds DEF Placed
<1> QED BY <1>2, <1>4, LosesPlaced DEF SizesBounded, Stored

LEMMA PlacedNext ==
  TypeOK /\ Placed /\ SizesBounded /\ [Next]_vars => Placed' /\ SizesBounded'
<1> SUFFICES ASSUME TypeOK, Placed, SizesBounded, [Next]_vars
             PROVE  Placed' /\ SizesBounded'
  OBVIOUS
<1>1. ASSUME NEW q \in Searches, NEW k \in Keys,
             LruHit(q, k) \/ SemanticHit(q, k) \/ Miss(q, k)
      PROVE  Placed' /\ SizesBounded'
  BY <1>1, HitPlaced, MissLoses, LosesBounded
<1>2. ASSUME NEW q \in Searches, Read(q) PROVE Loses /\ UNCHANGED cfg
  BY <1>2 DEF Read, Loses, Storing, TypeOK
<1>3. ASSUME NEW q \in Searches, StoreLru(q) \/ StoreSemantic(q)
      PROVE  Placed' /\ SizesBounded'
  BY <1>3, StoreLruPlaced, StoreSemanticPlaced
<1>4. ASSUME NEW c \in Configs, RefreshConfig(c) PROVE Placed' /\ SizesBounded'
  BY <1>4, RefreshPlaced
<1>5. ASSUME UNCHANGED <<cfg, touches, searchVars>>,
             sem' \subseteq sem, \A k \in Keys : lru'[k] \in {lru[k], None}
      PROVE  Loses /\ UNCHANGED cfg
  BY <1>5 DEF Loses, Storing, searchVars
<1>6. ASSUME NEW m \in Modules, InvalidateModule(m) \/ Publish(m)
      PROVE  Loses /\ UNCHANGED cfg
  BY <1>5, <1>6 DEF InvalidateModule, Publish, LruWithout, SemWithout
<1>7. ASSUME NEW tiers, Clear(tiers) PROVE Loses /\ UNCHANGED cfg
  BY <1>5, <1>7 DEF Clear
<1>8. ASSUME Stats \/ Tick \/ UNCHANGED vars PROVE Loses /\ UNCHANGED cfg
  BY <1>5, <1>8 DEF Stats, SemLive, Tick, vars
<1>9. ASSUME NEW t \in Threads, NEW m \in Modules, Ingest(t, m)
      PROVE  Loses /\ UNCHANGED cfg
  BY <1>5, <1>9 DEF Ingest
<1>10. ASSUME NEW t \in Threads, IngestedLru(t) \/ IngestedSemantic(t)
       PROVE  Loses /\ UNCHANGED cfg
  BY <1>5, <1>10 DEF IngestedLru, IngestedSemantic, LruWithout, SemWithout
<1> QED BY <1>1, <1>2, <1>3, <1>4, <1>6, <1>7, <1>8, <1>9, <1>10, LosesBounded DEF Next

\* Whatever is inserted, touched, invalidated and reconfigured in whatever order,
\* no tier holds more entries than its configured size.
THEOREM TiersStayBounded == Spec => []SizesBounded
<1> QED BY TypeInit, TypeNext, PlacedInit, PlacedNext, PTL DEF Spec
=============================================================================
