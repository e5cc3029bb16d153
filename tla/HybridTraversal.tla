--------------------------- MODULE HybridTraversal ---------------------------
(***************************************************************************)
(* HybridTraversal.traverse (ephemeral_sandbox.py), which get_neighbors     *)
(* calls for more than one hop in a session with a sandbox: a breadth-first *)
(* search of the sandbox's graph that goes on in the production graph       *)
(* wherever the sandbox has no further link.                               *)
(*                                                                         *)
(* The tool does not await, so an answer is a function of one state of the  *)
(* uploads.  Answers are below the limit on nodes; links are calls.        *)
(***************************************************************************)
EXTENDS SandboxUploads

CONSTANT MaxDepth  \* hops a client asks for

ASSUME DepthAssumption == MaxDepth \in Nat

Directions == {"out", "in", "both"}

\* The other ends of the links that the direction admits.
Linked(links, id, direction) ==
  {l[2] : l \in {x \in links : direction # "in" /\ x[1] = id}}
    \cup {l[1] : l \in {x \in links : direction # "out" /\ x[2] = id}}

\* What a search from start finds in at most n hops.
Within(links, start, direction, n) ==
  LET found[k \in 0 .. n] ==
        IF k = 0 THEN {start}
        ELSE found[k - 1] \cup UNION {Linked(links, id, direction) : id \in found[k - 1]}
  IN found[n]

\* The shadow mask: what the sandbox has its own version of.
Overridden(b) == {id \in Ids : b.node[id] # None /\ b.node[id].origin = "sandbox"}

\* The search of the sandbox.
Visited(b, start, direction, depth) == Within(b.edges, start, direction, depth)
\* Nodes with no link to follow and hops to spare, with the hops it took.
BoundaryHits(b, start, direction, depth) ==
  {hit \in Visited(b, start, direction, depth) \X (0 .. depth - 1) :
     /\ Linked(b.edges, hit[1], direction) = {}
     /\ hit[1] \in Visited(b, start, direction, hit[2])
     /\ hit[2] > 0 => hit[1] \notin Visited(b, start, direction, hit[2] - 1)}

\* _continue_in_prod: one query for each of them; of its nodes, those that the
\* sandbox overrides or the search has visited are skipped.
Continued(b, start, direction, depth) ==
  UNION {Within(ProdCalls, hit[1], direction, depth - hit[2]) :
           hit \in {h \in BoundaryHits(b, start, direction, depth) : h[1] \in ProdIds}}
    \ (Overridden(b) \cup Visited(b, start, direction, depth))

(***************************************************************************)
(* Properties                                                              *)
(***************************************************************************)

\* What the uploads of box b say of each other: calls between their functions,
\* but for those of a function that has moved out of a file that was uploaded
\* (the deletion pass for that file takes it, and the calls of it).
MovedAway(b, call) ==
  call[2] \in ProdIds /\ ProdFile[call[2]] \in box[b].files
    /\ said[b][call[2]].file # ProdFile[call[2]]
UploadedCalls(b) ==
  LET uploaded == {id \in Ids : said[b][id] # None} IN
  {c \in uploaded \X uploaded :
     /\ c[1][2] = c[2][2] /\ c[2][1] \in said[b][c[1]].calls \ {c[1][1]}
     /\ ~MovedAway(b, c)}

\* However the uploads pull, shadow, delete and resolve, whoever follows the
\* calls between uploaded functions, up or down, finds them as near as they are
\* ("Shows: function calls ... all in one traversal").
UploadedCallsAreFound ==
  \A s \in Sids : table[s] # None /\ Sole(table[s]) =>
    LET calls == UploadedCalls(table[s])
        ends == UNION {{c[1], c[2]} : c \in calls} IN
    \A id \in ends, direction \in Directions, n \in 1 .. MaxDepth :
      Within(calls, id, direction, n) \subseteq Visited(box[table[s]], id, direction, n)

\* No answer follows a call that only production's version of an overridden
\* function makes ("Re-entry detection prevents following stale prod paths for
\* nodes that have sandbox overrides").
StalePathsAreNotFollowed ==
  \A s \in Sids, id \in Ids, direction \in Directions : LoopFree /\ table[s] # None =>
    LET b == box[table[s]]
        current == {c \in ProdCalls : c[1] \notin Overridden(b)} IN
    b.node[id] # None =>
      Continued(b, id, direction, MaxDepth) \subseteq
        UNION {Within(current, hit[1], direction, MaxDepth - hit[2]) :
                 hit \in BoundaryHits(b, id, direction, MaxDepth)}
=============================================================================
