-------------------------- MODULE MCSandboxUploads --------------------------
(***************************************************************************)
(* Instances of the uploads for TLC: two functions f and g, which the      *)
(* production graph has in module M (file a), and g also in module N.      *)
(***************************************************************************)
EXTENDS HybridTraversal, TLC

GraphIds == {<<"f", "M">>, <<"g", "M">>, <<"g", "N">>}
GraphFile == [id \in GraphIds |-> IF id[2] = "M" THEN "a.c" ELSE "n.c"]
GraphCalls == {<<<<"f", "M">>, <<"g", "M">>>>}

FCallsG  == [file |-> "a.c", calls |-> ("f" :> {"g"} @@ "h" :> {})]
FAlone   == [file |-> "a.c", calls |-> ("f" :> {})]
GElse    == [file |-> "b.c", calls |-> ("g" :> {"f"})]

\* The batches of the run: f is defined with a call of g, beside h; or g moves to
\* another file and calls f, which no longer calls it, in one upload.  Each fits
\* into two chunks; after the other, either exceeds them, at once or half-way.
Edits == {<<FCallsG>>, <<GElse, FAlone>>}
\* f no longer calls g.
CallDropped == {<<FAlone>>}
=============================================================================
