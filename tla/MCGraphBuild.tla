----------------------------- MODULE MCGraphBuild -----------------------------
(***************************************************************************)
(* An instance of GraphBuild for TLC: two C files whose functions call each  *)
(* other, or are defined twice, and a header with the register they access.  *)
(***************************************************************************)
EXTENDS GraphBuild

OfModule == [f \in Files |-> "ADC"]
OfProject == [f \in Files |-> "A3G"]
MayHold == [f \in Files |-> IF f \in SourceFiles THEN {{"f"}, {"f", "g"}} ELSE {{}, {"R"}}]
Body == {<<"f", "g">>, <<"g", "f">>, <<"f", "R">>}
=============================================================================
