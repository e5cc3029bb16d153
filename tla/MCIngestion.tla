------------------------------ MODULE MCIngestion ------------------------------
(***************************************************************************)
(* An instance of Ingestion for TLC: a file whose functions fill the buffer  *)
(* of nodes and leave one, and one whose calls fill theirs before the node is *)
(* written.  ADC has both, CAN none, either is also ingested into either.     *)
(***************************************************************************)
EXTENDS Ingestion

InModule == [m \in Modules |-> IF m = "ADC" THEN <<"a.c", "b.c">> ELSE <<>>]
Stands == [f \in Files |->
  IF f = "a.c" THEN <<<<"f", None>>, <<"f", "h">>, <<"g", None>>, <<"h", None>>>>
               ELSE <<<<"g", None>>, <<"g", "f">>, <<"g", "h">>>>]
=============================================================================
