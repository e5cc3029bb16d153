----------------------------- MODULE Confidence -----------------------------
(***************************************************************************)
(* ConfidenceCalculator.evaluate (src/ReviewGate/confidence.py): the score *)
(* of a generated answer and the review it is routed to.                   *)
(*                                                                         *)
(* A signal's value is a number of parts out of Whole, to which the code   *)
(* bounds it; a yes/no signal is Whole or 0.  It is None when it is not    *)
(* given, and Null when it is given as null or as a text: that counts      *)
(* nothing.  A ratio or validation score is None, or whether it reaches    *)
(* its threshold.                                                          *)
(***************************************************************************)
EXTENDS Integers, FiniteSets

CONSTANTS Whole,   \* parts of a full signal
          None, Null

Quality == {"api_verified", "call_order_valid", "config_valid", "output_well_formed",
            "pattern_match"}
Risks == {"is_safety_critical", "no_failure_match"}
SignalNames == Quality \cup Risks

ASSUME ConfidenceAssumption == Whole \in Nat \ {0} /\ None \notin Int /\ Null \notin Int /\ None # Null

DEFAULT_WEIGHTS ==
  [s \in SignalNames |->
     CASE s \in {"api_verified", "call_order_valid"} -> 25
       [] s = "config_valid" -> 15
       [] s = "pattern_match" -> 10
       [] s = "output_well_formed" -> 5
       [] s = "is_safety_critical" -> -15
       [] s = "no_failure_match" -> -10]

BaseScore == 20
THRESHOLD_AUTO == 80
THRESHOLD_QUICK == 50

\* What a tool call passes: the signals, and for three of them a measurement
\* that stands in when the signal itself is missing.
Composite == {"api_verified", "config_valid", "output_well_formed"}
Signals == [value : [SignalNames -> 0 .. Whole \cup {None, Null}],
            reached : [Composite -> BOOLEAN \cup {None}]]

\* A signal that is given wins over its measurement, as null too (setdefault).
Mapped(sig, s) ==
  IF sig.value[s] = None /\ s \in Composite
  THEN CASE sig.reached[s] = TRUE -> Whole
         [] sig.reached[s] = FALSE -> 0
         [] OTHER -> None
  ELSE sig.value[s]

\* int(weight * value): towards zero, so that a penalty is rounded down too.
Scaled(w, v) == IF w >= 0 THEN (w * v) \div Whole ELSE -((-w * v) \div Whole)
Adjustment(sig, s) ==
  IF Mapped(sig, s) \in {None, Null} THEN 0 ELSE Scaled(DEFAULT_WEIGHTS[s], Mapped(sig, s))

RawScore(sig) ==
  BaseScore + Adjustment(sig, "api_verified") + Adjustment(sig, "call_order_valid")
    + Adjustment(sig, "config_valid") + Adjustment(sig, "output_well_formed")
    + Adjustment(sig, "pattern_match") + Adjustment(sig, "is_safety_critical")
    + Adjustment(sig, "no_failure_match")

Clamped(n) == IF n < 0 THEN 0 ELSE IF n > 100 THEN 100 ELSE n
Score(sig) == Clamped(RawScore(sig))

\* Variant: AUTO is granted from 75 points.
RouteFrom75(n) == IF n >= 75 THEN "AUTO" ELSE IF n >= THRESHOLD_QUICK THEN "QUICK" ELSE "FULL"
Route(n) ==
  IF n >= THRESHOLD_AUTO THEN "AUTO" ELSE IF n >= THRESHOLD_QUICK THEN "QUICK" ELSE "FULL"

ReviewType(sig) == Route(Score(sig))

(***************************************************************************)
(* What the routing promises                                               *)
(***************************************************************************)

Strictness(type) == CASE type = "AUTO" -> 0 [] type = "QUICK" -> 1 [] type = "FULL" -> 2

\* Given to at least a fifth: a yes/no signal or a measurement is given fully.
Given(sig, s) == Mapped(sig, s) \in 0 .. Whole /\ 5 * Mapped(sig, s) >= Whole
WithSignal(sig, s) == [sig EXCEPT !.value[s] = Whole]

\* Calls and their order that are less than a fifth verified never pass as
\* AUTO, whatever else speaks for the answer ("assume failure until proven
\* safe"): with yes/no signals and measurements, nothing unverified passes.
AutoIsVerified(sig) ==
  ReviewType(sig) = "AUTO" => Given(sig, "api_verified") /\ Given(sig, "call_order_valid")
\* With nothing to its credit an answer gets the full review.
NothingIsFull(sig) ==
  (\A s \in Quality : Mapped(sig, s) \in {0, None, Null}) => ReviewType(sig) = "FULL"
\* A further quality signal never makes the review stricter, a further risk
\* never makes it more lenient.
RoutingIsMonotone(sig) ==
  /\ \A s \in Quality :
       Strictness(ReviewType(WithSignal(sig, s))) <= Strictness(ReviewType(sig))
  /\ \A s \in Risks :
       Strictness(ReviewType(WithSignal(sig, s))) >= Strictness(ReviewType(sig))
=============================================================================
