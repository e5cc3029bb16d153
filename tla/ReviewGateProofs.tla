-------------------------- MODULE ReviewGateProofs --------------------------
(***************************************************************************)
(* What Confidence promises of every combination of signals, and           *)
(* ReviewGate of every number of requests, threads and mishaps.            *)
(***************************************************************************)
EXTENDS ReviewGate, TLAPS

-----------------------------------------------------------------------------
(* Scores                                                                  *)

LEMMA ScaledUp ==
  ASSUME NEW w \in Nat, NEW v \in 0 .. Whole
  PROVE  Scaled(w, v) \in 0 .. w
<1> DEFINE n == w * v
<1>1. n \in Nat /\ n <= w * Whole
  BY ConfidenceAssumption, SMT
<1>2. /\ n \div Whole \in Int
      /\ Whole * (n \div Whole) <= n
      /\ n < Whole * (n \div Whole) + Whole
  BY <1>1, ConfidenceAssumption, SMT
<1>3. n \div Whole >= 0
  BY <1>1, <1>2, ConfidenceAssumption, SMT
<1>4. n \div Whole <= w
  BY <1>1, <1>2, ConfidenceAssumption, SMT
<1> QED
  BY <1>2, <1>3, <1>4 DEF Scaled

LEMMA ScaledPenalty ==
  ASSUME NEW w \in Nat \ {0}, NEW v \in 0 .. Whole
  PROVE  Scaled(-w, v) = -Scaled(w, v)
BY SMT DEF Scaled

LEMMA ScaledDown ==
  ASSUME NEW w \in Nat \ {0}, NEW v \in 0 .. Whole
  PROVE  Scaled(-w, v) \in -w .. 0
BY ScaledPenalty, ScaledUp, SMT

LEMMA ScaledWhole ==
  ASSUME NEW w \in Nat \ {0}
  PROVE  /\ Scaled(w, Whole) = w /\ Scaled(w, 0) = 0
         /\ Scaled(-w, Whole) = -w
<1>1. w * Whole \in Nat
  BY ConfidenceAssumption, SMT
<1>2. (w * Whole) \div Whole = w /\ 0 \div Whole = 0
  BY <1>1, ConfidenceAssumption, SMT
<1>3. Scaled(w, Whole) = w /\ Scaled(w, 0) = 0
  BY <1>2, SMT DEF Scaled
<1>4. Whole \in 0 .. Whole
  BY ConfidenceAssumption, SMT
<1>5. Scaled(-w, Whole) = -Scaled(w, Whole)
  BY <1>4, ScaledPenalty
<1> QED
  BY <1>3, <1>5

LEMMA Weights ==
  /\ DEFAULT_WEIGHTS["api_verified"] = 25 /\ DEFAULT_WEIGHTS["call_order_valid"] = 25
  /\ DEFAULT_WEIGHTS["config_valid"] = 15 /\ DEFAULT_WEIGHTS["pattern_match"] = 10
  /\ DEFAULT_WEIGHTS["output_well_formed"] = 5
  /\ DEFAULT_WEIGHTS["is_safety_critical"] = -15
  /\ DEFAULT_WEIGHTS["no_failure_match"] = -10
BY DEF DEFAULT_WEIGHTS, SignalNames, Quality, Risks

\* A signal that counts has a value out of Whole.
LEMMA MappedValue ==
  ASSUME NEW sig \in Signals, NEW s \in SignalNames
  PROVE  Mapped(sig, s) \in 0 .. Whole \cup {None, Null}
<1>1. sig.value[s] \in 0 .. Whole \cup {None, Null}
  BY DEF Signals
<1>2. {0, Whole} \subseteq 0 .. Whole
  BY ConfidenceAssumption, SMT
<1> QED
  BY <1>1, <1>2 DEF Mapped

\* What each quality signal adds, and what each risk takes away.
LEMMA QualityAdds ==
  ASSUME NEW sig \in Signals, NEW s \in Quality
  PROVE  /\ DEFAULT_WEIGHTS[s] \in Nat
         /\ Adjustment(sig, s) \in 0 .. DEFAULT_WEIGHTS[s]
         /\ Mapped(sig, s) = Whole => Adjustment(sig, s) = DEFAULT_WEIGHTS[s]
         /\ Mapped(sig, s) \in {0, None, Null} => Adjustment(sig, s) = 0
<1>1. s \in SignalNames
  BY DEF SignalNames
<1>2. DEFAULT_WEIGHTS[s] \in Nat \ {0}
  BY Weights DEF Quality
<1>3. CASE Mapped(sig, s) \in {None, Null}
  <2>1. Mapped(sig, s) # Whole
    BY <1>3, ConfidenceAssumption
  <2> QED
    BY <1>2, <1>3, <2>1, SMT DEF Adjustment
<1>4. CASE Mapped(sig, s) \notin {None, Null}
  <2>1. Mapped(sig, s) \in 0 .. Whole
    BY <1>1, <1>4, MappedValue
  <2>2. Adjustment(sig, s) = Scaled(DEFAULT_WEIGHTS[s], Mapped(sig, s))
    BY <1>4 DEF Adjustment
  <2> QED
    BY <1>2, <1>4, <2>1, <2>2, ScaledUp, ScaledWhole
<1> QED
  BY <1>3, <1>4

LEMMA RiskTakes ==
  ASSUME NEW sig \in Signals, NEW s \in Risks
  PROVE  /\ DEFAULT_WEIGHTS[s] \in Int
         /\ Adjustment(sig, s) \in DEFAULT_WEIGHTS[s] .. 0
         /\ Mapped(sig, s) = Whole => Adjustment(sig, s) = DEFAULT_WEIGHTS[s]
<1>1. s \in SignalNames
  BY DEF SignalNames
<1>2. PICK w \in Nat \ {0} : DEFAULT_WEIGHTS[s] = -w
  <2>1. s = "is_safety_critical" \/ s = "no_failure_match"
    BY DEF Risks
  <2> QED
    BY <2>1, Weights
<1>3. CASE Mapped(sig, s) \in {None, Null}
  <2>1. Mapped(sig, s) # Whole
    BY <1>3, ConfidenceAssumption
  <2>2. Adjustment(sig, s) = 0
    BY <1>3 DEF Adjustment
  <2> QED
    BY <1>2, <2>1, <2>2, SMT
<1>4. CASE Mapped(sig, s) \notin {None, Null}
  <2>1. Mapped(sig, s) \in 0 .. Whole
    BY <1>1, <1>4, MappedValue
  <2>2. Adjustment(sig, s) = Scaled(-w, Mapped(sig, s))
    BY <1>2, <1>4 DEF Adjustment
  <2>3. Scaled(-w, Mapped(sig, s)) \in -w .. 0
    BY <2>1, ScaledDown
  <2>4. Mapped(sig, s) = Whole => Scaled(-w, Mapped(sig, s)) = -w
    BY ScaledWhole
  <2>5. DEFAULT_WEIGHTS[s] \in Int
    BY <1>2, SMT
  <2> QED
    BY <1>2, <2>2, <2>3, <2>4, <2>5
<1> QED
  BY <1>3, <1>4

LEMMA RouteOfScore ==
  ASSUME NEW n \in Int
  PROVE  /\ Route(Clamped(n)) = "AUTO" <=> n >= 80
         /\ Route(Clamped(n)) = "FULL" <=> n < 50
         /\ Strictness(Route(Clamped(n))) = IF n >= 80 THEN 0 ELSE IF n >= 50 THEN 1 ELSE 2
<1>1. CASE n >= 80
  <2>1. Clamped(n) >= 80
    BY <1>1, SMT DEF Clamped
  <2>2. Route(Clamped(n)) = "AUTO"
    BY <2>1 DEF Route, THRESHOLD_AUTO
  <2> QED
    BY <1>1, <2>2, SMT DEF Strictness
<1>2. CASE 50 <= n /\ n < 80
  <2>1. Clamped(n) = n
    BY <1>2, SMT DEF Clamped
  <2>2. ~ n >= 80 /\ ~ n < 50 /\ n >= 50
    BY <1>2, SMT
  <2>3. Route(Clamped(n)) = "QUICK"
    BY <2>1, <2>2 DEF Route, THRESHOLD_AUTO, THRESHOLD_QUICK
  <2> QED
    BY <2>2, <2>3 DEF Strictness
<1>3. CASE n < 50
  <2>1. ~ Clamped(n) >= 80 /\ ~ Clamped(n) >= 50
    BY <1>3, SMT DEF Clamped
  <2>2. ~ n >= 80 /\ ~ n >= 50
    BY <1>3, SMT
  <2>3. Route(Clamped(n)) = "FULL"
    BY <2>1 DEF Route, THRESHOLD_AUTO, THRESHOLD_QUICK
  <2> QED
    BY <1>3, <2>2, <2>3 DEF Strictness
<1> QED
  BY <1>1, <1>2, <1>3, SMT

LEMMA AdjustmentIsInt ==
  ASSUME NEW sig \in Signals, NEW s \in SignalNames
  PROVE  Adjustment(sig, s) \in Int
<1>1. s \in Quality => Adjustment(sig, s) \in Int
  BY QualityAdds, SMT
<1>2. s \in Risks => Adjustment(sig, s) \in Int
  BY RiskTakes, SMT
<1> QED
  BY <1>1, <1>2 DEF SignalNames

\* The seven adjustments are integers within their weights.
LEMMA Adjustments ==
  ASSUME NEW sig \in Signals
  PROVE  /\ Adjustment(sig, "api_verified") \in 0 .. 25
         /\ Adjustment(sig, "call_order_valid") \in 0 .. 25
         /\ Adjustment(sig, "config_valid") \in 0 .. 15
         /\ Adjustment(sig, "output_well_formed") \in 0 .. 5
         /\ Adjustment(sig, "pattern_match") \in 0 .. 10
         /\ Adjustment(sig, "is_safety_critical") \in -15 .. 0
         /\ Adjustment(sig, "no_failure_match") \in -10 .. 0
         /\ RawScore(sig) \in Int
<1>1. /\ Adjustment(sig, "api_verified") \in 0 .. 25
      /\ Adjustment(sig, "call_order_valid") \in 0 .. 25
      /\ Adjustment(sig, "config_valid") \in 0 .. 15
      /\ Adjustment(sig, "output_well_formed") \in 0 .. 5
      /\ Adjustment(sig, "pattern_match") \in 0 .. 10
  BY QualityAdds, Weights DEF Quality
<1>2. /\ Adjustment(sig, "is_safety_critical") \in -15 .. 0
      /\ Adjustment(sig, "no_failure_match") \in -10 .. 0
  BY RiskTakes, Weights DEF Risks
<1>3. RawScore(sig) \in Int
  BY AdjustmentIsInt, SMT DEF RawScore, BaseScore, SignalNames, Quality, Risks
<1> QED
  BY <1>1, <1>2, <1>3

\* A full merit of 25 points counts five only if it is given to a fifth.
LEMMA FiveOf25 ==
  ASSUME NEW v \in 0 .. Whole, Scaled(25, v) >= 5
  PROVE  5 * v >= Whole
<1>1. (25 * v) \div Whole >= 5
  BY DEF Scaled
<1>2. 25 * v \in Nat /\ Whole \in Nat \ {0}
  BY ConfidenceAssumption, SMT
<1>3. 25 * v >= 5 * Whole
  BY <1>1, <1>2, SMT
<1> QED
  BY <1>2, <1>3, SMT

\* For every combination of signals, numeric ones and nulls included: AUTO means
\* that the calls and their order are verified, to a fifth at least.
THEOREM AutoNeedsVerification == \A sig \in Signals : AutoIsVerified(sig)
<1> SUFFICES ASSUME NEW sig \in Signals, ReviewType(sig) = "AUTO"
             PROVE  Given(sig, "api_verified") /\ Given(sig, "call_order_valid")
  BY DEF AutoIsVerified
<1>1. ASSUME NEW s \in {"api_verified", "call_order_valid"}, Adjustment(sig, s) >= 5
      PROVE  Given(sig, s)
  <2>1. s \in SignalNames /\ s \in Quality /\ DEFAULT_WEIGHTS[s] = 25
    BY Weights DEF Quality, SignalNames
  <2>2. Mapped(sig, s) \notin {None, Null}
    BY <1>1, <2>1, QualityAdds, SMT
  <2>3. Mapped(sig, s) \in 0 .. Whole
    BY <2>1, <2>2, MappedValue
  <2>4. Scaled(25, Mapped(sig, s)) >= 5
    BY <1>1, <2>1, <2>2 DEF Adjustment
  <2> QED
    BY <2>3, <2>4, FiveOf25 DEF Given
<1>2. RawScore(sig) >= 80
  BY RouteOfScore, Adjustments DEF ReviewType, Score
<1>3. Adjustment(sig, "api_verified") >= 5 /\ Adjustment(sig, "call_order_valid") >= 5
  BY <1>2, Adjustments, SMT DEF RawScore, BaseScore
<1> QED
  BY <1>1, <1>3

\* Whatever the risks: without a single merit the review is the full one.
THEOREM NothingGoesToFull == \A sig \in Signals : NothingIsFull(sig)
<1> SUFFICES ASSUME NEW sig \in Signals, \A s \in Quality : Mapped(sig, s) \in {0, None, Null}
             PROVE  ReviewType(sig) = "FULL"
  BY DEF NothingIsFull
<1>1. \A s \in Quality : Adjustment(sig, s) = 0
  BY QualityAdds
<1>2. RawScore(sig) < 50
  BY <1>1, Adjustments, SMT DEF RawScore, BaseScore, Quality
<1> QED
  BY <1>2, RouteOfScore, Adjustments DEF ReviewType, Score

\* With a signal set, the others count what they counted before.
LEMMA SettingASignal ==
  ASSUME NEW sig \in Signals, NEW s \in SignalNames
  PROVE  /\ WithSignal(sig, s) \in Signals
         /\ Mapped(WithSignal(sig, s), s) = Whole
         /\ \A u \in SignalNames \ {s} : Adjustment(WithSignal(sig, s), u) = Adjustment(sig, u)
<1>1. Whole \in 0 .. Whole \cup {None, Null} /\ Whole # None
  BY ConfidenceAssumption, SMT
<1>2. WithSignal(sig, s) \in Signals /\ WithSignal(sig, s).reached = sig.reached
  BY <1>1 DEF WithSignal, Signals
<1>3. WithSignal(sig, s).value = [sig.value EXCEPT ![s] = Whole]
  BY DEF WithSignal, Signals
<1>4. sig.value \in [SignalNames -> 0 .. Whole \cup {None, Null}]
  BY DEF Signals
<1>5. Mapped(WithSignal(sig, s), s) = Whole
  BY <1>1, <1>3, <1>4 DEF Mapped
<1>6. ASSUME NEW u \in SignalNames \ {s}
      PROVE  Adjustment(WithSignal(sig, s), u) = Adjustment(sig, u)
  <2>1. WithSignal(sig, s).value[u] = sig.value[u]
    BY <1>3, <1>4
  <2>2. Mapped(WithSignal(sig, s), u) = Mapped(sig, u)
    BY <1>2, <2>1 DEF Mapped
  <2> QED
    BY <2>2 DEF Adjustment
<1> QED
  BY <1>2, <1>5, <1>6

\* The score follows every single signal.
LEMMA ScoreIsMonotone ==
  ASSUME NEW sig \in Signals, NEW s \in SignalNames
  PROVE  /\ s \in Quality => RawScore(WithSignal(sig, s)) >= RawScore(sig)
         /\ s \in Risks => RawScore(WithSignal(sig, s)) <= RawScore(sig)
<1> DEFINE new == WithSignal(sig, s)
<1>1. /\ new \in Signals
      /\ \A u \in SignalNames \ {s} : Adjustment(new, u) = Adjustment(sig, u)
  BY SettingASignal
<1>2. s \in Quality => Adjustment(new, s) >= Adjustment(sig, s)
  <2>1. s \in Quality => Adjustment(new, s) = DEFAULT_WEIGHTS[s]
    BY <1>1, SettingASignal, QualityAdds
  <2>2. s \in Quality => Adjustment(sig, s) \in 0 .. DEFAULT_WEIGHTS[s] /\ DEFAULT_WEIGHTS[s] \in Nat
    BY QualityAdds
  <2> QED
    BY <2>1, <2>2, SMT
<1>3. s \in Risks => Adjustment(new, s) <= Adjustment(sig, s)
  <2>1. s \in Risks => Adjustment(new, s) = DEFAULT_WEIGHTS[s]
    BY <1>1, SettingASignal, RiskTakes
  <2>2. s \in Risks => Adjustment(sig, s) \in DEFAULT_WEIGHTS[s] .. 0 /\ DEFAULT_WEIGHTS[s] \in Int
    BY RiskTakes
  <2> QED
    BY <2>1, <2>2, SMT
<1> HIDE DEF new
<1>4. \A u \in SignalNames \ {s} : Adjustment(new, u) = Adjustment(sig, u)
  BY <1>1
<1>5. \A u \in SignalNames : Adjustment(sig, u) \in Int /\ Adjustment(new, u) \in Int
  BY <1>1, AdjustmentIsInt
<1>6. CASE s \in Quality
  <2>1. \A u \in SignalNames : Adjustment(new, u) >= Adjustment(sig, u)
    BY <1>2, <1>4, <1>5, <1>6, SMT
  <2>2. RawScore(new) >= RawScore(sig)
    BY <1>5, <2>1, SMT DEF RawScore, BaseScore, SignalNames, Quality, Risks
  <2>3. s \notin Risks
    BY <1>6 DEF Quality, Risks
  <2> QED
    BY <2>2, <2>3 DEF new
<1>7. CASE s \in Risks
  <2>1. \A u \in SignalNames : Adjustment(new, u) <= Adjustment(sig, u)
    BY <1>3, <1>4, <1>5, <1>7, SMT
  <2>2. RawScore(new) <= RawScore(sig)
    BY <1>5, <2>1, SMT DEF RawScore, BaseScore, SignalNames, Quality, Risks
  <2>3. s \notin Quality
    BY <1>7 DEF Quality, Risks
  <2> QED
    BY <2>2, <2>3 DEF new
<1> QED
  BY <1>6, <1>7 DEF SignalNames

\* For every combination of signals: a further merit never makes the review
\* stricter, a further risk never more lenient.
THEOREM RoutingFollowsSignals == \A sig \in Signals : RoutingIsMonotone(sig)
<1> SUFFICES ASSUME NEW sig \in Signals
             PROVE  RoutingIsMonotone(sig)
  OBVIOUS
<1>1. ASSUME NEW s \in SignalNames
      PROVE  /\ s \in Quality =>
                  Strictness(ReviewType(WithSignal(sig, s))) <= Strictness(ReviewType(sig))
             /\ s \in Risks =>
                  Strictness(ReviewType(WithSignal(sig, s))) >= Strictness(ReviewType(sig))
  <2> DEFINE a == RawScore(sig)
             b == RawScore(WithSignal(sig, s))
  <2>1. a \in Int /\ b \in Int
    BY Adjustments, SettingASignal
  <2>2. /\ Strictness(ReviewType(sig)) = IF a >= 80 THEN 0 ELSE IF a >= 50 THEN 1 ELSE 2
        /\ Strictness(ReviewType(WithSignal(sig, s))) = IF b >= 80 THEN 0 ELSE IF b >= 50 THEN 1 ELSE 2
    BY <2>1, RouteOfScore DEF ReviewType, Score
  <2>3. (s \in Quality => b >= a) /\ (s \in Risks => b <= a)
    BY ScoreIsMonotone
  <2> HIDE DEF a, b
  <2> QED
    BY <2>1, <2>2, <2>3, SMT
<1> QED
  BY <1>1 DEF RoutingIsMonotone, SignalNames

-----------------------------------------------------------------------------
(* The inductive invariant                                                 *)

\* What was shown last is the routing of the signals it was shown for.
ShownIsRouted ==
  shown # None => shown.signals \in Signals /\ shown.type = ReviewType(shown.signals)

Saving == {"save", "store", "index", "track", "savefailure"}
Working == {"record"} \cup Saving

\* A thread that records a feedback: the sink knows as much of it as its place
\* says, and no other feedback has its id.
ThreadIsKept(t) ==
  /\ pc[t] # "idle" => sink # None
  /\ call[t].id <= issued
  /\ call[t].stored \/ call[t].indexed => call[t].id \in patterns
  /\ pc[t] \in Working =>
       /\ \A a \in answers : a.id # call[t].id
       /\ \A p \in sink.approved : p.id # call[t].id
       /\ pc[t] # "savefailure" => call[t].id \notin sink.failures
  /\ pc[t] \in Saving =>
       /\ call[t].decision \in ValidDecisions
       /\ Entry(t) \in sink.feedbacks
  /\ pc[t] \in Saving \ {"save"} =>
       call[t].id \in unsaved \/ (available /\ call[t].id \in feedback)
  /\ pc[t] = "savefailure" =>
       call[t].decision = "REJECT" /\ call[t].id \in sink.failures

IdsDiffer ==
  \A t, u \in Threads :
    t # u /\ pc[t] \in Working /\ pc[u] \in Working => call[t].id # call[u].id

\* Ids that were handed out; an answer is of this process.
IdsIssued ==
  /\ sink # None =>
       /\ \A i \in sink.failures : i <= issued
       /\ \A p \in sink.approved : p.id <= issued
  /\ answers # {} => sink # None
  /\ \A a \in answers : a.id <= issued

KeptInv == (\A t \in Threads : ThreadIsKept(t)) /\ IdsDiffer /\ IdsIssued /\ FeedbackIsKept

IInv == TypeOK /\ ShownIsRouted /\ ReviewsHaveEvidence /\ KeptInv

-----------------------------------------------------------------------------
(* Types                                                                   *)

LEMMA IdleCall == Idle \in Calls /\ Idle.stored = FALSE /\ Idle.indexed = FALSE /\ Idle.id = 0
BY DEF Idle, Calls

LEMMA NewSink ==
  ASSUME NEW s \in NewSinks
  PROVE  s \in SinkStates /\ s # None
<1>1. \A b \in Builders : Wiring(b).store \in BOOLEAN /\ Wiring(b).index \in BOOLEAN
  BY DEF Wiring, StoreBuilt, IndexBuilt, Constructs
<1>2. s \in SinkStates
  BY <1>1 DEF NewSinks, SinkStates
<1> QED
  BY <1>2, ReviewAssumption

\* A handler's sink: the one there is, or a fresh one.
LEMMA ASink ==
  ASSUME TypeOK, NEW s \in Sinks
  PROVE  s \in SinkStates /\ s # None /\ (sink # None => s = sink)
<1>1. CASE sink = None
  BY <1>1, NewSink DEF Sinks
<1>2. CASE sink # None
  BY <1>2 DEF Sinks, TypeOK
<1> QED
  BY <1>1, <1>2

LEMMA InitType == Init => TypeOK
BY IdleCall DEF Init, TypeOK, Places

LEMMA EvaluateType ==
  ASSUME TypeOK, NEW r \in Responses, NEW sig \in Reviewed, Evaluate(r, sig)
  PROVE  TypeOK'
<1>1. [routing |-> ReviewType(sig)] \in Rows
  BY DEF Rows, ReviewType, Route
<1> QED
  BY <1>1 DEF Evaluate, TypeOK, Request, Mishap, stores, history

LEMMA CompleteReviewType ==
  ASSUME TypeOK, NEW r \in Responses, CompleteReview(r)
  PROVE  TypeOK'
<1>1. RowEnsured(r) \in [Responses -> Rows \cup {None}]
  BY DEF RowEnsured, Placeholder, Rows, TypeOK
<1>2. issued' \in Nat /\ <<issued', r>> \in Nat \X Responses
  BY DEF CompleteReview, TypeOK
<1>3. sink' \in SinkStates
  <2>1. PICK s \in Sinks : sink' = [s EXCEPT !.reviews = @ \cup {issued'}]
    BY DEF CompleteReview
  <2> QED
    BY <1>2, <2>1, ASink DEF SinkStates
<1> QED
  BY <1>1, <1>2, <1>3 DEF CompleteReview, TypeOK, Mishap, stores

LEMMA SubmitFeedbackType ==
  ASSUME TypeOK, NEW t \in Threads, NEW r \in Responses, NEW d \in Decisions,
         NEW c \in BOOLEAN, NEW m \in BOOLEAN, SubmitFeedback(t, r, d, c, m)
  PROVE  TypeOK'
<1>1. issued' \in Nat
  BY DEF SubmitFeedback, TypeOK
<1>2. [Idle EXCEPT !.id = issued', !.resp = r, !.decision = d, !.context = c, !.module = m] \in Calls
  BY <1>1, IdleCall DEF Calls
<1>3. sink' \in SinkStates
  BY ASink DEF SubmitFeedback
<1> QED
  BY <1>1, <1>2, <1>3 DEF SubmitFeedback, TypeOK, Places, postgres, stores, history

LEMMA ProcessResultsType ==
  ASSUME TypeOK, NEW t \in Threads, NEW report \in Reports,
         NEW learn \in BOOLEAN, NEW update \in BOOLEAN, ProcessResults(t, report, learn, update)
  PROVE  TypeOK'
<1>1. issued' \in Nat
  BY DEF ProcessResults, TypeOK
<1>2. [Idle EXCEPT !.id = issued', !.todo = report, !.learn = learn] \in Calls
  BY <1>1, IdleCall, ReviewAssumption DEF Calls
<1>3. sink' \in SinkStates
  BY ASink DEF ProcessResults
<1> QED
  BY <1>1, <1>2, <1>3 DEF ProcessResults, TypeOK, Places, postgres, stores, history

LEMMA UpdateGraphType ==
  ASSUME TypeOK, NEW t \in Threads, UpdateGraph(t)
  PROVE  TypeOK'
<1>1. call[t].id \in Nat /\ Len(call[t].todo) \in Nat
  BY DEF TypeOK, Calls
<1>2. {<<call[t].id, i>> : i \in 1 .. Len(call[t].todo)} \subseteq Nat \X Nat
  BY <1>1
<1> QED
  BY <1>2 DEF UpdateGraph, TypeOK, Places, Mishap, postgres, history

LEMMA NextFailureType ==
  ASSUME TypeOK, NEW t \in Threads, NextFailure(t)
  PROVE  TypeOK'
<1>1. call[t] \in Calls /\ call[t].todo \in Seq(Reported \cup {None})
  BY DEF TypeOK, Calls
<1>2. CASE call[t].todo = <<>> \/ ~ call[t].learn
  BY <1>2, IdleCall DEF NextFailure, TypeOK, Places, postgres, stores, history
<1>3. CASE ~ (call[t].todo = <<>> \/ ~ call[t].learn) /\ Head(call[t].todo) = None
  <2>1. [call[t] EXCEPT !.todo = Tail(call[t].todo)] \in Calls
    BY <1>1, <1>3 DEF Calls
  <2>2. call' = [call EXCEPT ![t] = [call[t] EXCEPT !.todo = Tail(call[t].todo)]]
    BY <1>3 DEF NextFailure, TypeOK
  <2> QED
    BY <1>3, <2>1, <2>2 DEF NextFailure, TypeOK, postgres, stores, history
<1>4. CASE ~ (call[t].todo = <<>> \/ ~ call[t].learn) /\ Head(call[t].todo) # None
  <2>1. issued' \in Nat
    BY <1>4 DEF NextFailure, TypeOK
  <2>2. Head(call[t].todo) \in Reported \cup {None} /\ Tail(call[t].todo) \in Seq(Reported \cup {None})
    BY <1>1, <1>4
  <2>3. [Idle EXCEPT !.id = issued', !.resp = Head(call[t].todo), !.decision = "REJECT",
                     !.todo = Tail(call[t].todo), !.learn = TRUE] \in Calls
    BY <2>1, <2>2, IdleCall DEF Calls
  <2> QED
    BY <1>4, <2>1, <2>3 DEF NextFailure, TypeOK, Places, postgres, stores, history
<1> QED
  BY <1>2, <1>3, <1>4

\* A thread that works has a sink.
LEMMA WorkerSink ==
  ASSUME TypeOK, KeptInv, NEW t \in Threads, pc[t] # "idle"
  PROVE  sink \in SinkStates /\ sink # None
BY DEF TypeOK, KeptInv, ThreadIsKept

LEMMA RecordType ==
  ASSUME TypeOK, KeptInv, NEW t \in Threads, Record(t)
  PROVE  TypeOK'
<1>1. CASE call[t].decision \in ValidDecisions
  <2>1. Entry(t) \in [id : Nat, decision : ValidDecisions]
    BY <1>1 DEF Entry, TypeOK, Calls
  <2>2. [sink EXCEPT !.feedbacks = @ \cup {Entry(t)}] \in SinkStates
    BY <2>1, WorkerSink DEF SinkStates, Record
  <2> QED
    BY <1>1, <2>2 DEF Record, TypeOK, Places, postgres, stores, history
<1>2. CASE call[t].decision \notin ValidDecisions
  BY <1>2, IdleCall DEF Record, TypeOK, Places, postgres, stores, history
<1> QED
  BY <1>1, <1>2

LEMMA MishapsAreCounted ==
  ASSUME TypeOK, Mishap \/ UNCHANGED mishaps
  PROVE  mishaps' \in Nat
<1>1. mishaps \in Nat
  BY DEF TypeOK
<1> QED
  BY <1>1, SMT DEF Mishap

LEMMA SaveFeedbackType ==
  ASSUME TypeOK, NEW t \in Threads, SaveFeedback(t)
  PROVE  TypeOK'
<1>1. call[t].id \in Nat
  BY DEF TypeOK, Calls
<1>2. pc' \in [Threads -> Places]
  BY DEF SaveFeedback, TypeOK, Places
<1>3. feedback' \subseteq Nat /\ unsaved' \subseteq Nat
  <2>1. feedback \subseteq Nat /\ unsaved \subseteq Nat
    BY DEF TypeOK
  <2>2. feedback' \in {feedback, feedback \cup {call[t].id}}
    BY DEF SaveFeedback
  <2>3. unsaved' \in {unsaved, unsaved \cup {call[t].id}}
    BY DEF SaveFeedback
  <2> QED
    BY <1>1, <2>1, <2>2, <2>3
<1>5. mishaps' \in Nat
  BY MishapsAreCounted DEF SaveFeedback
<1>4. UNCHANGED <<available, sink, call, archive, evidence, failed, patterns, results, issued,
                  closed, answers>>
  BY DEF SaveFeedback, stores
<1> QED
  BY <1>2, <1>3, <1>4, <1>5 DEF TypeOK

\* The two pattern steps differ in what they note of their success.
LEMMA StorePatternType ==
  ASSUME TypeOK, NEW t \in Threads, StorePattern(t)
  PROVE  TypeOK'
<1>1. call[t].id \in Nat /\ [call[t] EXCEPT !.stored = TRUE] \in Calls
  BY DEF TypeOK, Calls
<1>2. [call EXCEPT ![t].stored = TRUE] = [call EXCEPT ![t] = [call[t] EXCEPT !.stored = TRUE]]
  BY DEF TypeOK
<1>3. pc' \in [Threads -> Places]
  BY DEF StorePattern, TypeOK, Places
<1>4. call' \in [Threads -> Calls] /\ patterns' \subseteq Nat
  <2>1. patterns \subseteq Nat /\ call \in [Threads -> Calls]
    BY DEF TypeOK
  <2>2. /\ patterns' \in {patterns, patterns \cup {call[t].id}}
        /\ call' = call \/ call' = [call EXCEPT ![t] = [call[t] EXCEPT !.stored = TRUE]]
    BY <1>2 DEF StorePattern
  <2> QED
    BY <1>1, <2>1, <2>2
<1>6. mishaps' \in Nat
  BY MishapsAreCounted DEF StorePattern
<1>5. UNCHANGED <<available, sink, archive, evidence, feedback, failed, results, issued,
                  closed, unsaved, answers>>
  BY DEF StorePattern, postgres, history
<1> QED
  BY <1>3, <1>4, <1>5, <1>6 DEF TypeOK

LEMMA IndexPatternType ==
  ASSUME TypeOK, NEW t \in Threads, IndexPattern(t)
  PROVE  TypeOK'
<1>1. call[t].id \in Nat /\ [call[t] EXCEPT !.indexed = TRUE] \in Calls
  BY DEF TypeOK, Calls
<1>2. [call EXCEPT ![t].indexed = TRUE] = [call EXCEPT ![t] = [call[t] EXCEPT !.indexed = TRUE]]
  BY DEF TypeOK
<1>3. pc' \in [Threads -> Places]
  BY DEF IndexPattern, TypeOK, Places
<1>4. call' \in [Threads -> Calls] /\ patterns' \subseteq Nat
  <2>1. patterns \subseteq Nat /\ call \in [Threads -> Calls]
    BY DEF TypeOK
  <2>2. /\ patterns' \in {patterns, patterns \cup {call[t].id}}
        /\ call' = call \/ call' = [call EXCEPT ![t] = [call[t] EXCEPT !.indexed = TRUE]]
    BY <1>2 DEF IndexPattern
  <2> QED
    BY <1>1, <2>1, <2>2
<1>6. mishaps' \in Nat
  BY MishapsAreCounted DEF IndexPattern
<1>5. UNCHANGED <<available, sink, archive, evidence, feedback, failed, results, issued,
                  closed, unsaved, answers>>
  BY DEF IndexPattern, postgres, history
<1> QED
  BY <1>3, <1>4, <1>5, <1>6 DEF TypeOK

LEMMA AnAnswer ==
  ASSUME TypeOK, NEW t \in Threads, call[t].decision \in ValidDecisions
  PROVE  [id |-> call[t].id, decision |-> call[t].decision, context |-> call[t].context,
          stored |-> call[t].stored, indexed |-> call[t].indexed] \in Answers
BY DEF TypeOK, Calls, Answers

LEMMA TrackedSink ==
  ASSUME TypeOK, KeptInv, NEW t \in Threads, pc[t] # "idle"
  PROVE  Tracked(t) \in SinkStates
<1>1. call[t].id \in Nat /\ call[t].stored \in BOOLEAN
  BY DEF TypeOK, Calls
<1> QED
  BY <1>1, WorkerSink DEF Tracked, SinkStates

LEMMA TrackType ==
  ASSUME TypeOK, KeptInv, NEW t \in Threads, Track(t)
  PROVE  TypeOK'
<1>1. call[t].decision \in ValidDecisions
  BY DEF KeptInv, ThreadIsKept, Track, Saving
<1>2. sink' \in SinkStates
  BY TrackedSink DEF Track
<1> QED
  BY <1>1, <1>2, AnAnswer DEF Track, Answered, TypeOK, Places, postgres, stores

LEMMA SaveFailureType ==
  ASSUME TypeOK, KeptInv, NEW t \in Threads, SaveFailure(t)
  PROVE  TypeOK'
<1>1. call[t].decision \in ValidDecisions
  BY DEF KeptInv, ThreadIsKept, SaveFailure, Saving
<1>2. call[t].id \in Nat
  BY DEF TypeOK, Calls
<1>3. pc' \in [Threads -> Places] /\ answers' \subseteq Answers
  BY <1>1, AnAnswer DEF SaveFailure, Answered, TypeOK, Places
<1>4. failed' \subseteq Nat /\ unsaved' \subseteq Nat
  <2>1. failed \subseteq Nat /\ unsaved \subseteq Nat
    BY DEF TypeOK
  <2>2. failed' \in {failed, failed \cup {call[t].id}} /\ unsaved' \in {unsaved, unsaved \cup {call[t].id}}
    BY DEF SaveFailure
  <2> QED
    BY <1>2, <2>1, <2>2
<1>6. mishaps' \in Nat
  BY MishapsAreCounted DEF SaveFailure
<1>5. UNCHANGED <<available, sink, call, archive, evidence, feedback, patterns, results,
                  issued, closed>>
  BY DEF SaveFailure, stores
<1> QED
  BY <1>3, <1>4, <1>5, <1>6 DEF TypeOK

LEMMA RestartType ==
  ASSUME TypeOK, Restart
  PROVE  TypeOK'
BY IdleCall DEF Restart, TypeOK, Places, Mishap, postgres, stores

LEMMA NextType == TypeOK /\ KeptInv /\ [Next]_vars => TypeOK'
<1> SUFFICES ASSUME TypeOK, KeptInv, [Next]_vars
             PROVE  TypeOK'
  OBVIOUS
<1>1. CASE UNCHANGED vars
  BY <1>1 DEF vars, postgres, stores, history, TypeOK
<1>2. ASSUME NEW r \in Responses, NEW sig \in Reviewed, Evaluate(r, sig)
      PROVE  TypeOK'
  BY <1>2, EvaluateType
<1>3. ASSUME NEW r \in Responses, CompleteReview(r)
      PROVE  TypeOK'
  BY <1>3, CompleteReviewType
<1>4. ASSUME NEW t \in Threads, NEW r \in Responses, NEW d \in Decisions,
             NEW c \in BOOLEAN, NEW m \in BOOLEAN, SubmitFeedback(t, r, d, c, m)
      PROVE  TypeOK'
  BY <1>4, SubmitFeedbackType
<1>5. ASSUME NEW t \in Threads, NEW report \in Reports, NEW learn \in BOOLEAN,
             NEW update \in BOOLEAN, ProcessResults(t, report, learn, update)
      PROVE  TypeOK'
  BY <1>5, ProcessResultsType
<1>6. ASSUME NEW t \in Threads, ThreadStep(t)
      PROVE  TypeOK'
  BY <1>6, UpdateGraphType, NextFailureType, RecordType, SaveFeedbackType, StorePatternType,
     IndexPatternType, TrackType, SaveFailureType DEF ThreadStep
<1>7. CASE Restart
  BY <1>7, RestartType
<1> QED
  BY <1>1, <1>2, <1>3, <1>4, <1>5, <1>6, <1>7 DEF Next

-----------------------------------------------------------------------------
(* Routing and evidence                                                    *)

LEMMA ShownIsRoutedInv == ShownIsRouted /\ [Next]_vars => ShownIsRouted'
<1> SUFFICES ASSUME ShownIsRouted, [Next]_vars
             PROVE  ShownIsRouted'
  OBVIOUS
<1>1. ASSUME NEW r \in Responses, NEW sig \in Reviewed, Evaluate(r, sig)
      PROVE  ShownIsRouted'
  <2>1. sig \in Signals
    BY ReviewAssumption
  <2> QED
    BY <1>1, <2>1 DEF Evaluate, ShownIsRouted
<1>2. CASE UNCHANGED shown
  BY <1>2 DEF ShownIsRouted
<1>3. UNCHANGED shown \/ \E r \in Responses, sig \in Reviewed : Evaluate(r, sig)
  BY DEF Next, vars, ThreadStep, CompleteReview, SubmitFeedback, ProcessResults, UpdateGraph,
         NextFailure, Record, SaveFeedback, StorePattern, IndexPattern, Track, SaveFailure, Restart
<1> QED
  BY <1>1, <1>2, <1>3

LEMMA RoutedIsCautious == ShownIsRouted => RoutingIsCautious
BY AutoNeedsVerification, NothingGoesToFull, RoutingFollowsSignals
   DEF ShownIsRouted, RoutingIsCautious, AutoIsVerified

\* A row that is made for a review is a row.
LEMMA RowIsThere ==
  ASSUME TypeOK, NEW r \in Responses
  PROVE  /\ RowEnsured(r)[r] # None
         /\ \A q \in Responses : archive[q] # None => RowEnsured(r)[q] # None
<1>1. Placeholder # None
  BY ReviewAssumption DEF Placeholder, Rows
<1> QED
  BY <1>1 DEF RowEnsured, TypeOK

\* Rows and evidence stay, and unsaved reviews stay unsaved.
LEMMA EvidenceStays ==
  ASSUME TypeOK, ReviewsHaveEvidence,
         \A q \in Responses : archive[q] # None => archive'[q] # None,
         evidence' = evidence, closed' = closed, unsaved \subseteq unsaved'
  PROVE  ReviewsHaveEvidence'
BY DEF ReviewsHaveEvidence, TypeOK

LEMMA CompleteReviewEvidence ==
  ASSUME TypeOK, ReviewsHaveEvidence, NEW r \in Responses, CompleteReview(r)
  PROVE  ReviewsHaveEvidence'
<1>1. closed' = closed \cup {<<issued', r>>} /\ unsaved \subseteq unsaved'
  BY DEF CompleteReview
<1>2. \A q \in Responses : archive[q] # None => archive'[q] # None
  BY RowIsThere DEF CompleteReview
<1>3. CASE evidence' = evidence /\ issued' \in unsaved'
  BY <1>1, <1>2, <1>3 DEF ReviewsHaveEvidence, TypeOK
<1>4. CASE /\ archive' = RowEnsured(r)
           /\ evidence' = IF archive'[r] = None THEN evidence ELSE evidence \cup {<<issued', r>>}
  <2>1. archive'[r] # None
    BY <1>4, RowIsThere
  <2>2. evidence' = evidence \cup {<<issued', r>>}
    BY <1>4, <2>1
  <2>3. \A c \in closed' : c \in evidence' \/ c[1] \in unsaved'
    BY <1>1, <2>2 DEF ReviewsHaveEvidence
  <2>4. \A e \in evidence' : archive'[e[2]] # None
    BY <1>2, <2>1, <2>2 DEF ReviewsHaveEvidence, TypeOK
  <2> QED
    BY <2>3, <2>4 DEF ReviewsHaveEvidence
<1> QED
  BY <1>3, <1>4 DEF CompleteReview

LEMMA EvidenceInv == TypeOK /\ ReviewsHaveEvidence /\ [Next]_vars => ReviewsHaveEvidence'
<1> SUFFICES ASSUME TypeOK, ReviewsHaveEvidence, [Next]_vars
             PROVE  ReviewsHaveEvidence'
  OBVIOUS
<1>1. ASSUME NEW r \in Responses, NEW sig \in Reviewed, Evaluate(r, sig)
      PROVE  ReviewsHaveEvidence'
  <2>1. \A q \in Responses : archive[q] # None => archive'[q] # None
    BY <1>1 DEF Evaluate, TypeOK
  <2>2. evidence' = evidence /\ closed' = closed /\ unsaved' = unsaved
    BY <1>1 DEF Evaluate, history
  <2> QED
    BY <2>1, <2>2, EvidenceStays
<1>2. ASSUME NEW r \in Responses, CompleteReview(r)
      PROVE  ReviewsHaveEvidence'
  BY <1>2, CompleteReviewEvidence
<1>3. CASE /\ archive' = archive /\ evidence' = evidence /\ closed' = closed
           /\ unsaved \subseteq unsaved'
  BY <1>3, EvidenceStays
<1>4. \/ \E r \in Responses, sig \in Reviewed : Evaluate(r, sig)
      \/ \E r \in Responses : CompleteReview(r)
      \/ archive' = archive /\ evidence' = evidence /\ closed' = closed /\ unsaved \subseteq unsaved'
  <2>1. CASE Restart \/ UNCHANGED vars
    BY <2>1 DEF Restart, vars, postgres, history
  <2>2. ASSUME NEW t \in Threads, NEW r \in Responses, NEW d \in Decisions,
               NEW c \in BOOLEAN, NEW m \in BOOLEAN, SubmitFeedback(t, r, d, c, m)
        PROVE  <1>4!3
    BY <2>2 DEF SubmitFeedback, postgres, history
  <2>3. ASSUME NEW t \in Threads, NEW report \in Reports, NEW learn \in BOOLEAN,
               NEW update \in BOOLEAN, ProcessResults(t, report, learn, update)
        PROVE  <1>4!3
    BY <2>3 DEF ProcessResults, postgres, history
  <2>4. ASSUME NEW t \in Threads, ThreadStep(t)
        PROVE  <1>4!3
    BY <2>4 DEF ThreadStep, UpdateGraph, NextFailure, Record, SaveFeedback, StorePattern,
                IndexPattern, Track, SaveFailure, postgres, history
  <2> QED
    BY <2>1, <2>2, <2>3, <2>4 DEF Next
<1> QED
  BY <1>1, <1>2, <1>3, <1>4

-----------------------------------------------------------------------------
(* Feedback                                                                *)

\* A step adds to the sink, and in its lists only feedback with ids in N.
SinkGrows(N) ==
  /\ sink' # None
  /\ sink.feedbacks \subseteq sink'.feedbacks
  /\ sink.failures \subseteq sink'.failures /\ sink'.failures \subseteq sink.failures \cup N
  /\ sink.approved \subseteq sink'.approved
  /\ \A p \in sink'.approved : p \in sink.approved \/ p.id \in N

SinkStarts == sink' # None => sink'.failures = {} /\ sink'.approved = {}

\* A step of a process that adds to its stores, with ids in N.
Grows(N) ==
  /\ available' = available
  /\ issued' \in Nat /\ issued <= issued' /\ \A i \in N : i <= issued'
  /\ patterns \subseteq patterns' /\ unsaved \subseteq unsaved'
  /\ feedback \subseteq feedback' /\ failed \subseteq failed'
  /\ sink # None => SinkGrows(N)
  /\ sink = None => SinkStarts
  /\ \A a \in answers' : a \in answers \/ (a.id \in N /\ sink # None)

\* Threads that a step leaves where they are.
Unmoved(S) == \A u \in S : pc'[u] = pc[u] /\ call'[u] = call[u]

\* What grows with new ids leaves everything that is kept for other ids alone.
LEMMA TheOthersAreKept ==
  ASSUME TypeOK, KeptInv, NEW S \in SUBSET Threads, NEW N \in SUBSET Nat,
         Unmoved(S), Grows(N),
         \A u \in S : pc[u] \in Working => call[u].id \notin N,
         \A a \in answers : a.id \notin N
  PROVE  /\ \A u \in S : ThreadIsKept(u)'
         /\ \A a \in answers : Kept(a)'
         /\ IdsIssued'
<1>1. ASSUME NEW u \in S
      PROVE  ThreadIsKept(u)'
  <2>1. /\ u \in Threads /\ ThreadIsKept(u)
        /\ pc'[u] = pc[u] /\ call'[u] = call[u] /\ Entry(u)' = Entry(u)
    BY DEF KeptInv, Unmoved, Entry
  <2>2. pc[u] # "idle" => sink # None /\ SinkGrows(N)
    BY <2>1 DEF ThreadIsKept, Grows
  <2>3. call'[u].id <= issued'
    <3>1. call[u].id \in Nat /\ issued \in Nat /\ issued' \in Nat /\ issued <= issued'
      BY <2>1 DEF TypeOK, Calls, Grows
    <3>2. call[u].id <= issued
      BY <2>1 DEF ThreadIsKept
    <3> QED
      BY <2>1, <3>1, <3>2, SMT
  <2>4. pc[u] \in Working =>
          /\ \A a \in answers' : a.id # call[u].id
          /\ \A p \in sink'.approved : p.id # call[u].id
          /\ pc[u] # "savefailure" => call[u].id \notin sink'.failures
    <3> SUFFICES ASSUME pc[u] \in Working
                 PROVE  <2>4!2
      OBVIOUS
    <3>1. call[u].id \notin N /\ pc[u] # "idle"
      BY DEF Working, Saving
    <3> QED
      BY <2>1, <2>2, <3>1 DEF ThreadIsKept, SinkGrows, Grows
  <2>5. pc[u] \in Saving => call[u].decision \in ValidDecisions /\ Entry(u) \in sink'.feedbacks
    BY <2>1, <2>2 DEF ThreadIsKept, SinkGrows, Saving
  <2>6. pc[u] \in Saving \ {"save"} =>
          call[u].id \in unsaved' \/ (available' /\ call[u].id \in feedback')
    BY <2>1 DEF ThreadIsKept, Grows
  <2>7. pc[u] = "savefailure" => call[u].decision = "REJECT" /\ call[u].id \in sink'.failures
    BY <2>1, <2>2 DEF ThreadIsKept, SinkGrows
  <2>8. call[u].stored \/ call[u].indexed => call[u].id \in patterns'
    BY <2>1 DEF ThreadIsKept, Grows
  <2>9. pc[u] # "idle" => sink' # None
    BY <2>2 DEF SinkGrows
  <2> QED
    BY <2>1, <2>3, <2>4, <2>5, <2>6, <2>7, <2>8, <2>9 DEF ThreadIsKept
<1>2. ASSUME NEW a \in answers
      PROVE  Kept(a)'
  <2>1. Kept(a) /\ sink # None /\ a.id \notin N
    BY DEF KeptInv, FeedbackIsKept, IdsIssued
  <2>2. SinkGrows(N)
    BY <2>1 DEF Grows
  <2>3. /\ [id |-> a.id, decision |-> a.decision] \in sink'.feedbacks
        /\ a.id \in sink.failures <=> a.id \in sink'.failures
    BY <2>1, <2>2 DEF Kept, SinkGrows
  <2>4. [id |-> a.id, stored |-> a.stored] \in sink.approved
          <=> [id |-> a.id, stored |-> a.stored] \in sink'.approved
    BY <2>1, <2>2 DEF SinkGrows
  <2>5. /\ a.id \in unsaved' \/ (a.id \in feedback' /\ (a.decision = "REJECT" => a.id \in failed'))
        /\ a.stored \/ a.indexed => a.id \in patterns'
    BY <2>1 DEF Kept, Grows
  <2> QED
    BY <2>1, <2>3, <2>4, <2>5 DEF Kept
<1>3. IdsIssued'
  <2>1. ASSUME sink' # None
        PROVE  /\ \A i \in sink'.failures : i \in N \/ (sink # None /\ i \in sink.failures)
               /\ \A p \in sink'.approved : p.id \in N \/ (sink # None /\ p \in sink.approved)
    BY <2>1 DEF Grows, SinkGrows, SinkStarts
  <2>2. \A i \in Nat : i <= issued => i <= issued'
    BY SMT DEF Grows, TypeOK
  <2>3. ASSUME sink # None
        PROVE  /\ \A i \in sink.failures : i \in Nat /\ i <= issued
               /\ \A p \in sink.approved : p.id \in Nat /\ p.id <= issued
    BY <2>3 DEF TypeOK, SinkStates, KeptInv, IdsIssued
  <2>4. \A a \in answers : a.id \in Nat /\ a.id <= issued
    BY DEF TypeOK, Answers, KeptInv, IdsIssued
  <2>5. \A i \in N : i <= issued'
    BY DEF Grows
  <2>6. answers' # {} => sink' # None
    BY DEF Grows, SinkGrows, KeptInv, IdsIssued
  <2>7. \A a \in answers' : a.id <= issued'
    BY <2>2, <2>4, <2>5 DEF Grows
  <2>8. sink' # None => /\ \A i \in sink'.failures : i <= issued'
                        /\ \A p \in sink'.approved : p.id <= issued'
    BY <2>1, <2>2, <2>3, <2>5
  <2> QED
    BY <2>6, <2>7, <2>8 DEF IdsIssued
<1> QED
  BY <1>1, <1>2, <1>3

\* One thread moves; if it works then with an id that no other worker has.
LEMMA IdsStayDifferent ==
  ASSUME KeptInv, NEW t \in Threads, Unmoved(Threads \ {t}),
         pc'[t] \in Working =>
            \A u \in Threads \ {t} : pc[u] \in Working => call[u].id # call'[t].id
  PROVE  IdsDiffer'
BY DEF KeptInv, IdsDiffer, Unmoved

\* So the invariant holds after a step of t if t itself is kept, and what is
\* newly answered.
LEMMA KeptAfter ==
  ASSUME TypeOK, KeptInv, NEW t \in Threads, NEW N \in SUBSET Nat,
         Unmoved(Threads \ {t}), Grows(N),
         \A u \in Threads \ {t} : pc[u] \in Working => call[u].id \notin N,
         \A a \in answers : a.id \notin N,
         pc'[t] \in Working =>
            \A u \in Threads \ {t} : pc[u] \in Working => call[u].id # call'[t].id,
         ThreadIsKept(t)',
         \A a \in answers' \ answers : Kept(a)'
  PROVE  KeptInv'
<1>1. /\ \A u \in Threads \ {t} : ThreadIsKept(u)'
      /\ \A a \in answers : Kept(a)'
      /\ IdsIssued'
  BY TheOthersAreKept
<1>2. IdsDiffer'
  BY IdsStayDifferent
<1> QED
  BY <1>1, <1>2 DEF KeptInv, FeedbackIsKept

LEMMA InitKept == Init => KeptInv
<1> SUFFICES ASSUME Init
             PROVE  KeptInv
  OBVIOUS
<1>1. \A t \in Threads : ThreadIsKept(t)
  BY IdleCall DEF Init, ThreadIsKept, Working, Saving
<1>2. IdsDiffer /\ IdsIssued /\ FeedbackIsKept
  BY DEF Init, IdsDiffer, IdsIssued, FeedbackIsKept, Working, Saving
<1> QED
  BY <1>1, <1>2 DEF KeptInv

\* A step that hands out one id, and adds nothing to the lists of the sink.
LEMMA OneMoreGrows ==
  ASSUME TypeOK, issued' = issued + 1 \/ issued' = issued,
         available' = available, patterns' = patterns, unsaved \subseteq unsaved',
         feedback' = feedback, failed' = failed, answers' = answers,
         sink' = sink \/ \E s \in Sinks : \/ sink' = s
                                          \/ \E n \in Nat : sink' = [s EXCEPT !.reviews = @ \cup {n}]
  PROVE  Grows({})
<1>1. issued' \in Nat /\ issued <= issued'
  BY SMT DEF TypeOK
<1>2. CASE sink' = sink
  BY <1>1, <1>2 DEF Grows, SinkGrows, SinkStarts
<1>3. ASSUME NEW s \in Sinks,
             sink' = s \/ \E n \in Nat : sink' = [s EXCEPT !.reviews = @ \cup {n}]
      PROVE  Grows({})
  <2>1. s \in SinkStates /\ (sink # None => s = sink)
    BY ASink
  <2>2. sink' \in SinkStates /\ sink' # None
    BY <1>3, <2>1, ReviewAssumption DEF SinkStates
  <2>3. /\ sink'.feedbacks = s.feedbacks /\ sink'.failures = s.failures
        /\ sink'.approved = s.approved
    BY <1>3, <2>1 DEF SinkStates
  <2>4. sink = None => s.failures = {} /\ s.approved = {}
    BY DEF Sinks, NewSinks
  <2>5. sink # None => SinkGrows({})
    BY <2>1, <2>2, <2>3 DEF SinkGrows
  <2>6. sink = None => SinkStarts
    BY <2>3, <2>4 DEF SinkStarts
  <2> QED
    BY <1>1, <2>5, <2>6 DEF Grows
<1> QED
  BY <1>2, <1>3

LEMMA EvaluateKept ==
  ASSUME TypeOK, KeptInv, NEW r \in Responses, NEW sig \in Reviewed, Evaluate(r, sig)
  PROVE  KeptInv'
<1>1. Grows({}) /\ Unmoved(Threads) /\ answers' = answers
  BY OneMoreGrows DEF Evaluate, stores, history, Unmoved
<1>2. IdsDiffer'
  BY <1>1 DEF KeptInv, IdsDiffer, Unmoved
<1> QED
  BY <1>1, <1>2, TheOthersAreKept DEF KeptInv, FeedbackIsKept

LEMMA CompleteReviewKept ==
  ASSUME TypeOK, KeptInv, NEW r \in Responses, CompleteReview(r)
  PROVE  KeptInv'
<1>1. issued' = issued + 1 /\ issued' \in Nat
  BY DEF CompleteReview, TypeOK
<1>2. \E s \in Sinks : \E n \in Nat : sink' = [s EXCEPT !.reviews = @ \cup {n}]
  BY <1>1 DEF CompleteReview
<1>3. /\ available' = available /\ patterns' = patterns /\ unsaved \subseteq unsaved'
      /\ feedback' = feedback /\ failed' = failed /\ answers' = answers
  BY DEF CompleteReview, stores
<1>4. Grows({})
  BY <1>1, <1>2, <1>3, OneMoreGrows
<1>5. Unmoved(Threads)
  BY DEF CompleteReview, Unmoved
<1>6. IdsDiffer'
  BY <1>5 DEF KeptInv, IdsDiffer, Unmoved
<1> QED
  BY <1>3, <1>4, <1>5, <1>6, TheOthersAreKept DEF KeptInv, FeedbackIsKept

\* A thread whose request is new.
LEMMA NewRequestKept ==
  ASSUME TypeOK, KeptInv, NEW t \in Threads, NEW c \in Calls,
         sink' \in Sinks, issued' = issued + 1, c.id = issued', ~ c.stored, ~ c.indexed,
         call' = [call EXCEPT ![t] = c],
         \E place \in {"record", "graph", "next"} : pc' = [pc EXCEPT ![t] = place],
         UNCHANGED <<available, feedback, failed, patterns, unsaved, answers>>
  PROVE  KeptInv'
<1>1. /\ call'[t] = c /\ pc'[t] \in {"record", "graph", "next"}
      /\ Unmoved(Threads \ {t})
  BY DEF TypeOK, Unmoved
<1>2. Grows({})
  BY OneMoreGrows
<1>3. /\ \A u \in Threads : call[u].id \in Nat /\ call[u].id <= issued
      /\ \A a \in answers : a.id \in Nat /\ a.id <= issued
      /\ issued \in Nat
  BY DEF TypeOK, Calls, Answers, KeptInv, ThreadIsKept, IdsIssued
<1>4. /\ \A u \in Threads : call[u].id # c.id
      /\ \A a \in answers : a.id # c.id
      /\ c.id <= issued'
  BY <1>3, SMT
<1>5. /\ sink' # None
      /\ \A p \in sink'.approved : p.id # c.id
      /\ c.id \notin sink'.failures
  <2>1. sink' \in SinkStates /\ sink' # None /\ (sink # None => sink' = sink)
    BY ASink
  <2>2. CASE sink = None
    <3>1. sink'.approved = {} /\ sink'.failures = {}
      BY <2>2 DEF Sinks, NewSinks
    <3> QED
      BY <2>1, <3>1
  <2>3. CASE sink # None
    <3>1. /\ \A p \in sink.approved : p.id \in Nat /\ p.id <= issued
          /\ \A i \in sink.failures : i \in Nat /\ i <= issued
      BY <2>3 DEF TypeOK, SinkStates, KeptInv, IdsIssued
    <3>2. issued + 1 \in Nat /\ \A i \in Nat : i <= issued => i # issued + 1
      BY <1>3, SMT
    <3> QED
      BY <2>1, <2>3, <3>1, <3>2
  <2> QED
    BY <2>2, <2>3
<1>6. ThreadIsKept(t)'
  BY <1>1, <1>4, <1>5 DEF ThreadIsKept, Working, Saving
<1>7. \A a \in answers' \ answers : Kept(a)'
  OBVIOUS
<1> QED
  BY <1>1, <1>2, <1>4, <1>6, <1>7, KeptAfter

LEMMA SubmitFeedbackKept ==
  ASSUME TypeOK, KeptInv, NEW t \in Threads, NEW r \in Responses, NEW d \in Decisions,
         NEW c \in BOOLEAN, NEW m \in BOOLEAN, SubmitFeedback(t, r, d, c, m)
  PROVE  KeptInv'
<1> DEFINE new == [Idle EXCEPT !.id = issued', !.resp = r, !.decision = d, !.context = c, !.module = m]
<1>1. issued' \in Nat /\ issued' = issued + 1
  BY DEF SubmitFeedback, TypeOK
<1>2. new \in Calls /\ new.id = issued' /\ ~ new.stored /\ ~ new.indexed
  BY <1>1, IdleCall DEF Calls
<1>3. /\ call' = [call EXCEPT ![t] = new] /\ pc' = [pc EXCEPT ![t] = "record"]
      /\ sink' \in Sinks
      /\ UNCHANGED <<available, feedback, failed, patterns, unsaved, answers>>
  BY DEF SubmitFeedback, postgres, stores, history
<1> HIDE DEF new
<1> QED
  BY <1>1, <1>2, <1>3, NewRequestKept

LEMMA ProcessResultsKept ==
  ASSUME TypeOK, KeptInv, NEW t \in Threads, NEW report \in Reports,
         NEW learn \in BOOLEAN, NEW update \in BOOLEAN, ProcessResults(t, report, learn, update)
  PROVE  KeptInv'
<1> DEFINE new == [Idle EXCEPT !.id = issued', !.todo = report, !.learn = learn]
<1>1. issued' \in Nat /\ issued' = issued + 1
  BY DEF ProcessResults, TypeOK
<1>2. new \in Calls /\ new.id = issued' /\ ~ new.stored /\ ~ new.indexed
  BY <1>1, IdleCall, ReviewAssumption DEF Calls
<1>3. /\ call' = [call EXCEPT ![t] = new]
      /\ \E place \in {"record", "graph", "next"} : pc' = [pc EXCEPT ![t] = place]
      /\ sink' \in Sinks
      /\ UNCHANGED <<available, feedback, failed, patterns, unsaved, answers>>
  BY DEF ProcessResults, postgres, stores, history
<1> HIDE DEF new
<1> QED
  BY <1>1, <1>2, <1>3, NewRequestKept

\* A thread that is between feedbacks.
LEMMA RestingIsKept ==
  ASSUME TypeOK, KeptInv, NEW t \in Threads, Unmoved(Threads \ {t}),
         sink' = sink, UNCHANGED <<available, issued, feedback, failed, patterns, unsaved, answers>>,
         pc'[t] \in {"idle", "graph", "next"}, pc'[t] # "idle" => sink # None,
         call'[t].id <= issued, call'[t].stored \/ call'[t].indexed => call'[t].id \in patterns
  PROVE  KeptInv'
<1>1. Grows({})
  BY OneMoreGrows
<1>2. ThreadIsKept(t)'
  BY DEF ThreadIsKept, Working, Saving
<1>3. pc'[t] \notin Working /\ answers' = answers
  BY DEF Working, Saving
<1> QED
  BY <1>1, <1>2, <1>3, KeptAfter

LEMMA UpdateGraphKept ==
  ASSUME TypeOK, KeptInv, NEW t \in Threads, UpdateGraph(t)
  PROVE  KeptInv'
<1>1. /\ pc'[t] = "next" /\ call' = call /\ Unmoved(Threads \ {t}) /\ sink # None
      /\ UNCHANGED <<available, sink, issued, feedback, failed, patterns, unsaved, answers>>
  BY WorkerSink DEF UpdateGraph, TypeOK, Unmoved, postgres, history
<1>2. /\ call[t].id <= issued
      /\ call[t].stored \/ call[t].indexed => call[t].id \in patterns
  BY DEF KeptInv, ThreadIsKept
<1> QED
  BY <1>1, <1>2, RestingIsKept

LEMMA NextFailureKept ==
  ASSUME TypeOK, KeptInv, NEW t \in Threads, NextFailure(t)
  PROVE  KeptInv'
<1>1. call[t] \in Calls /\ call[t].todo \in Seq(Reported \cup {None}) /\ issued \in Nat
  BY DEF TypeOK, Calls
<1>2. sink # None /\ UNCHANGED <<available, sink, feedback, failed, patterns, unsaved, answers>>
  BY WorkerSink DEF NextFailure, postgres, stores, history
<1>3. CASE call[t].todo = <<>> \/ ~ call[t].learn
  <2>1. pc'[t] = "idle" /\ call'[t] = Idle /\ issued' = issued /\ Unmoved(Threads \ {t})
    BY <1>3 DEF NextFailure, TypeOK, Unmoved
  <2>2. Idle.id <= issued
    BY <1>1, IdleCall, SMT
  <2> QED
    BY <1>2, <2>1, <2>2, IdleCall, RestingIsKept
<1>4. CASE ~ (call[t].todo = <<>> \/ ~ call[t].learn) /\ Head(call[t].todo) = None
  <2>1. /\ pc' = pc /\ call'[t] = [call[t] EXCEPT !.todo = Tail(call[t].todo)]
        /\ issued' = issued /\ Unmoved(Threads \ {t})
    BY <1>4 DEF NextFailure, TypeOK, Unmoved
  <2>2. /\ call'[t].id = call[t].id /\ call'[t].stored = call[t].stored
        /\ call'[t].indexed = call[t].indexed
    BY <1>1, <2>1 DEF Calls
  <2>3. /\ call[t].id <= issued
        /\ call[t].stored \/ call[t].indexed => call[t].id \in patterns
    BY DEF KeptInv, ThreadIsKept
  <2>4. pc[t] = "next"
    BY DEF NextFailure
  <2> QED
    BY <1>2, <2>1, <2>2, <2>3, <2>4, RestingIsKept
<1>5. CASE ~ (call[t].todo = <<>> \/ ~ call[t].learn) /\ Head(call[t].todo) # None
  <2> DEFINE new == [Idle EXCEPT !.id = issued', !.resp = Head(call[t].todo), !.decision = "REJECT",
                                 !.todo = Tail(call[t].todo), !.learn = TRUE]
  <2>1. issued' = issued + 1 /\ issued' \in Nat
    BY <1>1, <1>5 DEF NextFailure
  <2>2. Head(call[t].todo) \in Reported \cup {None} /\ Tail(call[t].todo) \in Seq(Reported \cup {None})
    BY <1>1, <1>5
  <2>3. new \in Calls /\ new.id = issued' /\ ~ new.stored /\ ~ new.indexed
    BY <2>1, <2>2, IdleCall DEF Calls
  <2>4. call' = [call EXCEPT ![t] = new] /\ pc' = [pc EXCEPT ![t] = "record"]
    BY <1>5 DEF NextFailure
  <2>5. sink' \in Sinks
    BY <1>2 DEF Sinks
  <2> HIDE DEF new
  <2> QED
    BY <1>2, <2>1, <2>3, <2>4, <2>5, NewRequestKept
<1> QED
  BY <1>3, <1>4, <1>5

\* A thread at work: what it adds bears its id, and nobody else's.
LEMMA WorkerKept ==
  ASSUME TypeOK, KeptInv, NEW t \in Threads, pc[t] \in Working,
         Unmoved(Threads \ {t}), Grows({call[t].id}),
         call'[t].id = call[t].id \/ pc'[t] \notin Working,
         ThreadIsKept(t)',
         \A a \in answers' \ answers : Kept(a)'
  PROVE  KeptInv'
<1>1. {call[t].id} \in SUBSET Nat
  BY DEF TypeOK, Calls
<1>2. \A u \in Threads \ {t} : pc[u] \in Working => call[u].id # call[t].id
  BY DEF KeptInv, IdsDiffer
<1>3. \A a \in answers : a.id # call[t].id
  BY DEF KeptInv, ThreadIsKept
<1> QED
  BY <1>1, <1>2, <1>3, KeptAfter

\* What a worker may rely on.
LEMMA Worker ==
  ASSUME TypeOK, KeptInv, NEW t \in Threads, pc[t] \in Working
  PROVE  /\ sink \in SinkStates /\ sink # None
         /\ call[t] \in Calls /\ call[t].id \in Nat /\ issued \in Nat /\ call[t].id <= issued
         /\ ThreadIsKept(t)
<1>1. pc[t] # "idle"
  BY DEF Working, Saving
<1> QED
  BY <1>1, WorkerSink DEF TypeOK, Calls, KeptInv, ThreadIsKept

\* A worker that writes to a store, and leaves the sink and the answers alone.
LEMMA WritingGrows ==
  ASSUME TypeOK, KeptInv, NEW t \in Threads, pc[t] \in Working,
         UNCHANGED <<available, issued, sink, answers>>,
         patterns \subseteq patterns', unsaved \subseteq unsaved',
         feedback \subseteq feedback', failed \subseteq failed'
  PROVE  Grows({call[t].id})
BY Worker DEF Grows, SinkGrows

LEMMA RecordKept ==
  ASSUME TypeOK, KeptInv, NEW t \in Threads, Record(t)
  PROVE  KeptInv'
<1>1. pc[t] \in Working /\ pc[t] = "record"
  BY DEF Record, Working
<1>2. ThreadIsKept(t) /\ sink \in SinkStates /\ sink # None
  BY <1>1, Worker
<1>3. UNCHANGED <<available, issued, feedback, failed, patterns, unsaved, answers>>
  BY DEF Record, postgres, stores, history
<1>4. CASE call[t].decision \in ValidDecisions
  <2>1. /\ pc'[t] = "save" /\ call' = call /\ Unmoved(Threads \ {t})
        /\ sink' = [sink EXCEPT !.feedbacks = @ \cup {Entry(t)}]
    BY <1>4 DEF Record, TypeOK, Unmoved
  <2>2. Entry(t) \in [id : Nat, decision : ValidDecisions] /\ Entry(t)' = Entry(t)
    BY <1>4, <2>1 DEF Entry, TypeOK, Calls
  <2>3. sink' \in SinkStates /\ sink' # None
    BY <1>2, <2>1, <2>2, ReviewAssumption DEF SinkStates
  <2>4. /\ sink'.feedbacks = sink.feedbacks \cup {Entry(t)}
        /\ sink'.failures = sink.failures /\ sink'.approved = sink.approved
    BY <1>2, <2>1 DEF SinkStates
  <2>5. Grows({call[t].id})
    BY <1>1, <1>2, <1>3, <2>3, <2>4, Worker DEF Grows, SinkGrows
  <2>6. ThreadIsKept(t)'
    BY <1>1, <1>2, <1>3, <1>4, <2>1, <2>2, <2>3, <2>4 DEF ThreadIsKept, Working, Saving
  <2> QED
    BY <1>1, <1>3, <2>1, <2>5, <2>6, WorkerKept
<1>5. CASE call[t].decision \notin ValidDecisions
  <2>1. /\ pc'[t] = "idle" /\ call'[t] = Idle /\ sink' = sink /\ Unmoved(Threads \ {t})
    BY <1>5 DEF Record, TypeOK, Unmoved
  <2>2. Idle.id <= issued
    BY IdleCall, SMT DEF TypeOK
  <2> QED
    BY <1>3, <2>1, <2>2, IdleCall, RestingIsKept
<1> QED
  BY <1>4, <1>5

LEMMA SaveFeedbackKept ==
  ASSUME TypeOK, KeptInv, NEW t \in Threads, SaveFeedback(t)
  PROVE  KeptInv'
<1>1. pc[t] \in Working /\ pc[t] = "save"
  BY DEF SaveFeedback, Working, Saving
<1>2. ThreadIsKept(t) /\ sink # None
  BY <1>1, Worker
<1>3. /\ UNCHANGED <<available, issued, sink, answers, patterns, failed>> /\ call' = call
      /\ feedback \subseteq feedback' /\ unsaved \subseteq unsaved'
      /\ Unmoved(Threads \ {t})
  BY DEF SaveFeedback, stores, TypeOK, Unmoved
<1>4. pc'[t] \in {"store", "track"} /\ Entry(t)' = Entry(t)
  BY <1>3 DEF SaveFeedback, TypeOK, Entry
<1>5. call[t].id \in unsaved' \/ (available' /\ call[t].id \in feedback')
  BY DEF SaveFeedback
<1>6. Grows({call[t].id})
  BY <1>1, <1>3, WritingGrows
<1>7. ThreadIsKept(t)'
  BY <1>1, <1>2, <1>3, <1>4, <1>5 DEF ThreadIsKept, Working, Saving
<1> QED
  BY <1>1, <1>3, <1>6, <1>7, WorkerKept

LEMMA StorePatternKept ==
  ASSUME TypeOK, KeptInv, NEW t \in Threads, StorePattern(t)
  PROVE  KeptInv'
<1>1. pc[t] \in Working /\ pc[t] = "store"
  BY DEF StorePattern, Working, Saving
<1>2. ThreadIsKept(t) /\ sink # None /\ call[t] \in Calls
  BY <1>1, Worker
<1>3. /\ UNCHANGED <<available, issued, sink, answers, feedback, unsaved, failed>>
      /\ patterns \subseteq patterns' /\ Unmoved(Threads \ {t}) /\ pc'[t] = "index"
  BY DEF StorePattern, postgres, history, TypeOK, Unmoved
<1>4. /\ call'[t].id = call[t].id /\ call'[t].decision = call[t].decision
      /\ Entry(t)' = Entry(t)
      /\ call'[t].stored \/ call'[t].indexed => call[t].id \in patterns'
  <2>1. CASE call' = call
    BY <1>2, <1>3, <2>1 DEF ThreadIsKept, Entry
  <2>2. CASE call' = [call EXCEPT ![t].stored = TRUE] /\ patterns' = patterns \cup {call[t].id}
    BY <1>2, <2>2 DEF Calls, Entry, TypeOK
  <2> QED
    BY <2>1, <2>2 DEF StorePattern
<1>5. Grows({call[t].id})
  BY <1>1, <1>3, WritingGrows
<1>6. ThreadIsKept(t)'
  BY <1>1, <1>2, <1>3, <1>4 DEF ThreadIsKept, Working, Saving
<1> QED
  BY <1>1, <1>3, <1>4, <1>5, <1>6, WorkerKept

LEMMA IndexPatternKept ==
  ASSUME TypeOK, KeptInv, NEW t \in Threads, IndexPattern(t)
  PROVE  KeptInv'
<1>1. pc[t] \in Working /\ pc[t] = "index"
  BY DEF IndexPattern, Working, Saving
<1>2. ThreadIsKept(t) /\ sink # None /\ call[t] \in Calls
  BY <1>1, Worker
<1>3. /\ UNCHANGED <<available, issued, sink, answers, feedback, unsaved, failed>>
      /\ patterns \subseteq patterns' /\ Unmoved(Threads \ {t}) /\ pc'[t] = "track"
  BY DEF IndexPattern, postgres, history, TypeOK, Unmoved
<1>4. /\ call'[t].id = call[t].id /\ call'[t].decision = call[t].decision
      /\ Entry(t)' = Entry(t)
      /\ call'[t].stored \/ call'[t].indexed => call[t].id \in patterns'
  <2>1. CASE call' = call
    BY <1>2, <1>3, <2>1 DEF ThreadIsKept, Entry
  <2>2. CASE call' = [call EXCEPT ![t].indexed = TRUE] /\ patterns' = patterns \cup {call[t].id}
    BY <1>2, <2>2 DEF Calls, Entry, TypeOK
  <2> QED
    BY <2>1, <2>2 DEF IndexPattern
<1>5. Grows({call[t].id})
  BY <1>1, <1>3, WritingGrows
<1>6. ThreadIsKept(t)'
  BY <1>1, <1>2, <1>3, <1>4 DEF ThreadIsKept, Working, Saving
<1> QED
  BY <1>1, <1>3, <1>4, <1>5, <1>6, WorkerKept

\* The sink after Track: the id is in the list that the decision belongs to.
LEMMA TrackedLists ==
  ASSUME TypeOK, KeptInv, NEW t \in Threads, pc[t] = "track"
  PROVE  /\ Tracked(t).feedbacks = sink.feedbacks
         /\ sink.failures \subseteq Tracked(t).failures
         /\ Tracked(t).failures \subseteq sink.failures \cup {call[t].id}
         /\ sink.approved \subseteq Tracked(t).approved
         /\ \A p \in Tracked(t).approved : p \in sink.approved \/ p.id = call[t].id
         /\ call[t].decision = "REJECT" <=> call[t].id \in Tracked(t).failures
         /\ call[t].decision \in Approvals
              <=> [id |-> call[t].id, stored |-> call[t].stored] \in Tracked(t).approved
         /\ call[t].decision = "REJECT" => Tracked(t).approved = sink.approved
<1>1. pc[t] \in Working
  BY DEF Working, Saving
<1>2. /\ sink \in SinkStates
      /\ call[t].id \notin sink.failures /\ \A p \in sink.approved : p.id # call[t].id
  BY <1>1, Worker DEF ThreadIsKept
<1>3. CASE call[t].decision \in Approvals
  <2>1. Tracked(t) = [sink EXCEPT !.approved = @ \cup {[id |-> call[t].id, stored |-> call[t].stored]}]
    BY <1>3 DEF Tracked, Approved
  <2>2. call[t].decision # "REJECT"
    BY <1>3 DEF Approvals
  <2> QED
    BY <1>2, <1>3, <2>1, <2>2 DEF SinkStates
<1>4. CASE call[t].decision = "REJECT"
  <2>1. call[t].decision \notin Approvals
    BY <1>4 DEF Approvals
  <2>2. Tracked(t) = [sink EXCEPT !.failures = @ \cup {call[t].id}]
    BY <1>4, <2>1 DEF Tracked, Approved
  <2> QED
    BY <1>2, <1>4, <2>1, <2>2 DEF SinkStates
<1>5. CASE call[t].decision \notin Approvals /\ call[t].decision # "REJECT"
  <2>1. Tracked(t) = sink
    BY <1>5 DEF Tracked, Approved
  <2> QED
    BY <1>2, <1>5, <2>1
<1> QED
  BY <1>3, <1>4, <1>5

LEMMA TrackKept ==
  ASSUME TypeOK, KeptInv, NEW t \in Threads, Track(t)
  PROVE  KeptInv'
<1>1. pc[t] \in Working /\ pc[t] = "track"
  BY DEF Track, Working, Saving
<1>2. /\ ThreadIsKept(t) /\ sink # None /\ call[t].id \in Nat /\ issued \in Nat
      /\ call[t].id <= issued
  BY <1>1, Worker
<1>3. /\ UNCHANGED <<available, issued, call, patterns, feedback, unsaved, failed>>
      /\ Unmoved(Threads \ {t}) /\ sink' = Tracked(t)
  BY DEF Track, Answered, postgres, stores, TypeOK, Unmoved
<1>4. sink' # None
  BY <1>1, <1>3, TrackedSink, ReviewAssumption
<1>5. Entry(t) \in sink'.feedbacks /\ Entry(t)' = Entry(t) /\ call[t].decision \in ValidDecisions
  BY <1>1, <1>2, <1>3, TrackedLists DEF ThreadIsKept, Saving, Entry
<1>6. SinkGrows({call[t].id})
  BY <1>1, <1>3, <1>4, TrackedLists DEF SinkGrows
<1>7. CASE call[t].decision = "REJECT" /\ available
  <2>1. pc'[t] = "savefailure" /\ answers' = answers
    BY <1>7 DEF Track, TypeOK
  <2>2. Grows({call[t].id})
    BY <1>2, <1>3, <1>6, <2>1 DEF Grows
  <2>3. /\ sink'.approved = sink.approved /\ call[t].id \in sink'.failures
    BY <1>1, <1>3, <1>7, TrackedLists
  <2>4. ThreadIsKept(t)'
    BY <1>1, <1>2, <1>3, <1>4, <1>5, <1>7, <2>1, <2>3 DEF ThreadIsKept, Working, Saving
  <2> QED
    BY <1>1, <1>3, <2>1, <2>2, <2>4, WorkerKept
<1>8. CASE ~ (call[t].decision = "REJECT" /\ available)
  <2> DEFINE a == [id |-> call[t].id, decision |-> call[t].decision, context |-> call[t].context,
                   stored |-> call[t].stored, indexed |-> call[t].indexed]
  <2>1. pc'[t] = "next" /\ answers' = answers \cup {a}
    BY <1>8 DEF Track, Answered, TypeOK
  <2>2. Grows({call[t].id})
    BY <1>2, <1>3, <1>6, <2>1 DEF Grows
  <2>3. ThreadIsKept(t)'
    BY <1>2, <1>3, <1>4, <2>1 DEF ThreadIsKept, Working, Saving
  <2>4. /\ [id |-> a.id, decision |-> a.decision] \in sink'.feedbacks
        /\ a.decision = "REJECT" <=> a.id \in sink'.failures
        /\ a.decision \in Approvals <=> [id |-> a.id, stored |-> a.stored] \in sink'.approved
    BY <1>1, <1>3, <1>5, TrackedLists DEF Entry
  <2>5. a.id \in unsaved' \/ (a.id \in feedback' /\ (a.decision = "REJECT" => a.id \in failed'))
    BY <1>1, <1>2, <1>3, <1>8 DEF ThreadIsKept, Saving
  <2>6. a.stored \/ a.indexed => a.id \in patterns'
    BY <1>2, <1>3 DEF ThreadIsKept
  <2>7. ASSUME NEW b \in answers' \ answers
        PROVE  Kept(b)'
    <3>1. b = a
      BY <2>1
    <3> HIDE DEF a
    <3> QED
      BY <2>4, <2>5, <2>6, <3>1 DEF Kept
  <2> QED
    BY <1>1, <1>3, <2>1, <2>2, <2>3, <2>7, WorkerKept
<1> QED
  BY <1>7, <1>8

LEMMA SaveFailureKept ==
  ASSUME TypeOK, KeptInv, NEW t \in Threads, SaveFailure(t)
  PROVE  KeptInv'
<1> DEFINE a == [id |-> call[t].id, decision |-> call[t].decision, context |-> call[t].context,
                 stored |-> call[t].stored, indexed |-> call[t].indexed]
<1>1. pc[t] \in Working /\ pc[t] = "savefailure"
  BY DEF SaveFailure, Working, Saving
<1>2. ThreadIsKept(t) /\ sink \in SinkStates /\ sink # None
  BY <1>1, Worker
<1>3. /\ UNCHANGED <<available, issued, call, sink, patterns, feedback>>
      /\ unsaved \subseteq unsaved' /\ failed \subseteq failed'
      /\ Unmoved(Threads \ {t}) /\ pc'[t] = "next" /\ answers' = answers \cup {a}
  BY DEF SaveFailure, Answered, stores, TypeOK, Unmoved
<1>4. call[t].id \in unsaved' \/ call[t].id \in failed'
  BY DEF SaveFailure
<1>5. Grows({call[t].id})
  BY <1>1, <1>2, <1>3, Worker DEF Grows, SinkGrows
<1>6. ThreadIsKept(t)'
  BY <1>2, <1>3 DEF ThreadIsKept, Working, Saving
<1>7. ASSUME NEW b \in answers' \ answers
      PROVE  Kept(b)'
  <2>1. [id |-> a.id, decision |-> a.decision] \in sink'.feedbacks
    BY <1>1, <1>2, <1>3 DEF ThreadIsKept, Saving, Entry
  <2>2. a.decision = "REJECT" /\ a.id \in sink'.failures
    BY <1>1, <1>2, <1>3 DEF ThreadIsKept
  <2>3. a.decision \notin Approvals
    BY <2>2 DEF Approvals
  <2>4. [id |-> a.id, stored |-> a.stored] \notin sink'.approved
    BY <1>1, <1>2, <1>3 DEF ThreadIsKept
  <2>5. a.id \in unsaved' \/ (a.id \in feedback' /\ a.id \in failed')
    BY <1>1, <1>2, <1>3, <1>4 DEF ThreadIsKept, Saving
  <2>6. a.stored \/ a.indexed => a.id \in patterns'
    BY <1>2, <1>3 DEF ThreadIsKept
  <2>7. b = a
    BY <1>3
  <2> HIDE DEF a
  <2> QED
    BY <2>1, <2>2, <2>3, <2>4, <2>5, <2>6, <2>7 DEF Kept
<1> QED
  BY <1>1, <1>3, <1>5, <1>6, <1>7, WorkerKept

LEMMA RestartKept ==
  ASSUME TypeOK, KeptInv, Restart
  PROVE  KeptInv'
<1>1. /\ answers' = {} /\ sink' = None /\ issued' = issued
      /\ \A t \in Threads : pc'[t] = "idle" /\ call'[t] = Idle
  BY DEF Restart
<1>2. Idle.id <= issued
  BY IdleCall, SMT DEF TypeOK
<1>3. \A t \in Threads : ThreadIsKept(t)'
  BY <1>1, <1>2, IdleCall DEF ThreadIsKept, Working, Saving
<1>4. IdsDiffer' /\ IdsIssued' /\ FeedbackIsKept'
  BY <1>1 DEF IdsDiffer, IdsIssued, FeedbackIsKept, Working, Saving
<1> QED
  BY <1>3, <1>4 DEF KeptInv

LEMMA NextKept == TypeOK /\ KeptInv /\ [Next]_vars => KeptInv'
<1> SUFFICES ASSUME TypeOK, KeptInv, [Next]_vars
             PROVE  KeptInv'
  OBVIOUS
<1>1. CASE UNCHANGED vars
  BY <1>1 DEF vars, postgres, stores, history, KeptInv, ThreadIsKept, Entry, IdsDiffer, IdsIssued,
              FeedbackIsKept, Kept
<1>2. ASSUME NEW r \in Responses, NEW sig \in Reviewed, Evaluate(r, sig)
      PROVE  KeptInv'
  BY <1>2, EvaluateKept
<1>3. ASSUME NEW r \in Responses, CompleteReview(r)
      PROVE  KeptInv'
  BY <1>3, CompleteReviewKept
<1>4. ASSUME NEW t \in Threads, NEW r \in Responses, NEW d \in Decisions,
             NEW c \in BOOLEAN, NEW m \in BOOLEAN, SubmitFeedback(t, r, d, c, m)
      PROVE  KeptInv'
  BY <1>4, SubmitFeedbackKept
<1>5. ASSUME NEW t \in Threads, NEW report \in Reports, NEW learn \in BOOLEAN,
             NEW update \in BOOLEAN, ProcessResults(t, report, learn, update)
      PROVE  KeptInv'
  BY <1>5, ProcessResultsKept
<1>6. ASSUME NEW t \in Threads, ThreadStep(t)
      PROVE  KeptInv'
  BY <1>6, UpdateGraphKept, NextFailureKept, RecordKept, SaveFeedbackKept, StorePatternKept,
     IndexPatternKept, TrackKept, SaveFailureKept DEF ThreadStep
<1>7. CASE Restart
  BY <1>7, RestartKept
<1> QED
  BY <1>1, <1>2, <1>3, <1>4, <1>5, <1>6, <1>7 DEF Next

-----------------------------------------------------------------------------
(* The theorems                                                            *)

LEMMA InvariantHolds == Spec => []IInv
<1>1. Init => IInv
  <2>1. Init => ShownIsRouted /\ ReviewsHaveEvidence
    BY DEF Init, ShownIsRouted, ReviewsHaveEvidence
  <2> QED
    BY <2>1, InitType, InitKept DEF IInv
<1>2. IInv /\ [Next]_vars => IInv'
  BY NextType, ShownIsRoutedInv, EvidenceInv, NextKept DEF IInv
<1> QED
  BY <1>1, <1>2, PTL DEF Spec

\* The state of the tools, the sink and the stores has its types, for any
\* number of threads, requests, mishaps and restarts.
THEOREM TypeCorrect == Spec => []TypeOK
<1>1. IInv => TypeOK
  BY DEF IInv
<1> QED
  BY <1>1, InvariantHolds, PTL

\* No routing that is ever shown is more lenient than its signals allow.
THEOREM RoutingStaysCautious == Spec => []RoutingIsCautious
<1>1. IInv => RoutingIsCautious
  BY RoutedIsCautious DEF IInv
<1> QED
  BY <1>1, InvariantHolds, PTL

\* Every completed review has its evidence or a failed statement, and no
\* evidence is without the row it references.
THEOREM EvidenceIsThere == Spec => []ReviewsHaveEvidence
<1>1. IInv => ReviewsHaveEvidence
  BY DEF IInv
<1> QED
  BY <1>1, InvariantHolds, PTL

\* Whatever threads, failing statements, failing stores and restarts do: an
\* answered feedback is where its answer says.
THEOREM AnsweredIsKept == Spec => []FeedbackIsKept
<1>1. IInv => FeedbackIsKept
  BY DEF IInv, KeptInv
<1> QED
  BY <1>1, InvariantHolds, PTL
=============================================================================
