------------------------- MODULE OrchestratorProofs -------------------------
(***************************************************************************)
(* Proofs about Orchestrator and the ContextBuilder it uses, for any       *)
(* number of runs and of other users of the client, every plan, every list *)
(* of candidates, all budgets and all bounds.  The operators fold, sort    *)
(* and sum: what they compute for every input is shown by induction, from  *)
(* the least counterexample there would be.                                *)
(***************************************************************************)
EXTENDS Orchestrator, FiniteSetTheorems, WellFoundedInduction, TLAPS

(***************************************************************************)
(* Induction: from least counterexamples                                   *)
(***************************************************************************)

\* A set of naturals has a least element.
LEMMA LeastOf ==
  ASSUME NEW T, T \subseteq Nat, T # {}
  PROVE  \E x \in T : \A y \in T : x <= y
<1>1. PICK x \in T : \A y \in T : ~(<<y, x>> \in OpToRel(<, Nat))
  BY NatLessThanWellFounded, WFMin
<1>2. ASSUME NEW y \in T PROVE x <= y
  <2>1. <<y, x>> \in Nat \X Nat
    BY <1>1
  <2>2. ~(y < x)
    BY <1>1, <2>1 DEF OpToRel
  <2> QED BY <2>1, <2>2
<1> QED BY <1>1, <1>2

\* A set of numbers that has the first and, with each, the next has them all.
LEMMA UpTo ==
  ASSUME NEW n \in Nat, NEW T, 0 \in T, \A k \in 0 .. (n - 1) : k \in T => k + 1 \in T
  PROVE  \A k \in 0 .. n : k \in T
<1> SUFFICES ASSUME (0 .. n) \ T # {} PROVE FALSE
  OBVIOUS
<1> DEFINE rest == (0 .. n) \ T
<1>1. PICK x \in rest : \A y \in rest : x <= y
  <2>1. rest \subseteq Nat /\ rest # {}
    OBVIOUS
  <2> HIDE DEF rest
  <2> QED BY <2>1, LeastOf
<1>2. x - 1 \in 0 .. (n - 1) /\ x - 1 \in T
  BY <1>1
<1> QED BY <1>1, <1>2

\* n steps within S, and what they have made of b up to each.
Steppers(S, n) == [S \X (1 .. n) -> S]
Reaches(acc, n, S, b, g) ==
  /\ acc \in [0 .. n -> S]
  /\ acc[0] = b
  /\ \A k \in 1 .. n : acc[k] = g[<<acc[k - 1], k>>]

\* What is defined by its first value and by what follows each value exists.
LEMMA Recursion ==
  ASSUME NEW n \in Nat, NEW S, NEW b \in S, NEW g \in Steppers(S, n)
  PROVE  \E acc : Reaches(acc, n, S, b, g)
<1> DEFINE T == {m \in 0 .. n : \E acc : Reaches(acc, m, S, b, g)}
<1>1. 0 \in T
  <2>1. Reaches([k \in 0 .. 0 |-> b], 0, S, b, g)
    BY DEF Reaches
  <2> QED BY <2>1
<1>2. ASSUME NEW m \in 0 .. (n - 1), m \in T PROVE m + 1 \in T
  <2>1. PICK acc : Reaches(acc, m, S, b, g)
    BY <1>2
  <2> DEFINE next == [k \in 0 .. (m + 1) |-> IF k = m + 1 THEN g[<<acc[m], m + 1>>] ELSE acc[k]]
  <2>2. acc[m] \in S /\ m + 1 \in 1 .. n
    BY <2>1 DEF Reaches
  <2>3. g[<<acc[m], m + 1>>] \in S
    BY <2>2 DEF Steppers
  <2>4. next \in [0 .. (m + 1) -> S] /\ next[0] = b
    BY <2>1, <2>3 DEF Reaches
  <2>5. ASSUME NEW k \in 1 .. (m + 1) PROVE next[k] = g[<<next[k - 1], k>>]
    BY <2>1 DEF Reaches
  <2>6. Reaches(next, m + 1, S, b, g)
    BY <2>4, <2>5 DEF Reaches
  <2> QED BY <2>2, <2>6
<1>3. n \in T
  <2> HIDE DEF T
  <2>1. \A m \in 0 .. n : m \in T
    BY <1>1, <1>2, UpTo
  <2> QED BY <2>1
<1> QED BY <1>3

(***************************************************************************)
(* Folds over sequences                                                    *)
(***************************************************************************)

\* The greatest of some of the first n numbers.
LEMMA MaxIs ==
  ASSUME NEW n \in Nat, NEW t \in SUBSET (1 .. n), t # {}
  PROVE  Max(t) \in t /\ \A k \in t : k <= Max(t)
<1> DEFINE down == {n - k : k \in t}
<1>1. down \subseteq Nat /\ down # {}
  <2>1. \A k \in t : n - k \in Nat
    OBVIOUS
  <2> QED BY <2>1
<1>2. PICK d \in down : \A e \in down : d <= e
  <2> HIDE DEF down
  <2> QED BY <1>1, LeastOf
<1>3. n - d \in t /\ \A k \in t : n - d >= k
  BY <1>2
<1>4. \E m \in t : \A k \in t : m >= k
  BY <1>3
<1>5. Max(t) \in t /\ \A k \in t : Max(t) >= k
  BY <1>4 DEF Max
<1> QED BY <1>5

\* The greatest of the first k numbers is k.
LEMMA MaxUpTo ==
  ASSUME NEW k \in Nat \ {0}
  PROVE  Max(1 .. k) = k /\ (1 .. k) \ {k} = 1 .. (k - 1)
<1>1. Max(1 .. k) \in 1 .. k /\ \A l \in 1 .. k : l <= Max(1 .. k)
  <2>1. 1 .. k \in SUBSET (1 .. k) /\ 1 .. k # {}
    OBVIOUS
  <2> QED BY <2>1, MaxIs
<1> QED BY <1>1

\* f is the function by which a fold over n elements is defined.
IsFold(f, n, b, g) ==
  /\ f[{}] = b
  /\ \A t \in SUBSET (1 .. n) : t # {} => f[t] = g[<<f[t \ {Max(t)}], Max(t)>>]

\* It exists.
LEMMA FoldExists ==
  ASSUME NEW n \in Nat, NEW S, NEW b \in S, NEW g \in Steppers(S, n)
  PROVE  \E f \in [SUBSET (1 .. n) -> S] : IsFold(f, n, b, g)
<1> DEFINE Sets == SUBSET (1 .. n)
           Fs   == [Sets -> S]
           With(F, k) == [t \in Sets |-> IF k \in t THEN g[<<F[t \ {k}], k>>] ELSE F[t]]
           G    == [q \in Fs \X (1 .. n) |-> With(q[1], q[2])]
           B    == [t \in Sets |-> b]
<1>1. B \in Fs
  OBVIOUS
<1>2. ASSUME NEW F \in Fs, NEW k \in 1 .. n PROVE With(F, k) \in Fs
  <2>1. \A t \in Sets : t \ {k} \in Sets
    OBVIOUS
  <2>2. ASSUME NEW t \in Sets
        PROVE  (IF k \in t THEN g[<<F[t \ {k}], k>>] ELSE F[t]) \in S
    <3>1. F[t] \in S /\ F[t \ {k}] \in S
      BY <2>1
    <3>2. g[<<F[t \ {k}], k>>] \in S
      BY <3>1 DEF Steppers
    <3> QED BY <3>1, <3>2
  <2> HIDE DEF Sets
  <2> QED BY <2>2
<1> HIDE DEF B, Fs
<1>3. G \in Steppers(Fs, n) /\ \A F \in Fs, k \in 1 .. n : G[<<F, k>>] = With(F, k)
  <2> HIDE DEF With, Sets
  <2> QED BY <1>2 DEF Steppers
<1> HIDE DEF G
<1>4. PICK acc : Reaches(acc, n, Fs, B, G)
  BY <1>1, <1>3, Recursion
<1>5. ASSUME NEW k \in 1 .. n, NEW t \in Sets
      PROVE  acc[k][t] = IF k \in t THEN g[<<acc[k - 1][t \ {k}], k>>] ELSE acc[k - 1][t]
  <2>1. acc[k - 1] \in Fs /\ acc[k] = G[<<acc[k - 1], k>>]
    BY <1>4 DEF Reaches
  <2>2. acc[k] = With(acc[k - 1], k)
    BY <2>1, <1>3
  <2> QED BY <2>2
\* A set is settled when its greatest element is reached.
<1>6. ASSUME NEW t \in Sets, NEW m \in 0 .. n, \A k \in t : k <= m PROVE acc[n][t] = acc[m][t]
  <2> DEFINE T == {d \in 0 .. (n - m) : acc[m + d][t] = acc[m][t]}
  <2>1. 0 \in T
    OBVIOUS
  <2>2. ASSUME NEW d \in 0 .. (n - m - 1), d \in T PROVE d + 1 \in T
    <3> DEFINE k == m + d + 1
    <3>1. k \in 1 .. n /\ k \notin t /\ k - 1 = m + d /\ k = m + (d + 1)
      BY <1>6
    <3> HIDE DEF k
    <3>2. acc[k][t] = acc[k - 1][t]
      BY <3>1, <1>5
    <3> QED BY <2>2, <3>1, <3>2
  <2>3. n - m \in T
    <3> HIDE DEF T
    <3>1. n - m \in Nat
      OBVIOUS
    <3>2. \A d \in 0 .. (n - m) : d \in T
      BY <2>1, <2>2, <3>1, UpTo
    <3> QED BY <3>1, <3>2
  <2> QED BY <2>3
<1>7. acc[n][{}] = b
  <2>1. acc[n][{}] = acc[0][{}]
    BY <1>6
  <2> QED BY <2>1, <1>4 DEF B, Reaches
<1>8. ASSUME NEW t \in Sets, t # {}
      PROVE  acc[n][t] = g[<<acc[n][t \ {Max(t)}], Max(t)>>]
  <2> DEFINE m == Max(t)
  <2>1. m \in t /\ \A k \in t : k <= m
    BY <1>8, MaxIs
  <2> HIDE DEF m
  <2>2. m \in 1 .. n /\ t \ {m} \in Sets /\ \A k \in t \ {m} : k <= m - 1
    BY <2>1
  <2>3. acc[n][t] = acc[m][t]
    BY <2>1, <2>2, <1>6
  <2>4. acc[n][t \ {m}] = acc[m - 1][t \ {m}]
    <3>1. m - 1 \in 0 .. n
      BY <2>2
    <3> QED BY <2>2, <3>1, <1>6
  <2>5. acc[m][t] = g[<<acc[m - 1][t \ {m}], m>>]
    BY <2>1, <2>2, <1>5
  <2>6. acc[n][t] = g[<<acc[n][t \ {m}], m>>]
    BY <2>3, <2>4, <2>5
  <2> QED BY <2>6 DEF m
<1>9. acc[n] \in [SUBSET (1 .. n) -> S]
  <2>1. acc[n] \in Fs
    BY <1>4 DEF Reaches
  <2> QED BY <2>1 DEF Fs
<1> QED BY <1>7, <1>8, <1>9 DEF IsFold

\* f is such a function as far as its values are in S.
FoldsWithin(f, n, S, b, g) ==
  /\ f[{}] = b
  /\ \A t \in SUBSET (1 .. n) :
        t # {} /\ f[t \ {Max(t)}] \in S => f[t] = g[<<f[t \ {Max(t)}], Max(t)>>]

\* What it makes of the whole is reached from the left, element by element.
LEMMA FoldIs ==
  ASSUME NEW n \in Nat, NEW S, NEW b \in S, NEW g \in Steppers(S, n),
         NEW f, FoldsWithin(f, n, S, b, g)
  PROVE  \E acc : Reaches(acc, n, S, b, g) /\ f[1 .. n] = acc[n]
<1>1. PICK acc : Reaches(acc, n, S, b, g)
  BY Recursion
<1> DEFINE T == {k \in 0 .. n : acc[k] = f[1 .. k]}
<1>2. 0 \in T
  <2>1. 1 .. 0 = {}
    OBVIOUS
  <2> QED BY <2>1, <1>1 DEF Reaches, FoldsWithin
<1>3. ASSUME NEW k \in 0 .. (n - 1), k \in T PROVE k + 1 \in T
  <2> DEFINE l == k + 1
  <2>1. l \in Nat \ {0} /\ l \in 1 .. n /\ l - 1 = k
    OBVIOUS
  <2> HIDE DEF l
  <2>2. Max(1 .. l) = l /\ (1 .. l) \ {l} = 1 .. k
    BY <2>1, MaxUpTo
  <2>3. 1 .. l \in SUBSET (1 .. n) /\ 1 .. l # {}
    BY <2>1
  <2>4. f[1 .. k] \in S /\ acc[k] = f[1 .. k]
    BY <1>1, <1>3 DEF Reaches
  <2>5. f[1 .. l] = g[<<f[1 .. k], l>>]
    BY <2>2, <2>3, <2>4 DEF FoldsWithin
  <2>6. acc[l] = g[<<acc[k], l>>]
    BY <1>1, <2>1 DEF Reaches
  <2>7. acc[l] = f[1 .. l]
    BY <2>4, <2>5, <2>6
  <2> QED BY <2>1, <2>7 DEF l
<1>4. n \in T
  <2> HIDE DEF T
  <2>1. \A k \in 0 .. n : k \in T
    BY <1>2, <1>3, UpTo
  <2> QED BY <2>1
<1> QED BY <1>1, <1>4

(***************************************************************************)
(* Sorting                                                                 *)
(***************************************************************************)

\* R orders S.
Orders(R, S) ==
  /\ \A x, y \in S : x # y => <<x, y>> \in R \/ <<y, x>> \in R
  /\ \A x, y, z \in S : <<x, y>> \in R /\ <<y, z>> \in R => <<x, z>> \in R
SortedBy(s, R, S) ==
  /\ s \in [1 .. Cardinality(S) -> S] /\ ToSet(s) = S
  /\ \A k, l \in DOMAIN s : k < l => <<s[k], s[l]>> \in R

\* A finite set that is ordered has a last element.
LEMMA LastOf ==
  ASSUME NEW R, NEW S, IsFiniteSet(S), Orders(R, S), S # {}
  PROVE  \E m \in S : \A x \in S \ {m} : <<x, m>> \in R
<1> DEFINE EndsIn(A, m) == m \in A /\ \A x \in A \ {m} : <<x, m>> \in R
           T == {n \in 0 .. Cardinality(S) :
                   \A A \in SUBSET S : Cardinality(A) = n /\ A # {} => \E m : EndsIn(A, m)}
<1>1. Cardinality(S) \in Nat /\ \A A \in SUBSET S : IsFiniteSet(A) /\ Cardinality(A) \in Nat
  BY FS_Subset, FS_CardinalityType
<1>2. 0 \in T
  <2>1. \A A \in SUBSET S : Cardinality(A) = 0 => A = {}
    BY <1>1, FS_EmptySet
  <2> QED BY <1>1, <2>1
<1>3. ASSUME NEW n \in 0 .. (Cardinality(S) - 1), n \in T PROVE n + 1 \in T
  <2> SUFFICES ASSUME NEW A \in SUBSET S, Cardinality(A) = n + 1, A # {} PROVE \E m : EndsIn(A, m)
    BY <1>1
  <2>1. PICK x \in A : TRUE
    OBVIOUS
  <2> DEFINE B == A \ {x}
  <2>2. B \in SUBSET S /\ Cardinality(B) = n
    <3>1. IsFiniteSet(A) /\ x \in A
      BY <1>1, <2>1
    <3> QED BY <3>1, FS_RemoveElement
  <2>3. CASE B = {}
    <3>1. EndsIn(A, x)
      BY <2>1, <2>3
    <3> QED BY <3>1
  <2>4. CASE B # {}
    <3>1. PICK m : EndsIn(B, m)
      BY <1>3, <2>2, <2>4
    <3>2. m \in A /\ m # x /\ \A y \in A \ {m, x} : <<y, m>> \in R
      BY <3>1
    <3>3. m \in S /\ x \in S /\ A \subseteq S
      BY <3>2, <2>1
    <3>4. CASE <<x, m>> \in R
      <4>1. EndsIn(A, m)
        BY <3>2, <3>4
      <4> QED BY <4>1
    <3>5. CASE <<m, x>> \in R
      <4>1. \A y \in A \ {m, x} : <<y, x>> \in R
        BY <3>2, <3>3, <3>5 DEF Orders
      <4>2. EndsIn(A, x)
        BY <2>1, <3>5, <4>1
      <4> QED BY <4>2
    <3> QED BY <3>2, <3>3, <3>4, <3>5 DEF Orders
  <2> QED BY <2>3, <2>4
<1>4. Cardinality(S) \in T
  <2> HIDE DEF T
  <2>1. \A n \in 0 .. Cardinality(S) : n \in T
    BY <1>1, <1>2, <1>3, UpTo
  <2> QED BY <1>1, <2>1
<1> QED BY <1>4

\* A finite set that is ordered can be sorted.
LEMMA SortExists ==
  ASSUME NEW R, NEW S, IsFiniteSet(S), Orders(R, S)
  PROVE  \E s : SortedBy(s, R, S)
<1> DEFINE T == {n \in 0 .. Cardinality(S) :
                   \A A \in SUBSET S : Cardinality(A) = n => \E s : SortedBy(s, R, A)}
<1>1. Cardinality(S) \in Nat /\ \A A \in SUBSET S : IsFiniteSet(A) /\ Cardinality(A) \in Nat
  BY FS_Subset, FS_CardinalityType
<1>2. 0 \in T
  <2>1. ASSUME NEW A \in SUBSET S, Cardinality(A) = 0 PROVE \E s : SortedBy(s, R, A)
    <3>1. A = {}
      BY <1>1, <2>1, FS_EmptySet
    <3>2. SortedBy([k \in 1 .. 0 |-> k], R, A)
      BY <2>1, <3>1 DEF SortedBy, ToSet
    <3> QED BY <3>2
  <2> QED BY <1>1, <2>1
<1>3. ASSUME NEW n \in 0 .. (Cardinality(S) - 1), n \in T PROVE n + 1 \in T
  <2> SUFFICES ASSUME NEW A \in SUBSET S, Cardinality(A) = n + 1 PROVE \E s : SortedBy(s, R, A)
    BY <1>1
  <2>1. IsFiniteSet(A) /\ A # {} /\ Orders(R, A)
    <3>1. IsFiniteSet(A) /\ Cardinality(A) # 0
      BY <1>1
    <3> QED BY <3>1, FS_EmptySet DEF Orders
  <2>2. PICK m \in A : \A x \in A \ {m} : <<x, m>> \in R
    BY <2>1, LastOf
  <2> DEFINE B == A \ {m}
  <2>3. B \in SUBSET S /\ Cardinality(B) = n
    BY <2>1, FS_RemoveElement
  <2>4. PICK s : SortedBy(s, R, B)
    BY <1>3, <2>3
  <2> DEFINE w == [k \in 1 .. (n + 1) |-> IF k = n + 1 THEN m ELSE s[k]]
  <2>5. s \in [1 .. n -> B] /\ ToSet(s) = B
    BY <2>3, <2>4 DEF SortedBy
  <2>6. w \in [1 .. (n + 1) -> A]
    BY <2>5
  <2>7. ToSet(w) = A
    <3>1. ASSUME NEW x \in A PROVE \E k \in 1 .. (n + 1) : w[k] = x
      <4>1. CASE x = m
        BY <4>1
      <4>2. CASE x # m
        <5>1. PICK k \in 1 .. n : s[k] = x
          BY <4>2, <2>5 DEF ToSet
        <5> QED BY <5>1
      <4> QED BY <4>1, <4>2
    <3> HIDE DEF w
    <3> QED BY <2>6, <3>1 DEF ToSet
  <2>8. ASSUME NEW k \in 1 .. (n + 1), NEW l \in 1 .. (n + 1), k < l PROVE <<w[k], w[l]>> \in R
    <3>1. k \in 1 .. n /\ w[k] = s[k] /\ s[k] \in B
      BY <2>5, <2>8
    <3>2. CASE l = n + 1
      BY <3>1, <3>2, <2>2
    <3>3. CASE l # n + 1
      <4>1. l \in 1 .. n /\ w[l] = s[l] /\ DOMAIN s = 1 .. n
        BY <3>3, <2>5
      <4> QED BY <3>1, <4>1, <2>4, <2>8 DEF SortedBy
    <3> QED BY <3>2, <3>3
  <2>9. SortedBy(w, R, A)
    <3> HIDE DEF w
    <3> QED BY <2>6, <2>7, <2>8 DEF SortedBy
  <2> QED BY <2>9
<1>4. Cardinality(S) \in T
  <2> HIDE DEF T
  <2>1. \A n \in 0 .. Cardinality(S) : n \in T
    BY <1>1, <1>2, <1>3, UpTo
  <2> QED BY <1>1, <2>1
<1> QED BY <1>4

(***************************************************************************)
(* Sums                                                                    *)
(***************************************************************************)

\* F gives the sum of the weights of each part of D.
SumsUp(F, D, w) ==
  /\ F \in [SUBSET D -> Nat] /\ F[{}] = 0
  /\ \A A \in SUBSET D, x \in D : x \notin A => F[A \cup {x}] = F[A] + w[x]

\* The sums of the parts of a finite set exist.
LEMMA SumExists ==
  ASSUME NEW D, IsFiniteSet(D), NEW w \in [D -> Nat]
  PROVE  \E F : SumsUp(F, D, w)
<1>0. PICK n \in Nat : ExistsBijection(1 .. n, D)
  BY FS_NatBijection
<1>1. PICK e \in Bijection(1 .. n, D) : TRUE
  BY <1>0 DEF ExistsBijection
<1>2. /\ e \in [1 .. n -> D]
      /\ \A k, l \in 1 .. n : e[k] = e[l] => k = l
      /\ \A x \in D : \E k \in 1 .. n : e[k] = x
  BY <1>1 DEF Bijection, Injection, Surjection, IsInjective
<1> DEFINE Sets == SUBSET D
           Fs   == [Sets -> Nat]
           With(F, k) == [A \in Sets |-> IF e[k] \in A THEN F[A] + w[e[k]] ELSE F[A]]
           G    == [q \in Fs \X (1 .. n) |-> With(q[1], q[2])]
           B    == [A \in Sets |-> 0]
<1>3. B \in Fs /\ \A A \in Sets : B[A] = 0
  OBVIOUS
<1>4. ASSUME NEW F \in Fs, NEW k \in 1 .. n PROVE With(F, k) \in Fs
  <2>1. w[e[k]] \in Nat
    BY <1>2
  <2> HIDE DEF Sets
  <2> QED BY <2>1
<1> HIDE DEF B, Fs
<1>5. G \in Steppers(Fs, n) /\ \A F \in Fs, k \in 1 .. n : G[<<F, k>>] = With(F, k)
  <2> HIDE DEF With, Sets
  <2> QED BY <1>4 DEF Steppers
<1> HIDE DEF G
<1>6. PICK acc : Reaches(acc, n, Fs, B, G)
  BY <1>3, <1>5, Recursion
<1>7. ASSUME NEW k \in 1 .. n, NEW A \in Sets
      PROVE  acc[k][A] = IF e[k] \in A THEN acc[k - 1][A] + w[e[k]] ELSE acc[k - 1][A]
  <2>1. acc[k - 1] \in Fs /\ acc[k] = G[<<acc[k - 1], k>>]
    BY <1>6 DEF Reaches
  <2>2. acc[k] = With(acc[k - 1], k)
    BY <2>1, <1>5
  <2> QED BY <2>2
<1>8. \A k \in 0 .. n : acc[k] \in [Sets -> Nat]
  BY <1>6 DEF Reaches, Fs
<1>9. ASSUME NEW A \in Sets, NEW j \in 1 .. n, e[j] \notin A
      PROVE  acc[n][A \cup {e[j]}] = acc[n][A] + w[e[j]]
  <2> DEFINE more == A \cup {e[j]}
             T == {k \in 0 .. n : acc[k][more] = acc[k][A] + (IF j <= k THEN w[e[j]] ELSE 0)}
  <2>1. more \in Sets /\ \A k \in 1 .. n : e[k] \in more <=> e[k] \in A \/ k = j
    BY <1>2
  <2>2. w[e[j]] \in Nat
    BY <1>2
  <2> HIDE DEF more
  <2>3. 0 \in T
    BY <2>1, <1>3, <1>6 DEF Reaches
  <2>4. ASSUME NEW k \in 0 .. (n - 1), k \in T PROVE k + 1 \in T
    <3> DEFINE l == k + 1
    <3>1. l \in 1 .. n /\ l - 1 = k /\ l \in 0 .. n /\ k \in 0 .. n
      OBVIOUS
    <3>2. w[e[l]] \in Nat /\ acc[k][more] \in Nat /\ acc[k][A] \in Nat
      BY <3>1, <1>2, <1>8, <2>1
    <3> HIDE DEF l
    <3>3. /\ acc[l][more] = IF e[l] \in more THEN acc[k][more] + w[e[l]] ELSE acc[k][more]
          /\ acc[l][A] = IF e[l] \in A THEN acc[k][A] + w[e[l]] ELSE acc[k][A]
      BY <3>1, <2>1, <1>7
    <3>4. acc[k][more] = acc[k][A] + (IF j <= k THEN w[e[j]] ELSE 0)
      BY <2>4
    <3>5. CASE l = j
      <4>1. ~(j <= k) /\ j <= l
        BY <3>1, <3>5
      <4>2. acc[l][more] = acc[l][A] + w[e[j]]
        BY <3>2, <3>3, <3>4, <3>5, <4>1, <1>9, <2>1
      <4> QED BY <3>1, <4>1, <4>2 DEF l
    <3>6. CASE l # j
      <4>1. j <= k <=> j <= l
        BY <3>1, <3>6
      <4>2. e[l] \in more <=> e[l] \in A
        BY <3>1, <3>6, <2>1
      <4>3. acc[l][more] = acc[l][A] + (IF j <= l THEN w[e[j]] ELSE 0)
        BY <3>2, <3>3, <3>4, <4>1, <4>2, <2>2
      <4> QED BY <3>1, <4>3 DEF l
    <3> QED BY <3>5, <3>6
  <2>5. n \in T
    <3> HIDE DEF T
    <3>1. \A k \in 0 .. n : k \in T
      BY <2>3, <2>4, UpTo
    <3> QED BY <3>1
  <2> QED BY <2>5 DEF more
<1>10. acc[n][{}] = 0
  <2> DEFINE T == {k \in 0 .. n : acc[k][{}] = 0}
  <2>1. 0 \in T
    BY <1>3, <1>6 DEF Reaches
  <2>2. ASSUME NEW k \in 0 .. (n - 1), k \in T PROVE k + 1 \in T
    <3>1. k + 1 \in 1 .. n /\ (k + 1) - 1 = k
      OBVIOUS
    <3>2. acc[k + 1][{}] = acc[k][{}]
      BY <3>1, <1>7
    <3> QED BY <3>2, <2>2
  <2>3. \A k \in 0 .. n : k \in T
    <3> HIDE DEF T
    <3> QED BY <2>1, <2>2, UpTo
  <2> QED BY <2>3
<1>11. \A A \in SUBSET D, x \in D : x \notin A => acc[n][A \cup {x}] = acc[n][A] + w[x]
  <2> SUFFICES ASSUME NEW A \in SUBSET D, NEW x \in D, x \notin A
               PROVE  acc[n][A \cup {x}] = acc[n][A] + w[x]
    OBVIOUS
  <2>1. PICK k \in 1 .. n : e[k] = x
    BY <1>2
  <2> QED BY <2>1, <1>9
<1>12. acc[n] \in [SUBSET D -> Nat]
  <2>1. n \in 0 .. n
    OBVIOUS
  <2> HIDE DEF Sets
  <2>2. acc[n] \in [Sets -> Nat]
    BY <2>1, <1>8
  <2> QED BY <2>2 DEF Sets
<1>13. SumsUp(acc[n], D, w)
  BY <1>10, <1>11, <1>12 DEF SumsUp
<1> QED BY <1>13

\* f sums the weights of the parts of A, one element after the other.
Sums(f, A, w) ==
  /\ f[{}] = 0
  /\ \A s \in SUBSET A : s # {} => \E x \in s : f[s] = w[x] + f[s \ {x}]

\* The function by which a sum is defined finds it, in whatever order.
LEMMA SumIs ==
  ASSUME NEW D, IsFiniteSet(D), NEW w \in [D -> Nat], NEW F, SumsUp(F, D, w),
         NEW A \in SUBSET D, NEW f, Sums(f, A, w)
  PROVE  f[A] = F[A]
<1>0. /\ f[{}] = 0
      /\ \A s \in SUBSET A : s # {} => \E x \in s : f[s] = w[x] + f[s \ {x}]
  BY DEF Sums
<1> DEFINE T == {n \in 0 .. Cardinality(A) :
                   \A s \in SUBSET A : Cardinality(s) = n => f[s] = F[s]}
<1>1. Cardinality(A) \in Nat /\ \A s \in SUBSET A : IsFiniteSet(s) /\ Cardinality(s) \in Nat
  BY FS_Subset, FS_CardinalityType
<1>2. 0 \in T
  <2>1. \A s \in SUBSET A : Cardinality(s) = 0 => s = {}
    BY <1>1, FS_EmptySet
  <2>2. f[{}] = F[{}]
    BY <1>0 DEF SumsUp
  <2>3. \A s \in SUBSET A : Cardinality(s) = 0 => f[s] = F[s]
    BY <2>1, <2>2
  <2>4. 0 \in 0 .. Cardinality(A)
    BY <1>1
  <2> QED BY <2>3, <2>4
<1>3. ASSUME NEW n \in 0 .. (Cardinality(A) - 1), n \in T PROVE n + 1 \in T
  <2> SUFFICES ASSUME NEW s \in SUBSET A, Cardinality(s) = n + 1 PROVE f[s] = F[s]
    BY <1>1
  <2>1. IsFiniteSet(s) /\ s # {}
    <3>1. IsFiniteSet(s) /\ Cardinality(s) # 0
      BY <1>1
    <3> QED BY <3>1, FS_EmptySet
  <2>2. PICK x \in s : f[s] = w[x] + f[s \ {x}]
    BY <1>0, <2>1
  <2> DEFINE u == s \ {x}
  <2>3. u \in SUBSET A /\ Cardinality(u) = n
    <3>1. IsFiniteSet(s) /\ x \in s
      BY <2>1, <2>2
    <3>2. Cardinality(u) = Cardinality(s) - 1
      BY <3>1, FS_RemoveElement
    <3> QED BY <3>2
  <2>4. f[u] = F[u]
    BY <2>3, <1>3
  <2>5. x \in D /\ x \notin u /\ u \cup {x} = s /\ u \in SUBSET D
    BY <2>3
  <2> HIDE DEF u
  <2>6. F[s] = F[u] + w[x] /\ F[u] \in Nat /\ w[x] \in Nat
    <3>1. F[u \cup {x}] = F[u] + w[x]
      BY <2>5 DEF SumsUp
    <3> QED BY <2>5, <3>1 DEF SumsUp
  <2> QED BY <2>2, <2>4, <2>6 DEF u
<1>4. Cardinality(A) \in T
  <2> HIDE DEF T
  <2>1. \A n \in 0 .. Cardinality(A) : n \in T
    BY <1>1, <1>2, <1>3, UpTo
  <2> QED BY <1>1, <2>1
<1> QED BY <1>4

\* f is that function, as MapThenSumSet defines it.
Adds(f, A, w) ==
  f = [t \in SUBSET A |->
         IF t = {} THEN 0
         ELSE w[CHOOSE x \in t : TRUE] + f[t \ {CHOOSE x \in t : TRUE}]]

\* It exists, and finds the sum.
LEMMA AddsUp ==
  ASSUME NEW D, IsFiniteSet(D), NEW w \in [D -> Nat], NEW F, SumsUp(F, D, w),
         NEW A \in SUBSET D
  PROVE  /\ \E f : Adds(f, A, w)
         /\ \A f : Adds(f, A, w) => f[A] = F[A]
<1>1. \E f : Adds(f, A, w)
  <2> DEFINE f == [t \in SUBSET A |-> F[t]]
  <2>1. ASSUME NEW t \in SUBSET A, t # {}
        PROVE  f[t] = w[CHOOSE x \in t : TRUE] + f[t \ {CHOOSE x \in t : TRUE}]
    <3> DEFINE x == CHOOSE y \in t : TRUE
               u == t \ {x}
    <3>1. x \in t /\ x \in D /\ u \in SUBSET A /\ u \in SUBSET D /\ x \notin u /\ u \cup {x} = t
      BY <2>1
    <3> HIDE DEF x, u
    <3>2. F[u \cup {x}] = F[u] + w[x] /\ F[u] \in Nat /\ w[x] \in Nat
      BY <3>1 DEF SumsUp
    <3>3. f[t] = F[t] /\ f[u] = F[u]
      BY <3>1
    <3>4. F[t] = F[u] + w[x]
      BY <3>1, <3>2
    <3> HIDE DEF f
    <3>5. f[t] = w[x] + f[u]
      BY <3>2, <3>3, <3>4
    <3> QED BY <3>5 DEF x, u
  <2>2. f[{}] = 0
    BY DEF SumsUp
  <2>3. f = [t \in SUBSET A |-> f[t]]
    OBVIOUS
  <2> HIDE DEF f
  <2>4. Adds(f, A, w)
    BY <2>1, <2>2, <2>3 DEF Adds
  <2> QED BY <2>4
<1>2. ASSUME NEW f, Adds(f, A, w) PROVE f[A] = F[A]
  <2>1. f[{}] = 0
    BY <1>2 DEF Adds
  <2>2. ASSUME NEW t \in SUBSET A, t # {}
        PROVE  \E x \in t : f[t] = w[x] + f[t \ {x}]
    <3> DEFINE x == CHOOSE y \in t : TRUE
    <3>1. f[t] = w[x] + f[t \ {x}]
      BY <1>2, <2>2 DEF Adds
    <3>2. x \in t
      BY <2>2
    <3> QED BY <3>1, <3>2
  <2>3. Sums(f, A, w)
    BY <2>1, <2>2 DEF Sums
  <2> QED BY <2>3, SumIs
<1> QED BY <1>1, <1>2

(***************************************************************************)
(* The prompt                                                              *)
(***************************************************************************)

\* What the runs keep as answers, and as prompts.
IsAnswers(ans) ==
  /\ DOMAIN ans \subseteq StepKeys /\ IsFiniteSet(DOMAIN ans)
  /\ \A k \in DOMAIN ans : ans[k].size \in Nat
Prompts == [blocks : Seq(StepKeys), cut : StepKeys \cup {None}, full : BOOLEAN,
            base : Nat, used : Nat]

Ids(ans) == InOrder(DOMAIN ans, LAMBDA k, l : k < l)

\* The ids of the answers, if they can be sorted, are sorted.
LEMMA IdsAre ==
  ASSUME NEW ans, IsAnswers(ans), Sortable(DOMAIN ans)
  PROVE  /\ Ids(ans) \in [1 .. Cardinality(DOMAIN ans) -> DOMAIN ans]
         /\ ToSet(Ids(ans)) = DOMAIN ans
         /\ \A k, l \in DOMAIN Ids(ans) : k < l => Ids(ans)[k] < Ids(ans)[l]
<1> DEFINE D == DOMAIN ans
           R == {p \in D \X D : p[1] < p[2]}
<1>1. D = {Unordered} \/ D \subseteq Nat
  BY OrchestratorAssumption DEF Sortable, IsAnswers, StepKeys
<1>2. Orders(R, D)
  <2>1. CASE D = {Unordered}
    BY <2>1 DEF Orders
  <2>2. CASE D \subseteq Nat
    <3>1. \A x, y \in D : x \in Nat /\ y \in Nat /\ (<<x, y>> \in R <=> x < y)
      BY <2>2
    <3> HIDE DEF R
    <3> QED BY <3>1 DEF Orders
  <2> QED BY <1>1, <2>1, <2>2
<1>3. PICK s : SortedBy(s, R, D)
  BY <1>2, SortExists DEF IsAnswers
<1> DEFINE Fits(u) == /\ ToSet(u) = D
                      /\ \A k, l \in DOMAIN u : k < l => u[k] < u[l]
<1>4. s \in [1 .. Cardinality(D) -> D] /\ Fits(s)
  BY <1>3 DEF SortedBy
<1>5. Ids(ans) = CHOOSE u \in [1 .. Cardinality(D) -> D] : Fits(u)
  BY DEF Ids, InOrder
<1> HIDE DEF Fits
<1>6. Ids(ans) \in [1 .. Cardinality(D) -> D] /\ Fits(Ids(ans))
  BY <1>4, <1>5
<1> QED BY <1>6 DEF Fits

\* Admit makes a prompt of a prompt.
LEMMA AdmitKeeps ==
  ASSUME NEW ans, IsAnswers(ans), NEW p \in Prompts, NEW id \in DOMAIN ans
  PROVE  Admit(ans, p, id) \in Prompts
<1> DEFINE block == Header + ans[id].size
           left  == PromptBudget - p.used
<1>1. /\ p.blocks \in Seq(StepKeys) /\ p.used \in Nat /\ p.full \in BOOLEAN
      /\ id \in StepKeys /\ block \in Nat /\ Header \in Nat /\ left \in Int /\ MinCut \in Nat
  BY OrchestratorAssumption DEF Prompts, IsAnswers
<1> HIDE DEF block, left
<1>2. [p EXCEPT !.full = TRUE] \in Prompts
  BY DEF Prompts
<1>3. [p EXCEPT !.blocks = Append(@, id), !.used = @ + block] \in Prompts
  <2>1. Append(p.blocks, id) \in Seq(StepKeys) /\ p.used + block \in Nat
    BY <1>1
  <2> QED BY <2>1 DEF Prompts
<1>4. [p EXCEPT !.cut = id, !.full = TRUE] \in Prompts
  BY <1>1 DEF Prompts
<1> QED BY <1>2, <1>3, <1>4 DEF Admit, block, left

\* acc[k] is the prompt after the first k answers.
Fills(acc, ans, base) ==
  LET n == Cardinality(DOMAIN ans)
  IN  /\ acc \in [0 .. n -> Prompts]
      /\ acc[0] = [NoPrompt EXCEPT !.base = base, !.used = base]
      /\ \A k \in 1 .. n : acc[k] = Admit(ans, acc[k - 1], Ids(ans)[k])
      /\ acc[n] = Prompt(ans, base)

\* A prompt is made by admitting the answers one after the other.
LEMMA PromptIs ==
  ASSUME NEW ans, IsAnswers(ans), Sortable(DOMAIN ans), NEW base \in Nat
  PROVE  \E acc : Fills(acc, ans, base)
<1> DEFINE n == Cardinality(DOMAIN ans)
           ids == Ids(ans)
           b == [NoPrompt EXCEPT !.base = base, !.used = base]
           g == [q \in Prompts \X (1 .. n) |-> Admit(ans, q[1], ids[q[2]])]
           Eqn(f) == f = [t \in SUBSET (DOMAIN ids) |->
                             IF t = {} THEN b
                             ELSE Admit(ans, f[t \ {Max(t)}], ids[Max(t)])]
           iter == CHOOSE f : Eqn(f)
<1>1. n \in Nat /\ ids \in [1 .. n -> DOMAIN ans]
  BY IdsAre, FS_CardinalityType DEF IsAnswers
<1>2. b \in Prompts
  <2>1. NoPrompt \in Prompts
    BY DEF NoPrompt, Prompts
  <2> QED BY <2>1 DEF Prompts
<1>3. Prompt(ans, base) = iter[DOMAIN ids]
  BY DEF Prompt, FoldLeft, MapThenFoldSet, Ids
<1> HIDE DEF n, ids, b
<1>4. /\ g \in Steppers(Prompts, n)
      /\ \A p \in Prompts, k \in 1 .. n : g[<<p, k>>] = Admit(ans, p, ids[k])
  BY <1>1, AdmitKeeps DEF Steppers
<1> HIDE DEF g
<1>5. \E f : Eqn(f)
  <2>1. PICK f \in [SUBSET (1 .. n) -> Prompts] : IsFold(f, n, b, g)
    BY <1>1, <1>2, <1>4, FoldExists
  <2>2. ASSUME NEW t \in SUBSET (1 .. n), t # {}
        PROVE  f[t] = Admit(ans, f[t \ {Max(t)}], ids[Max(t)])
    <3>1. Max(t) \in 1 .. n
      BY <1>1, <2>2, MaxIs
    <3>2. f[t \ {Max(t)}] \in Prompts
      OBVIOUS
    <3> QED BY <2>1, <2>2, <3>1, <3>2, <1>4 DEF IsFold
  <2>3. f[{}] = b
    BY <2>1 DEF IsFold
  <2>4. Eqn(f)
    BY <1>1, <2>2, <2>3
  <2> HIDE DEF Eqn
  <2> QED BY <2>4
<1>6. Eqn(iter)
  <2> HIDE DEF Eqn
  <2> QED BY <1>5
<1> HIDE DEF iter
<1>7. iter[{}] = b
  BY <1>6
<1>8. ASSUME NEW t \in SUBSET (1 .. n), t # {}, iter[t \ {Max(t)}] \in Prompts
      PROVE  iter[t] = g[<<iter[t \ {Max(t)}], Max(t)>>]
  <2>1. Max(t) \in 1 .. n
    BY <1>1, <1>8, MaxIs
  <2>2. iter[t] = Admit(ans, iter[t \ {Max(t)}], ids[Max(t)])
    BY <1>1, <1>6, <1>8
  <2> QED BY <2>1, <2>2, <1>4, <1>8
<1> HIDE DEF Eqn
<1>9. PICK acc : Reaches(acc, n, Prompts, b, g) /\ iter[1 .. n] = acc[n]
  <2>1. FoldsWithin(iter, n, Prompts, b, g)
    BY <1>7, <1>8 DEF FoldsWithin
  <2>2. g \in Steppers(Prompts, n)
    BY <1>4
  <2> HIDE DEF Prompts
  <2> QED BY <1>1, <1>2, <2>1, <2>2, FoldIs
<1>10. ASSUME NEW k \in 1 .. n PROVE acc[k] = Admit(ans, acc[k - 1], ids[k])
  <2>1. acc[k - 1] \in Prompts /\ acc[k] = g[<<acc[k - 1], k>>]
    BY <1>1, <1>9 DEF Reaches
  <2> QED BY <1>4, <2>1
<1>11. DOMAIN ids = 1 .. n
  BY <1>1
<1>12. Fills(acc, ans, base)
  BY <1>3, <1>9, <1>10, <1>11 DEF Fills, Reaches, n, ids, b
<1> QED BY <1>12

\* After k answers p holds the first m whole, the next perhaps in part, and
\* nothing of what follows; only one that is full has left any out, the first of
\* them because it does not fit.
HoldsTo(m, p, ans, ids, k, base) ==
  /\ p.blocks = [j \in 1 .. m |-> ids[j]]
  /\ ~ p.full => m = k /\ p.cut = None
  /\ p.full => /\ m + 1 \in 1 .. k
               /\ Header + ans[ids[m + 1]].size > PromptBudget - p.used
               /\ p.cut = IF PromptBudget - p.used > MinCut THEN ids[m + 1] ELSE None
  /\ p.base = base
  /\ base <= PromptBudget => p.used <= PromptBudget
Holds(p, ans, ids, k, base) == \E m \in 0 .. k : HoldsTo(m, p, ans, ids, k, base)

\* Admitting the next answer keeps to that.
LEMMA AdmitHolds ==
  ASSUME NEW ans, IsAnswers(ans), NEW base \in Nat, NEW n \in Nat,
         NEW ids \in [1 .. n -> DOMAIN ans], NEW k \in 1 .. n,
         NEW p \in Prompts, Holds(p, ans, ids, k - 1, base)
  PROVE  Holds(Admit(ans, p, ids[k]), ans, ids, k, base)
<1> DEFINE id == ids[k]
           q == Admit(ans, p, id)
           block == Header + ans[id].size
           left == PromptBudget - p.used
<1>1. PICK m \in 0 .. (k - 1) :
        /\ p.blocks = [j \in 1 .. m |-> ids[j]]
        /\ ~ p.full => m = k - 1 /\ p.cut = None
        /\ p.full => /\ m + 1 \in 1 .. (k - 1)
                     /\ Header + ans[ids[m + 1]].size > PromptBudget - p.used
                     /\ p.cut = IF PromptBudget - p.used > MinCut THEN ids[m + 1] ELSE None
        /\ p.base = base
        /\ base <= PromptBudget => p.used <= PromptBudget
  BY DEF Holds, HoldsTo
<1>2. /\ p = [blocks |-> p.blocks, cut |-> p.cut, full |-> p.full, base |-> p.base, used |-> p.used]
      /\ p.full \in BOOLEAN /\ p.used \in Nat /\ block \in Nat /\ left \in Int
      /\ Header \in Nat
      /\ PromptBudget \in Nat /\ MinCut \in Nat
  BY OrchestratorAssumption DEF Prompts, IsAnswers
<1>3. CASE p.full
  <2>1. q = p
    BY <1>3 DEF Admit
  <2>2. m \in 0 .. k /\ m + 1 \in 1 .. k
    BY <1>1, <1>3
  <2> HIDE DEF q
  <2>3. HoldsTo(m, q, ans, ids, k, base)
    BY <1>1, <1>3, <2>1, <2>2 DEF HoldsTo
  <2> QED BY <2>2, <2>3 DEF Holds, q, id
<1>4. CASE ~ p.full /\ block <= left
  <2>1. q = [p EXCEPT !.blocks = Append(@, id), !.used = @ + block]
    BY <1>2, <1>4 DEF Admit
  <2>2. /\ q.blocks = Append(p.blocks, id) /\ q.full = p.full /\ q.cut = p.cut
        /\ q.base = p.base /\ q.used = p.used + block
    BY <1>2, <2>1
  <2>3. m = k - 1 /\ p.cut = None
    BY <1>1, <1>4
  <2>4. Append(p.blocks, id) = [j \in 1 .. k |-> ids[j]]
    <3> DEFINE s == [j \in 1 .. (k - 1) |-> ids[j]]
    <3>1. s \in Seq(DOMAIN ans) /\ Len(s) = k - 1 /\ p.blocks = s
      BY <1>1, <2>3
    <3>2. DOMAIN Append(s, id) = 1 .. k
      BY <3>1
    <3>3. \A j \in 1 .. k : Append(s, id)[j] = ids[j]
      BY <3>1
    <3> QED BY <3>1, <3>2, <3>3
  <2>5. p.used + block <= PromptBudget
    BY <1>2, <1>4
  <2> HIDE DEF q, block, left
  <2>6. HoldsTo(k, q, ans, ids, k, base)
    BY <1>1, <1>2, <1>4, <2>2, <2>3, <2>4, <2>5 DEF HoldsTo
  <2> QED BY <2>6 DEF Holds, q, id
<1>5. ASSUME ~ p.full, block > left
      PROVE  Holds(q, ans, ids, k, base)
  <2> DEFINE c == IF left > MinCut THEN id ELSE None
  <2>1. m = k - 1 /\ m \in 0 .. k /\ m + 1 \in 1 .. k /\ id = ids[m + 1] /\ p.cut = None
    BY <1>1, <1>5
  <2>2. q = IF left > MinCut THEN [p EXCEPT !.cut = id, !.full = TRUE]
            ELSE [p EXCEPT !.full = TRUE]
    BY <1>2, <1>5 DEF Admit
  <2>3. /\ q.blocks = p.blocks /\ q.full /\ q.cut = c
        /\ q.base = p.base /\ q.used = p.used
    BY <1>2, <2>1, <2>2
  <2>4. Header + ans[ids[m + 1]].size > PromptBudget - q.used
    BY <1>5, <2>1, <2>3
  <2>5. q.cut = IF PromptBudget - q.used > MinCut THEN ids[m + 1] ELSE None
    BY <2>1, <2>3
  <2> HIDE DEF q, block, left, id, c
  <2>6. HoldsTo(m, q, ans, ids, k, base)
    BY <1>1, <2>1, <2>3, <2>4, <2>5 DEF HoldsTo
  <2> QED BY <2>1, <2>6 DEF Holds
<1>6. ~ (block <= left) => block > left
  BY <1>2
<1> QED BY <1>3, <1>4, <1>5, <1>6 DEF q, id

\* A prompt keeps to it.
LEMMA PromptHolds ==
  ASSUME NEW ans, IsAnswers(ans), Sortable(DOMAIN ans), NEW base \in Nat
  PROVE  /\ Prompt(ans, base) \in Prompts
         /\ Holds(Prompt(ans, base), ans, Ids(ans), Cardinality(DOMAIN ans), base)
<1> DEFINE n == Cardinality(DOMAIN ans)
           ids == Ids(ans)
<1>1. n \in Nat /\ ids \in [1 .. n -> DOMAIN ans]
  BY IdsAre, FS_CardinalityType DEF IsAnswers
<1>2. PICK acc : Fills(acc, ans, base)
  BY PromptIs
<1>0. \A k \in 1 .. n : acc[k] = Admit(ans, acc[k - 1], ids[k]) /\ acc[k - 1] \in Prompts
  <2>1. acc \in [0 .. n -> Prompts] /\ \A k \in 1 .. n : acc[k] = Admit(ans, acc[k - 1], ids[k])
    BY <1>2 DEF Fills
  <2> HIDE DEF n, Prompts, ids
  <2> QED BY <1>1, <2>1
<1> DEFINE T == {k \in 0 .. n : Holds(acc[k], ans, ids, k, base)}
<1>3. 0 \in T
  <2>1. acc[0] = [blocks |-> << >>, cut |-> None, full |-> FALSE, base |-> base, used |-> base]
    BY <1>2 DEF Fills, NoPrompt
  <2>2. << >> = [j \in 1 .. 0 |-> ids[j]] /\ 0 \in 0 .. n
    BY <1>1
  <2> HIDE DEF ids
  <2>4. Holds(acc[0], ans, ids, 0, base)
    BY <2>1, <2>2 DEF Holds, HoldsTo
  <2> QED BY <2>2, <2>4
<1>4. ASSUME NEW j \in 0 .. (n - 1), j \in T PROVE j + 1 \in T
  <2> DEFINE k == j + 1
  <2>1. k \in 1 .. n /\ k \in 0 .. n /\ k - 1 = j
    BY <1>1
  <2> HIDE DEF k
  <2>2. acc[k] = Admit(ans, acc[k - 1], ids[k]) /\ acc[k - 1] \in Prompts
    BY <1>0, <2>1
  <2>3. Holds(acc[k - 1], ans, ids, k - 1, base)
    BY <2>1, <1>4
  <2> HIDE DEF ids, n
  <2>4. Holds(acc[k], ans, ids, k, base)
    BY <1>1, <2>1, <2>2, <2>3, AdmitHolds
  <2> QED BY <2>1, <2>4 DEF k
<1>5. \A k \in 0 .. n : k \in T
  <2> HIDE DEF T, n
  <2> QED BY <1>1, <1>3, <1>4, UpTo
<1>6. Holds(acc[n], ans, ids, n, base)
  BY <1>1, <1>5
<1> QED BY <1>1, <1>2, <1>6 DEF Fills

\* What PromptIsPrefix and PromptFits say of one run, of its answers.
ShowsPrefix(p, ans) ==
  LET whole == ToSet(p.blocks)
  IN  /\ whole \subseteq DOMAIN ans
      /\ \A k \in whole, l \in DOMAIN ans : Before(l, k) => l \in whole
      /\ \A l \in DOMAIN ans :
            l = p.cut => \A k \in DOMAIN ans : Before(k, l) => k \in whole
      /\ ~ p.full => whole = DOMAIN ans

Fits(p, ans) ==
  LET left == PromptBudget - p.used
      rest == DOMAIN ans \ ToSet(p.blocks)
  IN  /\ p.base <= PromptBudget => left >= 0
      /\ p.full => \E l \in rest :
            /\ \A k \in rest \ {l} : Before(l, k)
            /\ Header + ans[l].size > left
            /\ p.cut = l <=> left > MinCut

\* The prompt holds a prefix of the answers in the order of their ids, and fits.
LEMMA PromptKeepsOrder ==
  ASSUME NEW ans, IsAnswers(ans), Sortable(DOMAIN ans), NEW base \in Nat
  PROVE  ShowsPrefix(Prompt(ans, base), ans) /\ Fits(Prompt(ans, base), ans)
<1> DEFINE n == Cardinality(DOMAIN ans)
           ids == Ids(ans)
           p == Prompt(ans, base)
           whole == ToSet(p.blocks)
<1>1. n \in Nat /\ ids \in [1 .. n -> DOMAIN ans]
  BY IdsAre, FS_CardinalityType DEF IsAnswers
<1>2. \A a, b \in 1 .. n : a < b => ids[a] < ids[b]
  BY IdsAre, <1>1
<1>3. \A l \in DOMAIN ans : \E a \in 1 .. n : ids[a] = l
  <2>1. ToSet(ids) = DOMAIN ans /\ DOMAIN ids = 1 .. n
    BY IdsAre, <1>1
  <2> HIDE DEF ids
  <2> QED BY <2>1 DEF ToSet
<1>4. Holds(p, ans, ids, n, base)
  BY PromptHolds
<1> HIDE DEF p, ids, n
<1>5. PICK m \in 0 .. n :
        /\ p.blocks = [j \in 1 .. m |-> ids[j]]
        /\ ~ p.full => m = n /\ p.cut = None
        /\ p.full => /\ m + 1 \in 1 .. n
                     /\ Header + ans[ids[m + 1]].size > PromptBudget - p.used
                     /\ p.cut = IF PromptBudget - p.used > MinCut THEN ids[m + 1] ELSE None
        /\ p.base = base
        /\ base <= PromptBudget => p.used <= PromptBudget
  BY <1>4 DEF Holds, HoldsTo
<1>6. whole = {ids[j] : j \in 1 .. m}
  BY <1>5 DEF ToSet
<1>7. whole \subseteq DOMAIN ans
  BY <1>1, <1>6
<1>8. ASSUME NEW a \in 1 .. n, NEW b \in 1 .. n, Before(ids[b], ids[a]) PROVE b < a
  <2>1. ids[a] \in Nat /\ ids[b] \in Nat /\ ids[b] < ids[a]
    BY <1>8, OrchestratorAssumption DEF Before
  <2>2. ~ (a < b) /\ a # b
    BY <1>2, <2>1
  <2> QED BY <2>2
<1> HIDE DEF whole
<1>9. ASSUME NEW k \in whole, NEW l \in DOMAIN ans, Before(l, k) PROVE l \in whole
  <2>0. 1 .. m \subseteq 1 .. n
    BY <1>1
  <2>1. PICK a \in 1 .. m : ids[a] = k /\ a \in 1 .. n
    BY <1>6, <2>0
  <2>2. PICK b \in 1 .. n : ids[b] = l
    BY <1>3
  <2>3. Before(ids[b], ids[a])
    BY <1>9, <2>1, <2>2
  <2>4. b < a
    BY <1>8, <2>1, <2>2, <2>3
  <2> QED BY <1>6, <2>1, <2>2, <2>4
<1>10. ASSUME NEW l \in DOMAIN ans, l = p.cut, NEW k \in DOMAIN ans, Before(k, l)
       PROVE  k \in whole
  <2>1. l # None
    BY OrchestratorAssumption DEF IsAnswers, StepKeys
  <2>2. m + 1 \in 1 .. n /\ l = ids[m + 1]
    BY <1>5, <1>10, <2>1
  <2>3. PICK b \in 1 .. n : ids[b] = k
    BY <1>3
  <2>4. b < m + 1
    BY <1>8, <1>10, <2>2, <2>3
  <2> QED BY <1>6, <2>3, <2>4
<1>11. ASSUME ~ p.full PROVE whole = DOMAIN ans
  BY <1>3, <1>5, <1>6, <1>7, <1>11
<1>12. ShowsPrefix(p, ans)
  BY <1>7, <1>9, <1>10, <1>11 DEF ShowsPrefix, whole
<1>13. p.used \in Nat /\ PromptBudget \in Nat /\ MinCut \in Nat
  BY PromptHolds, OrchestratorAssumption DEF Prompts, p
<1>14. ASSUME p.full
       PROVE  \E l \in DOMAIN ans \ whole :
                 /\ \A k \in (DOMAIN ans \ whole) \ {l} : Before(l, k)
                 /\ Header + ans[l].size > PromptBudget - p.used
                 /\ p.cut = l <=> PromptBudget - p.used > MinCut
  <2> DEFINE l == ids[m + 1]
  <2>1. /\ m + 1 \in 1 .. n /\ Header + ans[l].size > PromptBudget - p.used
        /\ p.cut = IF PromptBudget - p.used > MinCut THEN l ELSE None
    BY <1>5, <1>14
  <2>2. l \in DOMAIN ans /\ l # None
    BY <1>1, <2>1, OrchestratorAssumption DEF IsAnswers, StepKeys
  <2>3. ASSUME NEW a \in 1 .. n, NEW b \in 1 .. n, a < b
        PROVE  Before(ids[a], ids[b])
    <3>1. ids[a] < ids[b] /\ ids[a] \in DOMAIN ans /\ ids[b] \in DOMAIN ans
      BY <1>1, <1>2, <2>3
    <3>2. DOMAIN ans = {Unordered} \/ DOMAIN ans \subseteq StepIds
      BY DEF Sortable, IsAnswers, StepKeys
    <3>3. CASE DOMAIN ans \subseteq StepIds
      <4>1. ids[a] \in Nat /\ ids[b] \in Nat /\ {ids[a], ids[b]} \subseteq StepIds
        BY <3>1, <3>3, OrchestratorAssumption
      <4> QED BY <3>1, <4>1 DEF Before
    <3>4. CASE DOMAIN ans = {Unordered}
      <4>1. n = 1
        BY <3>4, FS_Singleton DEF n
      <4> QED BY <2>3, <4>1
    <3> QED BY <3>2, <3>3, <3>4
  <2> HIDE DEF l
  <2>4. l \notin whole
    <3>1. SUFFICES ASSUME NEW j \in 1 .. m, ids[j] = l PROVE FALSE
      BY <1>6
    <3>2. j \in 1 .. n /\ m + 1 \in 1 .. n /\ j < m + 1
      BY <1>1, <2>1
    <3>3. Before(ids[j], ids[m + 1])
      BY <2>3, <3>2
    <3> QED BY <3>1, <3>3 DEF Before, l
  <2>5. ASSUME NEW k \in (DOMAIN ans \ whole) \ {l} PROVE Before(l, k)
    <3>1. PICK b \in 1 .. n : ids[b] = k
      BY <1>3
    <3>2. b \notin 1 .. m /\ b # m + 1
      BY <1>6, <2>5, <3>1 DEF l
    <3>3. m + 1 < b
      BY <1>1, <3>2
    <3> QED BY <2>1, <2>3, <3>1, <3>3 DEF l
  <2> QED BY <2>1, <2>2, <2>4, <2>5
<1>15. p.base <= PromptBudget => PromptBudget - p.used >= 0
  BY <1>5, <1>13
<1> QED BY <1>12, <1>14, <1>15 DEF Fits, p, whole

(***************************************************************************)
(* The context: tokens                                                     *)
(***************************************************************************)

Lists == Seq([slot : Slots, tokens : Nat, score : Nat])
Weights(c) == [i \in DOMAIN c |-> c[i].tokens]

\* A list of candidates is finite, and has slots, tokens and scores.
LEMMA ListsAre ==
  ASSUME NEW c \in Lists
  PROVE  /\ IsFiniteSet(DOMAIN c) /\ DOMAIN c \subseteq Nat
         /\ \A i \in DOMAIN c : c[i].slot \in Slots /\ c[i].tokens \in Nat /\ c[i].score \in Nat
<1> DEFINE One == [slot : Slots, tokens : Nat, score : Nat]
<1>1. c \in Seq(One)
  BY DEF Lists
<1> HIDE DEF One
<1>2. Len(c) \in Nat /\ DOMAIN c = 1 .. Len(c) /\ \A i \in DOMAIN c : c[i] \in One
  BY <1>1
<1>3. IsFiniteSet(DOMAIN c)
  BY <1>2, FS_Interval
<1>4. \A x \in One : x.slot \in Slots /\ x.tokens \in Nat /\ x.score \in Nat
  BY DEF One
<1> QED BY <1>2, <1>3, <1>4

\* Tokens is a sum.
LEMMA TokensSum ==
  ASSUME NEW c \in Lists
  PROVE  \E F : /\ SumsUp(F, DOMAIN c, Weights(c))
                /\ \A A \in SUBSET DOMAIN c : Tokens(c, A) = F[A]
<1> DEFINE D == DOMAIN c
           w == Weights(c)
<1>1. IsFiniteSet(D) /\ w \in [D -> Nat] /\ \A i \in D : w[i] = c[i].tokens
  BY ListsAre DEF Weights
<1> HIDE DEF w
<1>2. PICK F : SumsUp(F, D, w)
  BY <1>1, SumExists
<1>3. ASSUME NEW A \in SUBSET D PROVE Tokens(c, A) = F[A]
  <2> DEFINE Eqn(f) == f = [t \in SUBSET A |->
                              IF t = {} THEN 0
                              ELSE c[CHOOSE x \in t : TRUE].tokens + f[t \ {CHOOSE x \in t : TRUE}]]
             iter == CHOOSE f : Eqn(f)
  <2>1. Tokens(c, A) = iter[A]
    BY DEF Tokens, MapThenSumSet, MapThenFoldSet
  <2>2. ASSUME NEW f PROVE Eqn(f) <=> Adds(f, A, w)
    <3>1. ASSUME NEW t \in SUBSET A, t # {}
          PROVE  c[CHOOSE x \in t : TRUE].tokens = w[CHOOSE x \in t : TRUE]
      BY <1>1, <3>1
    <3> QED BY <3>1 DEF Adds
  <2> HIDE DEF Eqn
  <2>3. (\E f : Adds(f, A, w)) /\ \A f : Adds(f, A, w) => f[A] = F[A]
    <3> HIDE DEF D
    <3>1. A \in SUBSET D
      BY <1>3
    <3> QED BY <1>1, <1>2, <3>1, AddsUp
  <2>4. Eqn(iter)
    BY <2>2, <2>3
  <2> QED BY <2>1, <2>2, <2>3, <2>4
<1>4. \A A \in SUBSET D : Tokens(c, A) = F[A]
  BY <1>3
<1> QED BY <1>2, <1>4 DEF w

\* Tokens adds up: the sum grows by each candidate's own.
LEMMA TokensAre ==
  ASSUME NEW c \in Lists
  PROVE  /\ Tokens(c, {}) = 0
         /\ \A A \in SUBSET DOMAIN c : Tokens(c, A) \in Nat
         /\ \A A \in SUBSET DOMAIN c, x \in DOMAIN c :
               x \notin A => Tokens(c, A \cup {x}) = Tokens(c, A) + c[x].tokens
<1>1. PICK F : /\ SumsUp(F, DOMAIN c, Weights(c))
               /\ \A A \in SUBSET DOMAIN c : Tokens(c, A) = F[A]
  BY TokensSum
<1>2. Tokens(c, {}) = 0 /\ \A A \in SUBSET DOMAIN c : Tokens(c, A) \in Nat
  BY <1>1 DEF SumsUp
<1>3. ASSUME NEW A \in SUBSET DOMAIN c, NEW x \in DOMAIN c, x \notin A
      PROVE  Tokens(c, A \cup {x}) = Tokens(c, A) + c[x].tokens
  <2>1. F[A \cup {x}] = F[A] + Weights(c)[x]
    BY <1>1, <1>3 DEF SumsUp
  <2>2. A \cup {x} \in SUBSET DOMAIN c /\ Weights(c)[x] = c[x].tokens
    BY DEF Weights
  <2> QED BY <1>1, <2>1, <2>2
<1> QED BY <1>2, <1>3

(***************************************************************************)
(* The context: budgets and orders                                         *)
(***************************************************************************)

\* What is selected is part of the list, and what is added to it is added.
LEMMA Listed ==
  ASSUME NEW c \in Lists, NEW chosen \in Seq(DOMAIN c)
  PROVE  /\ ToSet(chosen) \subseteq DOMAIN c /\ IsFiniteSet(ToSet(chosen))
         /\ \A s : OfSlot(c, s, chosen) \subseteq DOMAIN c
         /\ \A i \in DOMAIN c : /\ Append(chosen, i) \in Seq(DOMAIN c)
                                /\ ToSet(Append(chosen, i)) = ToSet(chosen) \cup {i}
<1> DEFINE D == DOMAIN c
<1>1. IsFiniteSet(D)
  BY ListsAre
<1>2. chosen \in Seq(D)
  OBVIOUS
<1> HIDE DEF D
<1>3. ToSet(chosen) \subseteq D
  BY <1>2 DEF ToSet
<1>4. IsFiniteSet(ToSet(chosen))
  BY <1>1, <1>3, FS_Subset
<1>5. \A s : OfSlot(c, s, chosen) \subseteq D
  BY <1>3 DEF OfSlot
<1>6. ASSUME NEW i \in D
      PROVE  Append(chosen, i) \in Seq(D) /\ ToSet(Append(chosen, i)) = ToSet(chosen) \cup {i}
  <2> DEFINE n == Len(chosen)
             a == Append(chosen, i)
  <2>1. /\ a \in Seq(D) /\ DOMAIN a = 1 .. (n + 1) /\ DOMAIN chosen = 1 .. n /\ n \in Nat
        /\ a[n + 1] = i /\ \A j \in 1 .. n : a[j] = chosen[j]
    BY <1>2
  <2> HIDE DEF a, n
  <2>2. ToSet(a) \subseteq ToSet(chosen) \cup {i}
    BY <2>1 DEF ToSet
  <2>3. ToSet(chosen) \cup {i} \subseteq ToSet(a)
    <3>1. 1 .. n \subseteq 1 .. (n + 1) /\ n + 1 \in 1 .. (n + 1)
      BY <2>1
    <3> QED BY <2>1, <3>1 DEF ToSet
  <2> QED BY <2>1, <2>2, <2>3 DEF a
<1> QED BY <1>3, <1>4, <1>5, <1>6 DEF D

\* The budgets of the slots are numbers.
LEMMA SlotBudgetIs == SlotBudget \in [Slots -> Nat]
<1>1. ASSUME NEW s \in Slots PROVE (SlotShare[s] * MaxTokens) \div FullBudget \in Nat
  <2>1. SlotShare[s] \in Nat /\ MaxTokens \in Nat /\ FullBudget \in Nat \ {0}
    BY BuilderAssumption
  <2> DEFINE x == SlotShare[s] * MaxTokens
  <2>2. x \in Nat
    BY <2>1
  <2> HIDE DEF x
  <2>3. x \div FullBudget \in Nat
    BY <2>1, <2>2
  <2> QED BY <2>3 DEF x
<1> QED BY <1>1 DEF SlotBudget

\* What is given to the hungry slots is a number, and only they are given it.
LEMMA RedistributedIs ==
  ASSUME NEW c \in Lists, NEW chosen \in Seq(DOMAIN c)
  PROVE  Redistributed(c, chosen) \in [Slots -> Int]
<1> DEFINE used   == [s \in Slots |-> Tokens(c, OfSlot(c, s, chosen))]
           idle   == {s \in Slots : 10 * used[s] < 3 * SlotBudget[s]}
           hungry == {s \in Slots \ idle : 10 * used[s] >= 9 * SlotBudget[s]}
           unused == MapThenSumSet(LAMBDA s : SlotBudget[s] - used[s], idle)
           w == [s \in idle |-> SlotBudget[s] - used[s]]
<1>1. \A s \in Slots : used[s] \in Nat /\ SlotBudget[s] \in Nat
  BY Listed, TokensAre, SlotBudgetIs
<1>2. idle \subseteq Slots /\ hungry \subseteq Slots /\ IsFiniteSet(idle) /\ IsFiniteSet(hungry)
  BY BuilderAssumption, FS_Subset
<1> HIDE DEF used
<1>3. w \in [idle -> Nat]
  <2>1. \A s \in idle : SlotBudget[s] - used[s] \in Nat
    BY <1>1
  <2> QED BY <2>1
<1>4. unused \in Nat
  <2> DEFINE Eqn(f) == f = [t \in SUBSET idle |->
                              IF t = {} THEN 0
                              ELSE SlotBudget[CHOOSE x \in t : TRUE] - used[CHOOSE x \in t : TRUE]
                                   + f[t \ {CHOOSE x \in t : TRUE}]]
             iter == CHOOSE f : Eqn(f)
  <2>1. unused = iter[idle]
    BY DEF MapThenSumSet, MapThenFoldSet
  <2> HIDE DEF idle, hungry, unused
  <2>2. ASSUME NEW f PROVE Eqn(f) <=> Adds(f, idle, w)
    <3>1. ASSUME NEW t \in SUBSET idle, t # {}
          PROVE  SlotBudget[CHOOSE x \in t : TRUE] - used[CHOOSE x \in t : TRUE]
                 = w[CHOOSE x \in t : TRUE]
      BY <3>1
    <3> HIDE DEF w
    <3> QED BY <3>1 DEF Adds
  <2> HIDE DEF Eqn, w
  <2>3. PICK F : SumsUp(F, idle, w)
    BY <1>2, <1>3, SumExists
  <2>4. (\E f : Adds(f, idle, w)) /\ \A f : Adds(f, idle, w) => f[idle] = F[idle]
    <3>1. idle \in SUBSET idle /\ IsFiniteSet(idle)
      BY <1>2
    <3> HIDE DEF iter
    <3>2. (\E f : Adds(f, idle, w))
      BY <1>3, <2>3, <3>1, AddsUp
    <3>3. ASSUME NEW f, Adds(f, idle, w) PROVE f[idle] = F[idle]
      BY <1>3, <2>3, <3>1, <3>3, AddsUp
    <3> QED BY <3>2, <3>3
  <2>5. Eqn(iter)
    BY <2>2, <2>4
  <2>6. F[idle] \in Nat
    BY <2>3 DEF SumsUp
  <2> QED BY <2>1, <2>2, <2>4, <2>5, <2>6
<1>5. Redistributed(c, chosen) =
        [s \in Slots |-> SlotBudget[s] + (IF s \in hungry
                                          THEN unused \div Cardinality(hungry) ELSE 0)]
  BY DEF Redistributed, used
<1> HIDE DEF unused, hungry
<1>6. ASSUME NEW s \in Slots
      PROVE  SlotBudget[s] + (IF s \in hungry THEN unused \div Cardinality(hungry) ELSE 0) \in Int
  <2>1. CASE s \in hungry
    <3>1. Cardinality(hungry) \in Nat \ {0}
      BY <1>2, <2>1, FS_CardinalityType, FS_EmptySet
    <3>2. unused \div Cardinality(hungry) \in Int
      BY <1>4, <3>1
    <3> QED BY <1>1, <2>1, <3>2
  <2>2. CASE s \notin hungry
    BY <1>1, <2>2
  <2> QED BY <2>1, <2>2
<1> QED BY <1>5, <1>6

\* The least of a set of numbers.
LEMMA MinIs ==
  ASSUME NEW T, T \subseteq Nat, T # {}
  PROVE  Min(T) \in T /\ \A x \in T : Min(T) <= x
<1>1. \E x \in T : \A y \in T : x <= y
  BY LeastOf
<1> QED BY <1>1 DEF Min

Slot(c, s) == {i \in DOMAIN c : c[i].slot = s}

\* A slot's candidates in a row, none after a less relevant one.
Ranks(ids, c, s) ==
  /\ ids \in [1 .. Cardinality(Slot(c, s)) -> Slot(c, s)]
  /\ \A i \in Slot(c, s) : \E k \in DOMAIN ids : ids[k] = i
  /\ \A k, l \in DOMAIN ids : k < l => c[ids[k]].score >= c[ids[l]].score

\* Ranked gives such a row.
LEMMA RankedIs ==
  ASSUME NEW c \in Lists, NEW s
  PROVE  Ranks(Ranked(c, s), c, s)
<1> DEFINE D == Slot(c, s)
           Ahead(i, j) == \/ c[i].score > c[j].score
                          \/ c[i].score = c[j].score /\ i < j
           R == {p \in D \X D : Ahead(p[1], p[2])}
           Sorted(u) == /\ ToSet(u) = D
                        /\ \A k, l \in DOMAIN u : k < l => Ahead(u[k], u[l])
<1>1. IsFiniteSet(D) /\ \A i \in D : i \in Nat /\ c[i].score \in Nat
  BY ListsAre, FS_Subset DEF Slot
<1>2. Ranked(c, s) = CHOOSE u \in [1 .. Cardinality(D) -> D] : Sorted(u)
  BY DEF Ranked, InOrder, Slot
<1> HIDE DEF D
<1>3. Orders(R, D)
  <2>1. \A i, j \in D : <<i, j>> \in R <=> Ahead(i, j)
    OBVIOUS
  <2> HIDE DEF R
  <2> QED BY <1>1, <2>1 DEF Orders
<1>4. \A i, j : <<i, j>> \in R => Ahead(i, j)
  OBVIOUS
<1> HIDE DEF R
<1>5. PICK u : SortedBy(u, R, D)
  BY <1>1, <1>3, SortExists
<1>6. u \in [1 .. Cardinality(D) -> D] /\ Sorted(u)
  <2> HIDE DEF Ahead
  <2> QED BY <1>4, <1>5 DEF SortedBy
<1> DEFINE ids == Ranked(c, s)
<1>7. ids \in [1 .. Cardinality(D) -> D] /\ Sorted(ids)
  <2> HIDE DEF Sorted
  <2> QED BY <1>2, <1>6
<1> HIDE DEF ids
<1>8. \A k, l \in DOMAIN ids : k < l => c[ids[k]].score >= c[ids[l]].score
  BY <1>1, <1>7
<1>9. \A i \in D : \E k \in DOMAIN ids : ids[k] = i
  BY <1>7 DEF ToSet
<1>10. Ranks(ids, c, s)
  BY <1>7, <1>8, <1>9 DEF Ranks, D
<1> QED BY <1>10 DEF ids

\* SlotOrder names slots.
LEMMA SlotOrderIs ==
  ASSUME NEW c \in Lists
  PROVE  \E n \in Nat : SlotOrder(c) \in [1 .. n -> Slots]
<1> DEFINE D == {c[i].slot : i \in DOMAIN c}
           First(s) == Min({i \in DOMAIN c : c[i].slot = s})
           R == {p \in D \X D : First(p[1]) < First(p[2])}
           Sorted(u) == /\ ToSet(u) = D
                        /\ \A k, l \in DOMAIN u : k < l => First(u[k]) < First(u[l])
<1>1. D \subseteq Slots /\ IsFiniteSet(D)
  <2>1. D \subseteq Slots
    BY ListsAre
  <2> QED BY <2>1, BuilderAssumption, FS_Subset
<1>2. ASSUME NEW s \in D PROVE First(s) \in Nat /\ c[First(s)].slot = s
  <2> DEFINE T == {i \in DOMAIN c : c[i].slot = s}
  <2>1. T \subseteq Nat /\ T # {}
    BY ListsAre
  <2> HIDE DEF T
  <2>2. Min(T) \in T
    BY <2>1, MinIs
  <2>3. Min(T) \in Nat
    BY <2>1, <2>2
  <2> QED BY <2>2, <2>3 DEF T
<1>3. SlotOrder(c) = CHOOSE u \in [1 .. Cardinality(D) -> D] : Sorted(u)
  BY DEF SlotOrder, InOrder
<1> HIDE DEF D, First
<1>4. Orders(R, D)
  <2>1. \A s, t \in D : <<s, t>> \in R <=> First(s) < First(t)
    OBVIOUS
  <2>2. \A s, t \in D : s # t => First(s) # First(t)
    BY <1>2
  <2> HIDE DEF R
  <2> QED BY <1>2, <2>1, <2>2 DEF Orders
<1>5. \A s, t : <<s, t>> \in R => First(s) < First(t)
  OBVIOUS
<1> HIDE DEF R
<1>6. PICK u : SortedBy(u, R, D)
  BY <1>1, <1>4, SortExists
<1>7. u \in [1 .. Cardinality(D) -> D] /\ Sorted(u)
  BY <1>5, <1>6 DEF SortedBy
<1>8. SlotOrder(c) \in [1 .. Cardinality(D) -> D]
  <2> HIDE DEF Sorted
  <2> QED BY <1>3, <1>7
<1> QED BY <1>1, <1>8, FS_CardinalityType

(***************************************************************************)
(* The context: selection                                                  *)
(***************************************************************************)

\* Within a slot nothing is left out of S for something less relevant in it
\* that is no smaller.
Best(c, S) ==
  \A i \in DOMAIN c \ S, j \in S :
     c[i].slot = c[j].slot /\ c[i].tokens <= c[j].tokens => c[i].score <= c[j].score

Kept(c, chosen) ==
  /\ chosen \in Seq(DOMAIN c)
  /\ Cardinality(ToSet(chosen)) = Len(chosen)
  /\ Best(c, ToSet(chosen))

\* Of the first k of a slot, what was not taken no longer fits.
Past(c, s, budget, chosen, ids, k) ==
  \A m \in 1 .. k :
     \/ ids[m] \in ToSet(chosen)
     \/ Tokens(c, OfSlot(c, s, chosen)) + c[ids[m]].tokens > budget

\* Taking the next of a slot, or leaving it, keeps to both.
LEMMA TakeKeeps ==
  ASSUME NEW c \in Lists, NEW s, NEW budget \in Int, NEW n \in Nat,
         n = Cardinality(Slot(c, s)), NEW ids, Ranks(ids, c, s), NEW k \in 1 .. n,
         NEW chosen, Kept(c, chosen), Past(c, s, budget, chosen, ids, k - 1)
  PROVE  /\ Kept(c, Take(c, s, budget, chosen, ids[k]))
         /\ Past(c, s, budget, Take(c, s, budget, chosen, ids[k]), ids, k)
<1> DEFINE D == DOMAIN c
           x == ids[k]
           S == ToSet(chosen)
           own == OfSlot(c, s, chosen)
           next == Take(c, s, budget, chosen, x)
<1>1. /\ ids \in [1 .. n -> Slot(c, s)]
      /\ \A i \in Slot(c, s) : \E l \in 1 .. n : ids[l] = i
      /\ \A l, m \in 1 .. n : l < m => c[ids[l]].score >= c[ids[m]].score
  <2>1. DOMAIN ids = 1 .. n
    BY DEF Ranks
  <2> QED BY <2>1 DEF Ranks
<1>2. x \in D /\ c[x].slot = s
  BY <1>1 DEF Slot
<1>3. /\ chosen \in Seq(D) /\ Cardinality(S) = Len(chosen) /\ Best(c, S)
      /\ S \subseteq D /\ IsFiniteSet(S)
  BY Listed DEF Kept
<1>4. own = {i \in S : c[i].slot = s} /\ own \subseteq D
  BY <1>3 DEF OfSlot
<1>5. \A i \in D : c[i].tokens \in Nat /\ c[i].score \in Nat
  BY ListsAre
<1>6. Tokens(c, own) \in Nat
  BY <1>4, TokensAre
<1>7. CASE x \notin own /\ Tokens(c, own) + c[x].tokens <= budget
  <2>1. next = Append(chosen, x)
    BY <1>7 DEF Take
  <2>2. /\ next \in Seq(D) /\ ToSet(next) = S \cup {x}
    BY <1>2, <1>3, <2>1, Listed
  <2>3. x \notin S
    BY <1>2, <1>4, <1>7
  <2>4. Len(next) = Len(chosen) + 1
    BY <1>3, <2>1
  <2>5. Cardinality(ToSet(next)) = Len(next)
    BY <1>3, <2>2, <2>3, <2>4, FS_AddElement
  <2>6. OfSlot(c, s, next) = own \cup {x}
    BY <1>2, <1>4, <2>2 DEF OfSlot
  <2>7. Tokens(c, OfSlot(c, s, next)) = Tokens(c, own) + c[x].tokens
    <3>1. x \notin own /\ x \in DOMAIN c /\ own \in SUBSET (DOMAIN c)
      BY <1>2, <1>4, <1>7
    <3> HIDE DEF x, own, next
    <3>2. Tokens(c, own \cup {x}) = Tokens(c, own) + c[x].tokens
      BY <3>1, TokensAre
    <3> QED BY <3>2, <2>6
  <2> HIDE DEF x, S, own, next, D
  <2>8. ASSUME NEW i \in D \ (S \cup {x}), c[i].slot = c[x].slot, c[i].tokens <= c[x].tokens
        PROVE  c[i].score <= c[x].score
    <3>1. PICK m \in 1 .. n : ids[m] = i
      BY <1>1, <1>2, <2>8 DEF Slot, D
    <3>2. CASE m < k
      <4>1. m \in 1 .. (k - 1)
        BY <3>2
      <4>2. Tokens(c, own) + c[i].tokens > budget
        BY <2>8, <3>1, <4>1 DEF Past, S, own
      <4> QED BY <1>2, <1>5, <1>6, <1>7, <2>8, <4>2
    <3>3. CASE m = k
      BY <2>8, <3>1, <3>3 DEF x
    <3>4. CASE k < m
      <4>1. c[x].score >= c[i].score
        BY <1>1, <3>1, <3>4 DEF x
      <4> QED BY <4>1, <1>2, <1>5, <2>8
    <3> QED BY <3>2, <3>3, <3>4
  <2>9. Best(c, S \cup {x})
    BY <1>3, <2>8 DEF Best, D
  <2>10. Kept(c, next)
    BY <2>2, <2>5, <2>9 DEF Kept, D
  <2>11. ASSUME NEW m \in 1 .. k
         PROVE  \/ ids[m] \in ToSet(next)
                \/ Tokens(c, OfSlot(c, s, next)) + c[ids[m]].tokens > budget
    <3>1. CASE m = k
      BY <3>1, <2>2 DEF x
    <3>2. CASE m # k
      <4>1. m \in 1 .. (k - 1) /\ m \in 1 .. n
        BY <3>2
      <4>2. ids[m] \in S \/ Tokens(c, own) + c[ids[m]].tokens > budget
        BY <4>1 DEF Past, S, own
      <4>3. ids[m] \in D
        BY <1>1, <4>1 DEF Slot, D
      <4>4. CASE ids[m] \in S
        BY <4>4, <2>2
      <4>5. CASE Tokens(c, own) + c[ids[m]].tokens > budget
        <5>1. c[ids[m]].tokens \in Nat /\ c[x].tokens \in Nat
          BY <1>2, <1>5, <4>3
        <5> QED BY <1>6, <2>7, <4>5, <5>1
      <4> QED BY <4>2, <4>4, <4>5
    <3> QED BY <3>1, <3>2
  <2> QED BY <2>10, <2>11 DEF Past, next, x
<1>8. CASE ~ (x \notin own /\ Tokens(c, own) + c[x].tokens <= budget)
  <2>1. next = chosen
    BY <1>8 DEF Take
  <2>2. x \in S \/ Tokens(c, own) + c[x].tokens > budget
    BY <1>2, <1>4, <1>5, <1>6, <1>8
  <2> HIDE DEF S, own, next
  <2>3. ASSUME NEW m \in 1 .. k
        PROVE  ids[m] \in S \/ Tokens(c, own) + c[ids[m]].tokens > budget
    <3>1. CASE m = k
      BY <2>2, <3>1
    <3>2. CASE m # k
      <4>1. m \in 1 .. (k - 1)
        BY <3>2
      <4> QED BY <4>1 DEF Past, S, own
    <3> QED BY <3>1, <3>2
  <2>4. Past(c, s, budget, chosen, ids, k)
    BY <2>3 DEF Past, S, own
  <2> QED BY <2>1, <2>4 DEF next
<1> QED BY <1>7, <1>8

\* One pass over a slot keeps what is best of it.
LEMMA FillSlotKeeps ==
  ASSUME NEW c \in Lists, NEW s, NEW budget \in Int, NEW selected \in Seq(DOMAIN c)
  PROVE  /\ FillSlot(c, s, budget, selected) \in Seq(DOMAIN c)
         /\ Kept(c, selected) => Kept(c, FillSlot(c, s, budget, selected))
<1> DEFINE n == Cardinality(Slot(c, s))
           ids == Ranked(c, s)
           C == Seq(DOMAIN c)
           g == [q \in C \X (1 .. n) |-> Take(c, s, budget, q[1], ids[q[2]])]
           Eqn(f) == f = [t \in SUBSET (DOMAIN ids) |->
                             IF t = {} THEN selected
                             ELSE Take(c, s, budget, f[t \ {Max(t)}], ids[Max(t)])]
           iter == CHOOSE f : Eqn(f)
<1>1. Ranks(ids, c, s) /\ n \in Nat
  BY RankedIs, ListsAre, FS_Subset, FS_CardinalityType DEF Slot
<1>2. ids \in [1 .. n -> Slot(c, s)]
  BY <1>1 DEF Ranks
<1>3. FillSlot(c, s, budget, selected) = iter[DOMAIN ids]
  BY DEF FillSlot, FoldLeft, MapThenFoldSet
<1> HIDE DEF n, ids
<1>4. ASSUME NEW chosen \in C, NEW i \in Slot(c, s) PROVE Take(c, s, budget, chosen, i) \in C
  BY <1>4, Listed DEF Take, Slot
<1>5. /\ g \in Steppers(C, n)
      /\ \A p \in C, k \in 1 .. n : g[<<p, k>>] = Take(c, s, budget, p, ids[k])
  BY <1>2, <1>4 DEF Steppers
<1>6. selected \in C
  OBVIOUS
<1> HIDE DEF g, C
<1>7. \E f : Eqn(f)
  <2>1. PICK f \in [SUBSET (1 .. n) -> C] : IsFold(f, n, selected, g)
    BY <1>1, <1>5, <1>6, FoldExists
  <2>2. ASSUME NEW t \in SUBSET (1 .. n), t # {}
        PROVE  f[t] = Take(c, s, budget, f[t \ {Max(t)}], ids[Max(t)])
    <3>1. Max(t) \in 1 .. n
      BY <1>1, <2>2, MaxIs
    <3>2. f[t \ {Max(t)}] \in C
      OBVIOUS
    <3> QED BY <2>1, <2>2, <3>1, <3>2, <1>5 DEF IsFold
  <2>3. f[{}] = selected
    BY <2>1 DEF IsFold
  <2>4. Eqn(f)
    BY <1>2, <2>2, <2>3
  <2> HIDE DEF Eqn
  <2> QED BY <2>4
<1>8. Eqn(iter)
  <2> HIDE DEF Eqn
  <2> QED BY <1>7
<1> HIDE DEF iter
<1>9. iter[{}] = selected
  BY <1>8
<1>10. ASSUME NEW t \in SUBSET (1 .. n), t # {}, iter[t \ {Max(t)}] \in C
       PROVE  iter[t] = g[<<iter[t \ {Max(t)}], Max(t)>>]
  <2>1. Max(t) \in 1 .. n
    BY <1>1, <1>10, MaxIs
  <2>2. iter[t] = Take(c, s, budget, iter[t \ {Max(t)}], ids[Max(t)])
    BY <1>2, <1>8, <1>10
  <2> QED BY <2>1, <2>2, <1>5, <1>10
<1> HIDE DEF Eqn
<1>11. PICK acc : Reaches(acc, n, C, selected, g) /\ iter[1 .. n] = acc[n]
  <2>1. FoldsWithin(iter, n, C, selected, g)
    BY <1>9, <1>10 DEF FoldsWithin
  <2>2. g \in Steppers(C, n)
    BY <1>5
  <2> QED BY <1>1, <1>6, <2>1, <2>2, FoldIs
<1>12. \A k \in 0 .. n : acc[k] \in C
  BY <1>11 DEF Reaches
<1>13. ASSUME NEW k \in 1 .. n PROVE acc[k] = Take(c, s, budget, acc[k - 1], ids[k])
  <2>1. acc[k - 1] \in C /\ acc[k] = g[<<acc[k - 1], k>>]
    BY <1>1, <1>11 DEF Reaches
  <2> QED BY <1>5, <2>1
<1>14. FillSlot(c, s, budget, selected) = acc[n]
  BY <1>2, <1>3, <1>11
<1>15. ASSUME Kept(c, selected) PROVE Kept(c, acc[n])
  <2> DEFINE T == {k \in 0 .. n : Kept(c, acc[k]) /\ Past(c, s, budget, acc[k], ids, k)}
  <2>1. 0 \in T
    <3>1. acc[0] = selected
      BY <1>11 DEF Reaches
    <3> QED BY <1>1, <1>15, <3>1 DEF Past
  <2>2. ASSUME NEW j \in 0 .. (n - 1), j \in T PROVE j + 1 \in T
    <3> DEFINE k == j + 1
    <3>1. k \in 1 .. n /\ k \in 0 .. n /\ k - 1 = j
      BY <1>1
    <3> HIDE DEF k
    <3>2. Kept(c, acc[k - 1]) /\ Past(c, s, budget, acc[k - 1], ids, k - 1)
      BY <2>2, <3>1
    <3>3. n = Cardinality(Slot(c, s))
      BY DEF n
    <3>4. Kept(c, acc[k]) /\ Past(c, s, budget, acc[k], ids, k)
      BY <1>1, <1>13, <3>1, <3>2, <3>3, TakeKeeps
    <3> QED BY <3>1, <3>4 DEF k
  <2>3. \A k \in 0 .. n : k \in T
    <3> HIDE DEF T
    <3> QED BY <1>1, <2>1, <2>2, UpTo
  <2> QED BY <1>1, <2>3
<1>16. acc[n] \in C
  BY <1>1, <1>12
<1> QED BY <1>14, <1>15, <1>16 DEF C

\* A pass over all slots does.
LEMMA PassKeeps ==
  ASSUME NEW c \in Lists, NEW budgets \in [Slots -> Int], NEW selected \in Seq(DOMAIN c)
  PROVE  /\ Pass(c, budgets, selected) \in Seq(DOMAIN c)
         /\ Kept(c, selected) => Kept(c, Pass(c, budgets, selected))
<1> DEFINE order == SlotOrder(c)
           C == Seq(DOMAIN c)
           Fill(chosen, s) == FillSlot(c, s, budgets[s], chosen)
<1>1. PICK n \in Nat : order \in [1 .. n -> Slots]
  BY SlotOrderIs
<1> DEFINE g == [q \in C \X (1 .. n) |-> Fill(q[1], order[q[2]])]
           Eqn(f) == f = [t \in SUBSET (DOMAIN order) |->
                             IF t = {} THEN selected
                             ELSE FillSlot(c, order[Max(t)], budgets[order[Max(t)]], f[t \ {Max(t)}])]
           iter == CHOOSE f : Eqn(f)
<1>2. Pass(c, budgets, selected) = iter[DOMAIN order]
  BY DEF Pass, FoldLeft, MapThenFoldSet
<1> HIDE DEF order
<1>3. ASSUME NEW chosen \in C, NEW s \in Slots
      PROVE  /\ Fill(chosen, s) \in C
             /\ Kept(c, chosen) => Kept(c, Fill(chosen, s))
  <2>1. budgets[s] \in Int
    OBVIOUS
  <2> QED BY <2>1, FillSlotKeeps
<1>4. selected \in C
  OBVIOUS
<1> HIDE DEF C
<1>5. g \in Steppers(C, n) /\ \A p \in C, k \in 1 .. n : g[<<p, k>>] = Fill(p, order[k])
  <2> HIDE DEF Fill
  <2> QED BY <1>1, <1>3 DEF Steppers
<1> HIDE DEF g
<1>6. \E f : Eqn(f)
  <2>1. PICK f \in [SUBSET (1 .. n) -> C] : IsFold(f, n, selected, g)
    BY <1>4, <1>5, FoldExists
  <2>2. ASSUME NEW t \in SUBSET (1 .. n), t # {}
        PROVE  f[t] = FillSlot(c, order[Max(t)], budgets[order[Max(t)]], f[t \ {Max(t)}])
    <3>1. Max(t) \in 1 .. n
      BY <2>2, MaxIs
    <3>2. f[t \ {Max(t)}] \in C
      OBVIOUS
    <3>3. f[t] = Fill(f[t \ {Max(t)}], order[Max(t)])
      <4> HIDE DEF Fill
      <4> QED BY <2>1, <2>2, <3>1, <3>2, <1>5 DEF IsFold
    <3> QED BY <3>3
  <2>3. f[{}] = selected
    BY <2>1 DEF IsFold
  <2>4. Eqn(f)
    BY <1>1, <2>2, <2>3
  <2> HIDE DEF Eqn
  <2> QED BY <2>4
<1>7. Eqn(iter)
  <2> HIDE DEF Eqn
  <2> QED BY <1>6
<1> HIDE DEF iter
<1>8. iter[{}] = selected
  BY <1>7
<1>9. ASSUME NEW t \in SUBSET (1 .. n), t # {}, iter[t \ {Max(t)}] \in C
      PROVE  iter[t] = g[<<iter[t \ {Max(t)}], Max(t)>>]
  <2>1. Max(t) \in 1 .. n
    BY <1>9, MaxIs
  <2>2. iter[t] = Fill(iter[t \ {Max(t)}], order[Max(t)])
    BY <1>1, <1>7, <1>9
  <2> HIDE DEF Fill
  <2> QED BY <2>1, <2>2, <1>5, <1>9
<1> HIDE DEF Eqn, Fill
<1>10. PICK acc : Reaches(acc, n, C, selected, g) /\ iter[1 .. n] = acc[n]
  <2>1. FoldsWithin(iter, n, C, selected, g)
    BY <1>8, <1>9 DEF FoldsWithin
  <2>2. g \in Steppers(C, n)
    BY <1>5
  <2> QED BY <1>4, <2>1, <2>2, FoldIs
<1>11. \A k \in 0 .. n : acc[k] \in C
  BY <1>10 DEF Reaches
<1>12. ASSUME NEW k \in 1 .. n PROVE acc[k] = Fill(acc[k - 1], order[k])
  <2>1. acc[k - 1] \in C /\ acc[k] = g[<<acc[k - 1], k>>]
    BY <1>10 DEF Reaches
  <2> QED BY <1>5, <2>1
<1>13. Pass(c, budgets, selected) = acc[n]
  BY <1>1, <1>2, <1>10
<1>14. ASSUME Kept(c, selected) PROVE Kept(c, acc[n])
  <2> DEFINE T == {k \in 0 .. n : Kept(c, acc[k])}
  <2>1. 0 \in T
    BY <1>10, <1>14 DEF Reaches
  <2>2. ASSUME NEW j \in 0 .. (n - 1), j \in T PROVE j + 1 \in T
    <3> DEFINE k == j + 1
    <3>1. k \in 1 .. n /\ k \in 0 .. n /\ k - 1 = j
      OBVIOUS
    <3> HIDE DEF k
    <3>2. Kept(c, acc[k - 1]) /\ acc[k - 1] \in C /\ order[k] \in Slots
      BY <2>2, <3>1, <1>1, <1>11
    <3>3. Kept(c, acc[k])
      BY <1>3, <1>12, <3>1, <3>2
    <3> QED BY <3>1, <3>3 DEF k
  <2>3. \A k \in 0 .. n : k \in T
    <3> HIDE DEF T
    <3> QED BY <2>1, <2>2, UpTo
  <2> QED BY <2>3
<1>15. acc[n] \in C
  BY <1>11
<1> QED BY <1>13, <1>14, <1>15 DEF C

\* The selected in a row, none after a more relevant one.
Rises(row, c, S) ==
  /\ row \in [1 .. Cardinality(S) -> S]
  /\ \A i \in S : \E k \in DOMAIN row : row[k] = i
  /\ \A k, l \in DOMAIN row : k < l => row[k] # row[l] /\ c[row[k]].score <= c[row[l]].score

\* What is left of such a row without its first k.
LEMMA RestKeeps ==
  ASSUME NEW c \in Lists, NEW S, S \subseteq DOMAIN c, Best(c, S),
         NEW row, Rises(row, c, S), NEW k \in 0 .. Len(row)
  PROVE  Kept(c, SubSeq(row, k + 1, Len(row)))
<1> DEFINE D == DOMAIN c
           n == Cardinality(S)
           rest == SubSeq(row, k + 1, Len(row))
           R == ToSet(rest)
<1>1. n \in Nat
  BY ListsAre, FS_Subset, FS_CardinalityType
<1>2. /\ row \in [1 .. n -> S]
      /\ \A i \in S : \E a \in 1 .. n : row[a] = i
      /\ \A a, b \in 1 .. n : a < b => row[a] # row[b] /\ c[row[a]].score <= c[row[b]].score
  <2>1. row \in [1 .. n -> S]
    BY DEF Rises
  <2>2. DOMAIN row = 1 .. n
    BY <2>1
  <2> QED BY <2>1, <2>2 DEF Rises
<1>3. row \in Seq(D) /\ Len(row) = n /\ k \in 0 .. n
  BY <1>1, <1>2
<1> HIDE DEF n
<1>4. /\ rest \in Seq(D) /\ Len(rest) = n - k /\ DOMAIN rest = 1 .. (n - k)
      /\ \A j \in 1 .. (n - k) : rest[j] = row[k + j]
  <2>1. rest = [j \in 1 .. (n - k) |-> row[k + j]]
    <3>1. n - (k + 1) + 1 = n - k /\ \A j \in Int : (k + 1) + j - 1 = k + j
      BY <1>1, <1>3
    <3> QED BY <1>3, <3>1
  <2>2. n - k \in Nat /\ \A j \in 1 .. (n - k) : row[k + j] \in D
    <3>1. \A j \in 1 .. (n - k) : k + j \in 1 .. n
      BY <1>1, <1>3
    <3> QED BY <1>1, <1>2, <1>3, <3>1
  <2> HIDE DEF rest
  <2>3. rest \in [1 .. (n - k) -> D]
    BY <2>1, <2>2
  <2> QED BY <2>1, <2>2, <2>3
<1> HIDE DEF rest
<1>5. R = {row[a] : a \in (k + 1) .. n}
  <2>1. R = {rest[j] : j \in 1 .. (n - k)}
    BY <1>4 DEF ToSet
  <2>2. ASSUME NEW j \in 1 .. (n - k) PROVE \E a \in (k + 1) .. n : row[a] = rest[j]
    <3>1. k + j \in (k + 1) .. n
      BY <1>1, <1>3
    <3> QED BY <3>1, <1>4
  <2>3. ASSUME NEW a \in (k + 1) .. n PROVE \E j \in 1 .. (n - k) : row[a] = rest[j]
    <3>1. a - k \in 1 .. (n - k) /\ k + (a - k) = a
      BY <1>1, <1>3
    <3> QED BY <3>1, <1>4
  <2> HIDE DEF R
  <2> QED BY <2>1, <2>2, <2>3
<1>6. R \subseteq S
  BY <1>1, <1>2, <1>3, <1>5
<1>7. Cardinality(R) = Len(rest)
  <2>1. rest \in Surjection(1 .. (n - k), R)
    BY <1>4 DEF Surjection, ToSet
  <2>2. ASSUME NEW a \in 1 .. (n - k), NEW b \in 1 .. (n - k), rest[a] = rest[b] PROVE a = b
    <3>1. k + a \in 1 .. n /\ k + b \in 1 .. n /\ row[k + a] = row[k + b]
      BY <1>1, <1>3, <1>4, <2>2
    <3>2. ~ (k + a < k + b) /\ ~ (k + b < k + a)
      BY <1>2, <3>1
    <3> QED BY <3>2, <1>3
  <2>3. rest \in Injection(1 .. (n - k), R)
    BY <2>1, <2>2 DEF Surjection, Injection, IsInjective
  <2>4. IsFiniteSet(1 .. (n - k)) /\ Cardinality(1 .. (n - k)) = n - k
    BY <1>1, <1>3, FS_Interval
  <2> QED BY <1>4, <2>1, <2>3, <2>4, FS_Surjection
<1>8. ASSUME NEW i \in D \ R, NEW j \in R,
             c[i].slot = c[j].slot, c[i].tokens <= c[j].tokens
      PROVE  c[i].score <= c[j].score
  <2>1. CASE i \notin S
    BY <1>6, <1>8, <2>1 DEF Best
  <2>2. CASE i \in S
    <3>1. PICK a \in 1 .. n : row[a] = i
      BY <1>2, <2>2
    <3>2. PICK b \in (k + 1) .. n : row[b] = j
      BY <1>5
    <3>3. a \notin (k + 1) .. n
      BY <1>5, <1>8, <3>1
    <3>4. b \in 1 .. n /\ a < b
      BY <1>1, <1>3, <3>3
    <3> QED BY <1>2, <3>1, <3>2, <3>4
  <2> QED BY <2>1, <2>2
<1>9. Best(c, R)
  <2> HIDE DEF R
  <2> QED BY <1>8 DEF Best
<1>10. Kept(c, rest)
  BY <1>4, <1>7, <1>9 DEF Kept
<1> QED BY <1>10 DEF rest

\* The cap keeps what is best, and the total within the budget.
LEMMA CapKeeps ==
  ASSUME NEW c \in Lists, NEW selected, Kept(c, selected)
  PROVE  Kept(c, Cap(c, selected)) /\ Tokens(c, ToSet(Cap(c, selected))) <= MaxTokens
<1> DEFINE S == ToSet(selected)
           n == Cardinality(S)
           place(i) == CHOOSE k \in DOMAIN selected : selected[k] = i
           Below(i, j) == \/ c[i].score < c[j].score
                          \/ c[i].score = c[j].score /\ place(i) < place(j)
           R == {p \in S \X S : Below(p[1], p[2])}
           Sorted(u) == /\ ToSet(u) = S
                        /\ \A k, l \in DOMAIN u : k < l => Below(u[k], u[l])
           rising == InOrder(S, LAMBDA i, j : \/ c[i].score < c[j].score
                                              \/ /\ c[i].score = c[j].score
                                                 /\ place(i) < place(j))
           Rest(k) == SubSeq(rising, k + 1, Len(rising))
           K == {k \in 0 .. Len(rising) : Tokens(c, ToSet(Rest(k))) <= MaxTokens}
<1>1. /\ selected \in Seq(DOMAIN c) /\ S \subseteq DOMAIN c /\ IsFiniteSet(S)
      /\ n \in Nat /\ Best(c, S)
  BY Listed, FS_CardinalityType DEF Kept
<1>2. CASE Tokens(c, S) <= MaxTokens
  <2>1. Cap(c, selected) = selected
    BY <1>2 DEF Cap
  <2> QED BY <1>2, <2>1
<1>3. CASE ~ (Tokens(c, S) <= MaxTokens)
  <2>1. Cap(c, selected) = Rest(Min(K))
    BY <1>3 DEF Cap
  <2>2. rising = CHOOSE u \in [1 .. n -> S] : Sorted(u)
    BY DEF InOrder
  <2>3. \A i \in S : place(i) \in Nat /\ selected[place(i)] = i /\ c[i].score \in Nat
    <3>1. ASSUME NEW i \in S PROVE place(i) \in DOMAIN selected /\ selected[place(i)] = i
      BY DEF ToSet
    <3>2. DOMAIN selected \subseteq Nat
      BY <1>1
    <3> HIDE DEF place, S
    <3>3. \A i \in S : c[i].score \in Nat
      BY <1>1, ListsAre
    <3> QED BY <3>1, <3>2, <3>3
  <2> HIDE DEF place, S, rising, n
  <2>4. Orders(R, S)
    <3>1. \A i, j \in S : <<i, j>> \in R <=> Below(i, j)
      OBVIOUS
    <3>2. \A i, j \in S : i # j => place(i) # place(j)
      BY <2>3
    <3> HIDE DEF R
    <3> QED BY <2>3, <3>1, <3>2 DEF Orders
  <2>5. \A i, j : <<i, j>> \in R => Below(i, j)
    OBVIOUS
  <2> HIDE DEF R
  <2>6. PICK u : SortedBy(u, R, S)
    BY <1>1, <2>4, SortExists
  <2>7. u \in [1 .. n -> S] /\ Sorted(u)
    <3> HIDE DEF Below
    <3> QED BY <2>5, <2>6 DEF SortedBy, n
  <2>8. rising \in [1 .. n -> S] /\ Sorted(rising)
    <3> HIDE DEF Sorted
    <3> QED BY <2>2, <2>7
  <2>9. Rises(rising, c, S)
    <3>1. \A i \in S : \E k \in DOMAIN rising : rising[k] = i
      BY <2>8 DEF ToSet
    <3>2. ASSUME NEW k \in DOMAIN rising, NEW l \in DOMAIN rising, k < l
          PROVE  rising[k] # rising[l] /\ c[rising[k]].score <= c[rising[l]].score
      <4>1. Below(rising[k], rising[l]) /\ rising[k] \in S /\ rising[l] \in S
        BY <2>8, <3>2
      <4> QED BY <4>1, <2>3
    <3> QED BY <2>8, <3>1, <3>2 DEF Rises, n
  <2>10. Len(rising) = n /\ rising \in Seq(S)
    BY <1>1, <2>8
  <2>11. K \subseteq Nat /\ n \in K
    <3>1. ToSet(Rest(n)) = {}
      BY <1>1, <2>10 DEF ToSet
    <3>2. Tokens(c, {}) <= MaxTokens
      BY TokensAre, BuilderAssumption
    <3>3. n \in 0 .. Len(rising)
      BY <1>1, <2>10
    <3>4. Tokens(c, ToSet(Rest(n))) <= MaxTokens
      <4> HIDE DEF Rest
      <4> QED BY <3>1, <3>2
    <3> HIDE DEF Rest
    <3> QED BY <3>3, <3>4
  <2>12. Min(K) \in K
    <3> HIDE DEF K
    <3> QED BY <2>11, MinIs
  <2> DEFINE k == Min(K)
  <2>13. k \in 0 .. Len(rising) /\ Tokens(c, ToSet(Rest(k))) <= MaxTokens
    BY <2>12
  <2> HIDE DEF k, K
  <2>14. Kept(c, Rest(k))
    BY <1>1, <2>9, <2>13, RestKeeps
  <2> HIDE DEF Rest
  <2> QED BY <2>1, <2>13, <2>14 DEF k
<1> QED BY <1>2, <1>3

\* What Build makes of the candidates.
LEMMA BuildKeepsBest ==
  ASSUME NEW c \in Lists
  PROVE  /\ Kept(c, Build(c).items)
         /\ Tokens(c, ToSet(Build(c).items)) <= MaxTokens
         /\ Build(c).total = Tokens(c, ToSet(Build(c).items)) /\ Build(c).total \in Nat
         /\ Build(c) = [items |-> Build(c).items, total |-> Build(c).total]
<1> DEFINE first == Pass(c, SlotBudget, << >>)
           second == Pass(c, Redistributed(c, first), first)
           selected == Cap(c, second)
<1>1. << >> \in Seq(DOMAIN c) /\ Kept(c, << >>)
  <2>1. ToSet(<< >>) = {} /\ Len(<< >>) = 0
    BY DEF ToSet
  <2> QED BY <2>1, FS_EmptySet DEF Kept, Best
<1>2. SlotBudget \in [Slots -> Int]
  BY SlotBudgetIs
<1>3. first \in Seq(DOMAIN c) /\ Kept(c, first)
  BY <1>1, <1>2, PassKeeps
<1> HIDE DEF first
<1>4. second \in Seq(DOMAIN c) /\ Kept(c, second)
  BY <1>3, RedistributedIs, PassKeeps
<1> HIDE DEF second
<1>5. Kept(c, selected) /\ Tokens(c, ToSet(selected)) <= MaxTokens
  BY <1>4, CapKeeps
<1>6. Build(c) = [items |-> selected, total |-> Tokens(c, ToSet(selected))]
  BY DEF Build, first, second
<1> HIDE DEF selected
<1>7. Tokens(c, ToSet(selected)) \in Nat
  BY <1>5, Listed, TokensAre DEF Kept
<1> QED BY <1>5, <1>6, <1>7

(***************************************************************************)
(* The orchestrator: its invariant                                         *)
(***************************************************************************)

Lives    == {"unissued", "fresh", "ending", "ended", "revoked"}
Places   == {"idle", "ask", "fetch", "call", "answered", "unavailable", "search",
             "assembled", "done"}
InCall   == {"ask", "fetch", "call"}
InSearch == {"search", "assembled"}
Held     == [no : TokenNos, early : BOOLEAN]
Contexts == [items : Seq(Nat), total : Nat]
Outcomes == {None, "complete", "degraded", "error"}
IdSets == {D \in SUBSET StepKeys : IsFiniteSet(D)}
Answers  == UNION {[D -> [step : Nat, size : Nat]] : D \in IdSets}

\* The shape of the state.
Shape ==
  /\ token \in TokenNos /\ life \in [TokenNos -> Lives]
  /\ client \in TokenNos \cup {None} /\ lock \in Threads \cup {None}
  /\ faults \in 0 .. MaxFaults
  /\ pc \in [Threads -> Places] /\ held \in [Threads -> Held]
  /\ asks \in [Runs -> {"plan", "synthesis"}] /\ tries \in [Runs -> 0 .. MaxAttempts]
  /\ plan \in [Runs -> Seq(StepKeys)] /\ at \in [Runs -> Nat]
  /\ answers \in [Runs -> Answers] /\ prompt \in [Runs -> Prompts]
  /\ found \in [Runs -> Lists] /\ built \in [Runs -> Contexts]
  /\ outcome \in [Runs -> Outcomes]

\* A call has a token that was handed out early, and whoever fetches one has
\* the lock and found the old one about to end.
Guarded ==
  /\ \A p \in Threads : pc[p] = "call" => held[p].early /\ life[held[p].no] # "ended"
  /\ \A p \in Threads : pc[p] = "fetch" => lock = p /\ IsExpired(token)

\* How far a run is.
Counts(r) ==
  /\ pc[r] # "unavailable" => tries[r] < MaxAttempts
  /\ Len(plan[r]) <= MaxSteps /\ at[r] <= Len(plan[r])
  /\ pc[r] = "assembled" => at[r] < Len(plan[r])
  /\ pc[r] = "idle" => asks[r] = "plan"
  /\ asks[r] = "plan" => pc[r] \notin InSearch /\ at[r] = 0 /\ answers[r] = NoAnswers

\* What it has found.
Context(r) ==
  IF pc[r] = "assembled" THEN found[r] \in Candidates /\ built[r] = Build(found[r])
  ELSE found[r] = << >> /\ built[r] = NoContext

\* Every step done is answered, by itself or by a later one of the same id.
Heard(r) ==
  /\ \A k \in DOMAIN answers[r] : answers[r][k].step \in 1 .. at[r]
  /\ \A i \in 1 .. at[r] :
        /\ plan[r][i] \in DOMAIN answers[r]
        /\ answers[r][plan[r][i]].step >= i
        /\ plan[r][answers[r][plan[r][i]].step] = plan[r][i]

\* What it shows the model.
Shown(r) ==
  asks[r] = "synthesis" /\ pc[r] \in InCall =>
      /\ at[r] = Len(plan[r]) /\ ShowsPrefix(prompt[r], answers[r])
      /\ Fits(prompt[r], answers[r])

Local(r) == Counts(r) /\ Context(r) /\ Heard(r) /\ Shown(r)

IInv == Shape /\ Guarded /\ \A r \in Runs : Local(r)

\* The answers of the runs are answers.
LEMMA AnswersAre ==
  ASSUME NEW ans \in Answers
  PROVE  IsAnswers(ans) /\ \A k \in DOMAIN ans : ans[k].step \in Nat /\ ans[k].size \in Nat
<1>1. PICK D \in IdSets : ans \in [D -> [step : Nat, size : Nat]]
  BY DEF Answers
<1> QED BY <1>1 DEF IsAnswers, IdSets

\* Another answer makes answers of answers.
LEMMA AnswersGrow ==
  ASSUME NEW ans \in Answers, NEW id \in StepKeys, NEW step \in Nat, NEW size \in Nat
  PROVE  [k \in DOMAIN ans \cup {id} |->
            IF k = id THEN [step |-> step, size |-> size] ELSE ans[k]] \in Answers
<1> DEFINE One == [step : Nat, size : Nat]
           E == DOMAIN ans \cup {id}
<1>1. PICK D \in IdSets : ans \in [D -> One]
  BY DEF Answers
<1>2. E \in IdSets
  BY <1>1, FS_AddElement DEF IdSets
<1>3. [step |-> step, size |-> size] \in One
  OBVIOUS
<1>4. \A k \in E : k # id => ans[k] \in One
  BY <1>1
<1> HIDE DEF One, E
<1>5. [k \in E |-> IF k = id THEN [step |-> step, size |-> size] ELSE ans[k]] \in [E -> One]
  BY <1>3, <1>4
<1> QED BY <1>2, <1>5 DEF Answers, One, E

\* What a run starts from has the right shape.
LEMMA NothingYet ==
  /\ NoAnswers \in Answers /\ DOMAIN NoAnswers = {} /\ NoPrompt \in Prompts
  /\ << >> \in Lists /\ NoContext \in Contexts /\ NoToken \in Held
  /\ << >> \in Seq(StepKeys) /\ Len(<< >>) = 0
<1>1. NoAnswers \in Answers /\ DOMAIN NoAnswers = {}
  <2>1. NoAnswers \in [{} -> [step : Nat, size : Nat]] /\ {} \in IdSets
    BY FS_EmptySet DEF NoAnswers, IdSets
  <2> QED BY <2>1 DEF Answers
<1>2. NoPrompt \in Prompts
  BY DEF NoPrompt, Prompts
<1>3. << >> \in Lists /\ NoContext \in Contexts /\ << >> \in Seq(StepKeys) /\ Len(<< >>) = 0
  BY DEF Lists, NoContext, Contexts
<1>4. NoToken \in Held
  BY OrchestratorAssumption DEF NoToken, Held, TokenNos
<1> QED BY <1>1, <1>2, <1>3, <1>4

\* What is built of candidates has the shape of a context.
LEMMA BuildIs ==
  ASSUME NEW c \in Candidates
  PROVE  c \in Lists /\ Build(c) \in Contexts
<1>1. c \in Lists
  BY OrchestratorAssumption DEF Lists
<1>2. DOMAIN c \subseteq Nat /\ Build(c).items \in Seq(DOMAIN c) /\ Build(c).total \in Nat
  BY <1>1, ListsAre, BuildKeepsBest DEF Kept
<1>3. Build(c).items \in Seq(Nat)
  BY <1>2
<1>4. Build(c) = [items |-> Build(c).items, total |-> Build(c).total]
  BY <1>1, BuildKeepsBest
<1> HIDE DEF Contexts
<1>5. [items |-> Build(c).items, total |-> Build(c).total] \in Contexts
  BY <1>2, <1>3 DEF Contexts
<1> QED BY <1>1, <1>4, <1>5

\* The invariant holds at first.
LEMMA InitInv == Init => IInv
<1> SUFFICES ASSUME Init PROVE IInv
  OBVIOUS
<1>1. Shape
  BY NothingYet, OrchestratorAssumption
     DEF Init, Shape, TokenNos, Lives, Places, Outcomes
<1>2. Guarded
  BY DEF Init, Guarded
<1>3. ASSUME NEW r \in Runs PROVE Local(r)
  <2>1. /\ pc[r] = "idle" /\ asks[r] = "plan" /\ tries[r] = 0 /\ plan[r] = << >>
        /\ at[r] = 0 /\ answers[r] = NoAnswers /\ prompt[r] = NoPrompt
        /\ found[r] = << >> /\ built[r] = NoContext
    BY DEF Init, Threads
  <2>2. Counts(r)
    BY <2>1, OrchestratorAssumption, NothingYet DEF Counts, InSearch
  <2>3. Context(r)
    BY <2>1 DEF Context
  <2>4. Heard(r)
    BY <2>1, NothingYet DEF Heard
  <2>5. Shown(r)
    BY <2>1, NothingYet DEF Shown
  <2> QED BY <2>2, <2>3, <2>4, <2>5 DEF Local
<1> QED BY <1>1, <1>2, <1>3 DEF IInv

(***************************************************************************)
(* The orchestrator: the steps of its calls                                *)
(***************************************************************************)

\* A thread that goes on leaves the others where they are.
LEMMA Moves ==
  ASSUME Shape, NEW p \in Threads, NEW here, NEW there \in Places, Goto(p, here, there)
  PROVE  /\ pc' \in [Threads -> Places] /\ pc[p] = here /\ pc'[p] = there
         /\ \A q \in Threads \ {p} : pc'[q] = pc[q]
BY DEF Shape, Goto

\* Whoever is given a token holds it, and nobody else.
LEMMA HandedOver ==
  ASSUME Shape, NEW p \in Threads, NEW t \in TokenNos, Hand(p, t)
  PROVE  /\ client' \in TokenNos \cup {None} /\ held' \in [Threads -> Held]
         /\ held'[p].no = t /\ held'[p].early = (life'[t] # "ending")
         /\ \A q \in Threads \ {p} : held'[q] = held[q]
<1>1. [no |-> t, early |-> life'[t] # "ending"] \in Held
  BY DEF Held
<1> QED BY <1>1 DEF Shape, Hand

\* Whoever drops a token leaves the others theirs.
LEMMA HeldDropped ==
  ASSUME Shape, NEW p \in Threads, held' = [held EXCEPT ![p] = NoToken]
  PROVE  held' \in [Threads -> Held] /\ \A q \in Threads \ {p} : held'[q] = held[q]
BY NothingYet DEF Shape

\* The steps that leave what runs know as it is.
CallStep ==
  /\ UNCHANGED <<asks, results>>
  /\ \A r \in Runs :
        \/ pc'[r] = pc[r] /\ tries'[r] = tries[r]
        \/ /\ pc[r] \notin InSearch /\ pc'[r] \notin InSearch \cup {"idle"}
           /\ pc'[r] \in InCall => pc[r] \in InCall \cup {"idle"}
           /\ pc'[r] # "unavailable" => tries'[r] < MaxAttempts

\* Taking the client, or the lock to fetch a token for it, is such a step.
LEMMA GetClientIs ==
  ASSUME IInv, NEW p \in Threads, GetClient(p)
  PROVE  CallStep /\ Shape' /\ Guarded'
<1>0. Shape /\ Guarded /\ \A r \in Runs : Counts(r)
  BY DEF IInv, Local
<1>1. /\ lock = None /\ UNCHANGED <<token, life, faults, asks, tries, results>>
      /\ token \in TokenNos
  BY <1>0 DEF GetClient, tokens, Shape
<1>2. CASE IsExpired(token)
  <2>1. Goto(p, "ask", "fetch") /\ lock' = p /\ UNCHANGED <<client, held>>
    BY <1>2 DEF GetClient
  <2>2. /\ pc' \in [Threads -> Places] /\ pc[p] = "ask" /\ pc'[p] = "fetch"
        /\ \A q \in Threads \ {p} : pc'[q] = pc[q]
    BY <1>0, <2>1, Moves DEF Places
  <2>3. Shape'
    BY <1>0, <1>1, <2>1, <2>2 DEF Shape, results, TokenNos, Lives, Threads
  <2>4. Guarded'
    <3>1. \A q \in Threads : pc[q] # "fetch"
      BY <1>0, <1>1, OrchestratorAssumption DEF Guarded, Threads
    <3> QED BY <1>0, <1>1, <1>2, <2>1, <2>2, <3>1 DEF Guarded, IsExpired
  <2>5. CallStep
    BY <1>0, <1>1, <2>2 DEF CallStep, InCall, InSearch, Counts, Threads
  <2> QED BY <2>3, <2>4, <2>5
<1>3. CASE ~ IsExpired(token)
  <2>1. Goto(p, "ask", "call") /\ Hand(p, token) /\ lock' = lock
    BY <1>3 DEF GetClient
  <2>2. /\ pc' \in [Threads -> Places] /\ pc[p] = "ask" /\ pc'[p] = "call"
        /\ \A q \in Threads \ {p} : pc'[q] = pc[q]
    BY <1>0, <2>1, Moves DEF Places
  <2>3. /\ client' \in TokenNos \cup {None} /\ held' \in [Threads -> Held]
        /\ held'[p].no = token /\ held'[p].early = (life'[token] # "ending")
        /\ \A q \in Threads \ {p} : held'[q] = held[q]
    BY <1>0, <1>1, <2>1, HandedOver
  <2>4. Shape'
    BY <1>0, <1>1, <2>1, <2>2, <2>3 DEF Shape, results
  <2>5. Guarded'
    BY <1>0, <1>1, <1>3, <2>1, <2>2, <2>3 DEF Guarded, IsExpired, Shape
  <2>6. CallStep
    BY <1>0, <1>1, <2>2 DEF CallStep, InCall, InSearch, Counts, Threads
  <2> QED BY <2>4, <2>5, <2>6
<1> QED BY <1>2, <1>3

\* So is a fetch.
LEMMA FetchIs ==
  ASSUME IInv, NEW p \in Threads, Fetch(p)
  PROVE  CallStep /\ Shape' /\ Guarded'
<1>0. Shape /\ Guarded /\ \A r \in Runs : Counts(r)
  BY DEF IInv, Local
<1>1. /\ Goto(p, "fetch", "call") /\ token < MaxTokenNo /\ token' = token + 1
      /\ life' = [life EXCEPT ![token + 1] = "fresh"] /\ Hand(p, token + 1) /\ lock' = None
      /\ UNCHANGED <<faults, asks, tries, results>>
  BY DEF Fetch
<1>2. token + 1 \in TokenNos /\ life' \in [TokenNos -> Lives] /\ life'[token + 1] = "fresh"
  BY <1>0, <1>1, OrchestratorAssumption DEF Shape, TokenNos, Lives
<1>3. /\ pc' \in [Threads -> Places] /\ pc[p] = "fetch" /\ pc'[p] = "call"
      /\ \A q \in Threads \ {p} : pc'[q] = pc[q]
  BY <1>0, <1>1, Moves DEF Places
<1>4. /\ client' \in TokenNos \cup {None} /\ held' \in [Threads -> Held]
      /\ held'[p].no = token + 1 /\ held'[p].early = (life'[token + 1] # "ending")
      /\ \A q \in Threads \ {p} : held'[q] = held[q]
  BY <1>0, <1>1, <1>2, HandedOver
<1>5. Shape'
  BY <1>0, <1>1, <1>2, <1>3, <1>4 DEF Shape, results
<1>6. Guarded'
  <2>1. \A q \in Threads : pc'[q] # "fetch"
    BY <1>0, <1>3 DEF Guarded
  <2>2. ASSUME NEW q \in Threads, pc'[q] = "call"
        PROVE  held'[q].early /\ life'[held'[q].no] # "ended"
    <3>1. CASE q = p
      BY <3>1, <1>2, <1>4
    <3>2. CASE q # p
      <4>1. pc[q] = "call" /\ held'[q] = held[q] /\ held[q].no \in TokenNos
        BY <1>0, <1>3, <1>4, <2>2, <3>2 DEF Shape, Held
      <4>2. life'[held[q].no] \in {life[held[q].no], "fresh"}
        BY <1>0, <1>1, <4>1 DEF Shape
      <4> QED BY <1>0, <4>1, <4>2 DEF Guarded
    <3> QED BY <3>1, <3>2
  <2> QED BY <2>1, <2>2 DEF Guarded
<1>7. CallStep
  BY <1>0, <1>1, <1>3 DEF CallStep, InCall, InSearch, Counts, Threads
<1> QED BY <1>5, <1>6, <1>7

\* The steps of a thread that neither take a token nor change one.
LEMMA PassingIs ==
  ASSUME IInv, NEW p \in Threads, NEW here \in {"idle", "fetch", "call", "unavailable"},
         NEW there \in {"idle", "ask", "answered", "unavailable"}, Goto(p, here, there),
         UNCHANGED <<token, life, asks, results>>, client' \in {client, None},
         faults' \in 0 .. MaxFaults, held' \in [Threads -> Held],
         \A q \in Threads \ {p} : held'[q] = held[q],
         lock' = lock \/ (here = "fetch" /\ lock' = None),
         tries' \in [Runs -> 0 .. MaxAttempts],
         \A r \in Runs \ {p} : tries'[r] = tries[r],
         p \in Runs => /\ there \in InCall => here \in InCall \cup {"idle"}
                       /\ there # "idle"
                       /\ there # "unavailable" => tries'[p] < MaxAttempts
  PROVE  CallStep /\ Shape' /\ Guarded'
<1>0. Shape /\ Guarded
  BY DEF IInv
<1>1. /\ pc' \in [Threads -> Places] /\ pc[p] = here /\ pc'[p] = there
      /\ \A q \in Threads \ {p} : pc'[q] = pc[q]
  BY <1>0, Moves DEF Places
<1>2. Shape'
  BY <1>0, <1>1 DEF Shape, results
<1>3. Guarded'
  <2>1. pc'[p] # "call" /\ pc'[p] # "fetch"
    BY <1>1
  <2>2. ASSUME NEW q \in Threads, pc'[q] = "fetch" PROVE lock' = q /\ IsExpired(token)'
    <3>1. q # p /\ pc[q] = "fetch" /\ lock = q /\ IsExpired(token)
      BY <1>0, <1>1, <2>1, <2>2 DEF Guarded
    <3>2. here # "fetch"
      BY <1>0, <1>1, <3>1 DEF Guarded
    <3> QED BY <3>1, <3>2 DEF IsExpired
  <2>3. ASSUME NEW q \in Threads, pc'[q] = "call"
        PROVE  held'[q].early /\ life'[held'[q].no] # "ended"
    <3>1. q # p /\ pc[q] = "call" /\ held'[q] = held[q]
      BY <1>1, <2>1, <2>3
    <3> QED BY <1>0, <3>1 DEF Guarded
  <2> QED BY <2>2, <2>3 DEF Guarded
<1>4. CallStep
  BY <1>1 DEF CallStep, InCall, InSearch, Threads
<1> QED BY <1>2, <1>3, <1>4

\* So is the passing of time for a token.
LEMMA AgesIs ==
  ASSUME IInv, NEW t \in TokenNos, NEW from, NEW to \in {"ending", "revoked", "ended"},
         Ages(t, from, to),
         to = "ended" => \A p \in Threads : ~ (pc[p] = "call" /\ held[p].no = t /\ held[p].early),
         from \in {"fresh", "ending", "revoked"}, from = "fresh" \/ to = "ended"
  PROVE  CallStep /\ Shape' /\ Guarded'
<1>0. Shape /\ Guarded
  BY DEF IInv
<1>1. /\ life[t] = from /\ life' = [life EXCEPT ![t] = to]
      /\ UNCHANGED <<token, client, lock, faults, pc, asks, tries, held, results>>
  BY DEF Ages, call
<1>2. /\ life' \in [TokenNos -> Lives] /\ life'[t] = to
      /\ \A u \in TokenNos \ {t} : life'[u] = life[u]
  BY <1>0, <1>1 DEF Shape, Lives
<1>3. Shape'
  BY <1>0, <1>1, <1>2 DEF Shape, results
<1>4. Guarded'
  <2>1. ASSUME NEW p \in Threads, pc[p] = "call" PROVE held[p].early /\ life'[held[p].no] # "ended"
    <3>1. held[p].early /\ life[held[p].no] # "ended" /\ held[p].no \in TokenNos
      BY <1>0, <2>1 DEF Guarded, Shape, Held
    <3> QED BY <1>2, <2>1, <3>1
  <2>2. ASSUME IsExpired(token) PROVE IsExpired(token)'
    <3>1. token \in TokenNos
      BY <1>0 DEF Shape
    <3> QED BY <1>1, <1>2, <2>2, <3>1 DEF IsExpired
  <2> QED BY <1>0, <1>1, <2>1, <2>2 DEF Guarded
<1>5. CallStep
  BY <1>1 DEF CallStep
<1> QED BY <1>3, <1>4, <1>5

\* A failed try is counted, and the last one ends the call.
LEMMA TryAgainIs ==
  ASSUME IInv, NEW r \in Runs, TryAgain(r)
  PROVE  \E there \in {"ask", "unavailable"} :
           /\ Goto(r, "call", there)
           /\ tries' \in [Runs -> 0 .. MaxAttempts]
           /\ \A q \in Runs \ {r} : tries'[q] = tries[q]
           /\ there # "unavailable" => tries'[r] < MaxAttempts
<1>1. pc[r] = "call"
  BY DEF TryAgain, Goto
<1>2. tries[r] < MaxAttempts /\ tries \in [Runs -> 0 .. MaxAttempts] /\ MaxAttempts \in Nat
  BY <1>1, OrchestratorAssumption DEF IInv, Shape, Local, Counts
<1>3. tries' = [tries EXCEPT ![r] = @ + 1] /\ tries[r] + 1 \in 0 .. MaxAttempts
  BY <1>2 DEF TryAgain
<1>4. /\ tries' \in [Runs -> 0 .. MaxAttempts] /\ tries'[r] = tries[r] + 1
      /\ \A q \in Runs \ {r} : tries'[q] = tries[q]
  BY <1>2, <1>3
<1>5. CASE tries[r] + 1 < MaxAttempts
  <2>1. Goto(r, "call", "ask")
    BY <1>5 DEF TryAgain
  <2> QED BY <1>4, <1>5, <2>1
<1>6. CASE ~ (tries[r] + 1 < MaxAttempts)
  <2>1. Goto(r, "call", "unavailable")
    BY <1>6 DEF TryAgain
  <2> QED BY <1>4, <2>1
<1> QED BY <1>5, <1>6

Calling ==
  \/ \E p \in Threads : ClientFor(p)
  \/ \E e \in Enhancers : Enhance(e) \/ Enhanced(e)
  \/ \E r \in Runs : Start(r) \/ Answered(r) \/ Rejected(r) \/ Unreachable(r) \/ Refused(r)
  \/ \E t \in TokenNos : Ending(t) \/ Revoked(t) \/ Ended(t)

\* So are all steps of the calls.
LEMMA CallingIs ==
  ASSUME IInv, Calling
  PROVE  CallStep /\ Shape' /\ Guarded'
<1>0. Shape /\ Guarded /\ \A r \in Runs : Counts(r)
  BY DEF IInv, Local
<1>a. /\ held \in [Threads -> Held] /\ tries \in [Runs -> 0 .. MaxAttempts]
      /\ faults \in 0 .. MaxFaults /\ MaxFaults \in Nat
      /\ (Fault => faults' \in 0 .. MaxFaults)
  BY <1>0, OrchestratorAssumption DEF Shape, Fault
<1>b. Runs \subseteq Threads /\ Enhancers \subseteq Threads /\ \A e \in Enhancers : e \notin Runs
  BY OrchestratorAssumption DEF Threads
<1>1. ASSUME NEW p \in Threads, GetClient(p) PROVE CallStep /\ Shape' /\ Guarded'
  BY <1>1, GetClientIs
<1>2. ASSUME NEW p \in Threads, Fetch(p) PROVE CallStep /\ Shape' /\ Guarded'
  BY <1>2, FetchIs
<1>3. ASSUME NEW p \in Threads, FetchFails(p) PROVE CallStep /\ Shape' /\ Guarded'
  <2>1. /\ Goto(p, "fetch", "unavailable") /\ Fault /\ lock' = None
        /\ UNCHANGED <<token, life, client, asks, tries, held, results>>
    BY <1>3 DEF FetchFails, tokens, call
  <2>2. p \in Runs => "unavailable" \notin InCall
    BY DEF InCall
  <2> QED BY <1>a, <2>1, <2>2, PassingIs
<1>4. ASSUME NEW e \in Enhancers, Enhance(e) PROVE CallStep /\ Shape' /\ Guarded'
  <2>1. /\ Goto(e, "idle", "ask")
        /\ UNCHANGED <<token, life, client, lock, faults, asks, tries, held, results>>
    BY <1>4 DEF Enhance, shared, call
  <2> QED BY <1>a, <1>b, <2>1, PassingIs
<1>5. ASSUME NEW e \in Enhancers, Enhanced(e) PROVE CallStep /\ Shape' /\ Guarded'
  <2>1. PICK here \in {"call", "unavailable"} : Goto(e, here, "idle")
    BY <1>5 DEF Enhanced
  <2>2. /\ held' = [held EXCEPT ![e] = NoToken]
        /\ UNCHANGED <<token, life, client, lock, faults, asks, tries, results>>
    BY <1>5 DEF Enhanced, shared
  <2>3. held' \in [Threads -> Held] /\ \A q \in Threads \ {e} : held'[q] = held[q]
    BY <1>0, <1>b, <2>2, HeldDropped
  <2> QED BY <1>a, <1>b, <2>1, <2>2, <2>3, PassingIs
<1>6. ASSUME NEW r \in Runs, Start(r) PROVE CallStep /\ Shape' /\ Guarded'
  <2>1. /\ Goto(r, "idle", "ask")
        /\ UNCHANGED <<token, life, client, lock, faults, asks, tries, held, results>>
    BY <1>6 DEF Start, shared, call
  <2>2. tries[r] < MaxAttempts
    BY <1>0, <2>1 DEF Counts, Goto
  <2> QED BY <1>a, <1>b, <2>1, <2>2, PassingIs
<1>7. ASSUME NEW r \in Runs, Answered(r) PROVE CallStep /\ Shape' /\ Guarded'
  <2>1. /\ Goto(r, "call", "answered")
        /\ UNCHANGED <<token, life, client, lock, faults, asks, tries, held, results>>
    BY <1>7 DEF Answered, shared, call
  <2>2. tries[r] < MaxAttempts /\ "answered" \notin InCall
    BY <1>0, <2>1 DEF Counts, Goto, InCall
  <2> QED BY <1>a, <1>b, <2>1, <2>2, PassingIs
<1>8. ASSUME NEW r \in Runs, Rejected(r) PROVE CallStep /\ Shape' /\ Guarded'
  <2>1. /\ TryAgain(r) /\ client' = None
        /\ UNCHANGED <<token, life, lock, faults, asks, held, results>>
    BY <1>8 DEF Rejected, tokens
  <2>2. PICK there \in {"ask", "unavailable"} :
           /\ Goto(r, "call", there)
           /\ tries' \in [Runs -> 0 .. MaxAttempts]
           /\ \A q \in Runs \ {r} : tries'[q] = tries[q]
           /\ there # "unavailable" => tries'[r] < MaxAttempts
    BY <2>1, TryAgainIs
  <2>3. "call" \in InCall
    BY DEF InCall
  <2> QED BY <1>a, <1>b, <2>1, <2>2, <2>3, PassingIs
<1>9. ASSUME NEW r \in Runs, Unreachable(r) PROVE CallStep /\ Shape' /\ Guarded'
  <2>1. /\ TryAgain(r) /\ Fault
        /\ UNCHANGED <<token, life, client, lock, asks, held, results>>
    BY <1>9 DEF Unreachable, tokens
  <2>2. PICK there \in {"ask", "unavailable"} :
           /\ Goto(r, "call", there)
           /\ tries' \in [Runs -> 0 .. MaxAttempts]
           /\ \A q \in Runs \ {r} : tries'[q] = tries[q]
           /\ there # "unavailable" => tries'[r] < MaxAttempts
    BY <2>1, TryAgainIs
  <2>3. "call" \in InCall
    BY DEF InCall
  <2> QED BY <1>a, <1>b, <2>1, <2>2, <2>3, PassingIs
<1>10. ASSUME NEW r \in Runs, Refused(r) PROVE CallStep /\ Shape' /\ Guarded'
  <2>1. /\ Goto(r, "call", "unavailable") /\ Fault
        /\ UNCHANGED <<token, life, client, lock, asks, tries, held, results>>
    BY <1>10 DEF Refused, tokens, call
  <2>2. "unavailable" \notin InCall
    BY DEF InCall
  <2> QED BY <1>a, <1>b, <2>1, <2>2, PassingIs
<1>11. ASSUME NEW t \in TokenNos, Ending(t) \/ Revoked(t) \/ Ended(t)
       PROVE  CallStep /\ Shape' /\ Guarded'
  <2>1. CASE Ending(t)
    BY <2>1, AgesIs DEF Ending
  <2>2. CASE Revoked(t)
    BY <2>2, AgesIs DEF Revoked
  <2>3. CASE Ended(t)
    <3>1. PICK from \in {"ending", "revoked"} : Ages(t, from, "ended")
      BY <2>3 DEF Ended
    <3>2. \A p \in Threads : ~ (pc[p] = "call" /\ held[p].no = t /\ held[p].early)
      BY <2>3 DEF Ended
    <3> QED BY <3>1, <3>2, AgesIs
  <2> QED BY <1>11, <2>1, <2>2, <2>3
<1> QED BY <1>1, <1>2, <1>3, <1>4, <1>5, <1>6, <1>7, <1>8, <1>9, <1>10, <1>11
     DEF Calling, ClientFor

\* A step leaves run r as it is.
Same(r) ==
  /\ pc'[r] = pc[r] /\ asks'[r] = asks[r] /\ tries'[r] = tries[r] /\ plan'[r] = plan[r]
  /\ at'[r] = at[r] /\ answers'[r] = answers[r] /\ prompt'[r] = prompt[r]
  /\ found'[r] = found[r] /\ built'[r] = built[r]

\* Then what holds of it still does.
LEMMA SameKeeps ==
  ASSUME NEW r \in Runs, Local(r), Same(r)
  PROVE  Local(r)'
<1>1. Counts(r)' /\ Context(r)' /\ Shown(r)'
  BY DEF Same, Local, Counts, Context, Shown
<1>2. Heard(r)'
  BY DEF Same, Local, Heard
<1> QED BY <1>1, <1>2 DEF Local

\* Such a step keeps what holds of every run.
LEMMA CallStepKeeps ==
  ASSUME IInv, CallStep, NEW r \in Runs
  PROVE  Local(r)'
<1>1. Local(r) /\ r \in Threads
  BY DEF IInv, Threads
<1>2. UNCHANGED <<asks, plan, at, answers, prompt, found, built>>
  BY DEF CallStep, results
<1>3. CASE pc'[r] = pc[r] /\ tries'[r] = tries[r]
  BY <1>1, <1>2, <1>3, SameKeeps DEF Same
<1>4. CASE /\ pc[r] \notin InSearch /\ pc'[r] \notin InSearch \cup {"idle"}
           /\ pc'[r] \in InCall => pc[r] \in InCall \cup {"idle"}
           /\ pc'[r] # "unavailable" => tries'[r] < MaxAttempts
  <2>1. Counts(r)'
    BY <1>1, <1>2, <1>4 DEF Local, Counts, InSearch
  <2>2. Context(r)'
    BY <1>1, <1>2, <1>4 DEF Local, Context, InSearch
  <2>3. Heard(r)'
    BY <1>1, <1>2 DEF Local, Heard
  <2>4. Shown(r)'
    <3>1. asks[r] = "synthesis" => pc[r] # "idle"
      BY <1>1 DEF Local, Counts
    <3> QED BY <1>1, <1>2, <1>4, <3>1 DEF Local, Shown
  <2> QED BY <2>1, <2>2, <2>3, <2>4 DEF Local
<1> QED BY <1>3, <1>4 DEF CallStep

(***************************************************************************)
(* The orchestrator: the steps of its runs                                 *)
(***************************************************************************)

\* Away from the client, a run's step keeps what guards it.
LEMMA AwayKeepsGuard ==
  ASSUME Shape, Guarded, NEW r \in Runs, UNCHANGED <<token, life, lock>>,
         NEW there \in {"search", "assembled", "ask", "done"}, pc' = [pc EXCEPT ![r] = there],
         \A q \in Threads \ {r} : held'[q] = held[q]
  PROVE  Guarded'
<1>1. r \in Threads
  BY DEF Threads
<1>2. pc'[r] = there /\ \A q \in Threads \ {r} : pc'[q] = pc[q]
  BY <1>1 DEF Shape
<1> QED BY <1>1, <1>2 DEF Guarded, IsExpired

\* What such a step makes of the invariant.
RunKept(r) ==
  Shape' /\ Guarded' /\ Local(r)' /\ \A q \in Runs \ {r} : Same(q)

\* A run does no more than MaxSteps steps.
LEMMA StepsIs ==
  ASSUME NEW p \in Seq(StepKeys)
  PROVE  Steps(p) \in Seq(StepKeys) /\ Len(Steps(p)) <= MaxSteps
<1> DEFINE n == IF Len(p) < MaxSteps THEN Len(p) ELSE MaxSteps
<1>1. Len(p) \in Nat /\ MaxSteps \in Nat /\ n \in 0 .. Len(p) /\ n <= MaxSteps
  BY OrchestratorAssumption
<1> HIDE DEF n
<1>2. SubSeq(p, 1, n) \in Seq(StepKeys) /\ Len(SubSeq(p, 1, n)) = n
  BY <1>1
<1> QED BY <1>1, <1>2 DEF Steps, n

\* Planned, PlannerUnavailable.
LEMMA FollowPlanIs ==
  ASSUME IInv, NEW r \in Runs, asks[r] = "plan", NEW here \in {"answered", "unavailable"},
         Goto(r, here, "search"), NEW p \in Plans \cup {<< 1 >>}, FollowPlan(r, p)
  PROVE  RunKept(r)
<1>0. Shape /\ Guarded /\ Local(r) /\ r \in Threads
  BY DEF IInv, Threads
<1>1. /\ plan' = [plan EXCEPT ![r] = Steps(p)] /\ asks' = [asks EXCEPT ![r] = "synthesis"]
      /\ tries' = [tries EXCEPT ![r] = 0] /\ held' = [held EXCEPT ![r] = NoToken]
      /\ UNCHANGED <<token, life, client, lock, faults, at, answers, found, built, prompt, outcome>>
  BY DEF FollowPlan, shared
<1>2. Steps(p) \in Seq(StepKeys) /\ Len(Steps(p)) <= MaxSteps
  <2>1. p \in Seq(StepKeys)
    <3>1. Plans \subseteq Seq(StepKeys) /\ 1 \in StepKeys
      BY OrchestratorAssumption DEF StepKeys
    <3>2. << 1 >> \in Seq(StepKeys)
      BY <3>1
    <3> QED BY <3>1, <3>2
  <2> QED BY <2>1, StepsIs
<1>3. /\ pc' \in [Threads -> Places] /\ pc[r] = here /\ pc'[r] = "search"
      /\ \A q \in Threads \ {r} : pc'[q] = pc[q]
  BY <1>0, Moves DEF Places
<1>4. held' \in [Threads -> Held] /\ \A q \in Threads \ {r} : held'[q] = held[q]
  BY <1>0, <1>1, HeldDropped
<1>5. /\ plan' \in [Runs -> Seq(StepKeys)] /\ plan'[r] = Steps(p)
      /\ asks' \in [Runs -> {"plan", "synthesis"}] /\ asks'[r] = "synthesis"
      /\ tries' \in [Runs -> 0 .. MaxAttempts] /\ tries'[r] = 0
      /\ \A q \in Runs \ {r} : plan'[q] = plan[q] /\ asks'[q] = asks[q] /\ tries'[q] = tries[q]
  BY <1>0, <1>1, <1>2, OrchestratorAssumption DEF Shape
<1>6. Shape'
  BY <1>0, <1>1, <1>3, <1>4, <1>5 DEF Shape
<1>7. Guarded'
  BY <1>0, <1>1, <1>4, AwayKeepsGuard DEF Goto
<1>8. Counts(r)'
  BY <1>0, <1>1, <1>2, <1>3, <1>5, OrchestratorAssumption DEF Local, Counts, InSearch, Shape
<1>9. Context(r)'
  BY <1>0, <1>1, <1>3 DEF Local, Context
<1>10. Heard(r)'
  BY <1>0, <1>1, NothingYet DEF Local, Counts, Heard
<1>11. Shown(r)'
  BY <1>0, <1>1, <1>3 DEF Local, Shown, InCall
<1>12. \A q \in Runs \ {r} : Same(q)
  BY <1>1, <1>3, <1>5 DEF Same, Threads
<1> QED BY <1>6, <1>7, <1>8, <1>9, <1>10, <1>11, <1>12 DEF RunKept, Local

\* Search: what is built is built of what is found.
LEMMA SearchIs ==
  ASSUME IInv, NEW r \in Runs, Search(r)
  PROVE  RunKept(r)
<1>0. Shape /\ Guarded /\ Local(r) /\ r \in Threads
  BY DEF IInv, Threads
<1>1. PICK c \in Candidates : /\ found' = [found EXCEPT ![r] = c]
                              /\ built' = [built EXCEPT ![r] = Build(c)]
  BY DEF Search
<1>2. /\ Goto(r, "search", "assembled") /\ Searching(r)
      /\ UNCHANGED <<token, life, client, lock, faults, asks, tries, held, plan, at, answers,
                     prompt, outcome>>
  BY DEF Search, shared, call
<1>3. /\ pc' \in [Threads -> Places] /\ pc[r] = "search" /\ pc'[r] = "assembled"
      /\ \A q \in Threads \ {r} : pc'[q] = pc[q]
  BY <1>0, <1>2, Moves DEF Places
<1>4. c \in Lists /\ Build(c) \in Contexts
  BY BuildIs
<1>5. /\ found' \in [Runs -> Lists] /\ found'[r] = c
      /\ built' \in [Runs -> Contexts] /\ built'[r] = Build(c)
      /\ \A q \in Runs \ {r} : found'[q] = found[q] /\ built'[q] = built[q]
  BY <1>0, <1>1, <1>4 DEF Shape
<1>6. Shape'
  BY <1>0, <1>2, <1>3, <1>5 DEF Shape
<1>7. Guarded'
  BY <1>0, <1>2, AwayKeepsGuard DEF Goto
<1>8. Counts(r)'
  BY <1>0, <1>2, <1>3 DEF Local, Counts, InSearch, Searching
<1>9. Context(r)'
  BY <1>3, <1>5 DEF Context
<1>10. Heard(r)'
  BY <1>0, <1>2 DEF Local, Heard
<1>11. Shown(r)'
  BY <1>0, <1>2, <1>3 DEF Local, Shown, InCall
<1>12. \A q \in Runs \ {r} : Same(q)
  BY <1>2, <1>3, <1>5 DEF Same, Threads
<1> QED BY <1>6, <1>7, <1>8, <1>9, <1>10, <1>11, <1>12 DEF RunKept, Local

\* An answer is kept for the step in turn, and takes the place of an earlier
\* one of its id.
LEMMA AnswerIs ==
  ASSUME Shape, NEW r \in Runs, Heard(r), at[r] < Len(plan[r]), plan' = plan,
         NEW size \in Nat, Answer(r, size)
  PROVE  /\ at' \in [Runs -> Nat] /\ at'[r] = at[r] + 1
         /\ answers' \in [Runs -> Answers] /\ Heard(r)'
         /\ \A q \in Runs \ {r} : at'[q] = at[q] /\ answers'[q] = answers[q]
<1> DEFINE j == at[r] + 1
           id == plan[r][j]
           old == answers[r]
           new == [k \in DOMAIN old \cup {id} |->
                     IF k = id THEN [step |-> j, size |-> size] ELSE old[k]]
<1>1. /\ at[r] \in Nat /\ plan[r] \in Seq(StepKeys) /\ old \in Answers /\ Len(plan[r]) \in Nat
  BY DEF Shape
<1>2. j \in 1 .. Len(plan[r]) /\ id \in StepKeys /\ j \in Nat
  BY <1>1
<1>3. new \in Answers
  <2> HIDE DEF j, id, old
  <2> QED BY <1>1, <1>2, AnswersGrow
<1>4. at' = [at EXCEPT ![r] = @ + 1] /\ answers' = [answers EXCEPT ![r] = new]
  BY DEF Answer
<1> HIDE DEF new
<1>5. /\ at' \in [Runs -> Nat] /\ at'[r] = j /\ answers' \in [Runs -> Answers]
      /\ answers'[r] = new
      /\ \A q \in Runs \ {r} : at'[q] = at[q] /\ answers'[q] = answers[q]
  BY <1>1, <1>3, <1>4 DEF Shape
<1>6. /\ DOMAIN new = DOMAIN old \cup {id} /\ new[id].step = j
      /\ \A k \in DOMAIN old : k # id => new[k] = old[k]
  BY DEF new
<1> DEFINE row == plan[r]
<1>7. /\ \A k \in DOMAIN old : old[k].step \in 1 .. at[r]
      /\ \A i \in 1 .. at[r] : row[i] \in DOMAIN old /\ old[row[i]].step >= i
                               /\ row[old[row[i]].step] = row[i]
  BY DEF Heard
<1> HIDE DEF id, old
<1>8. \A k \in DOMAIN new : new[k].step \in 1 .. j
  BY <1>1, <1>6, <1>7
<1>9. ASSUME NEW i \in 1 .. j
      PROVE  row[i] \in DOMAIN new /\ new[row[i]].step >= i /\ row[new[row[i]].step] = row[i]
  <2>1. CASE row[i] = id
    BY <2>1, <1>1, <1>6 DEF id
  <2>2. CASE row[i] # id
    <3>1. i \in 1 .. at[r]
      BY <1>1, <2>2 DEF id
    <3> HIDE DEF row
    <3> QED BY <1>6, <1>7, <2>2, <3>1
  <2> QED BY <2>1, <2>2
<1>10. Heard(r)'
  <2>1. plan'[r] = row /\ at'[r] = j /\ answers'[r] = new
    BY <1>5
  <2> HIDE DEF row, j
  <2> QED BY <1>8, <1>9, <2>1 DEF Heard
<1> QED BY <1>5, <1>10

\* Assembled: the step is answered.
LEMMA AssembledIs ==
  ASSUME IInv, NEW r \in Runs, Assembled(r)
  PROVE  RunKept(r)
<1>0. Shape /\ Guarded /\ Local(r) /\ r \in Threads
  BY DEF IInv, Threads
<1>1. /\ Goto(r, "assembled", "search") /\ Answer(r, built[r].total)
      /\ found' = [found EXCEPT ![r] = << >>] /\ built' = [built EXCEPT ![r] = NoContext]
      /\ UNCHANGED <<token, life, client, lock, faults, asks, tries, held, plan, prompt, outcome>>
  BY DEF Assembled, shared, call
<1>2. /\ pc' \in [Threads -> Places] /\ pc[r] = "assembled" /\ pc'[r] = "search"
      /\ \A q \in Threads \ {r} : pc'[q] = pc[q]
  BY <1>0, <1>1, Moves DEF Places
<1>3. at[r] < Len(plan[r]) /\ built[r].total \in Nat /\ Heard(r)
  BY <1>0, <1>2 DEF Local, Counts, Shape, Contexts
<1>4. /\ at' \in [Runs -> Nat] /\ at'[r] = at[r] + 1
      /\ answers' \in [Runs -> Answers] /\ Heard(r)'
      /\ \A q \in Runs \ {r} : at'[q] = at[q] /\ answers'[q] = answers[q]
  BY <1>0, <1>1, <1>3, AnswerIs
<1>5. /\ found' \in [Runs -> Lists] /\ found'[r] = << >>
      /\ built' \in [Runs -> Contexts] /\ built'[r] = NoContext
      /\ \A q \in Runs \ {r} : found'[q] = found[q] /\ built'[q] = built[q]
  BY <1>0, <1>1, NothingYet DEF Shape
<1>6. Shape'
  BY <1>0, <1>1, <1>2, <1>4, <1>5 DEF Shape
<1>7. Guarded'
  BY <1>0, <1>1, AwayKeepsGuard DEF Goto
<1>8. Counts(r)'
  <2>1. at[r] \in Nat /\ Len(plan[r]) \in Nat
    BY <1>0 DEF Shape
  <2>2. asks[r] # "plan"
    BY <1>0, <1>2 DEF Local, Counts, InSearch
  <2> QED BY <1>0, <1>1, <1>2, <1>3, <1>4, <2>1, <2>2 DEF Local, Counts, InSearch
<1>9. Context(r)'
  BY <1>2, <1>5 DEF Context
<1>10. Shown(r)'
  BY <1>0, <1>1, <1>2 DEF Local, Shown, InCall
<1>11. \A q \in Runs \ {r} : Same(q)
  BY <1>1, <1>2, <1>4, <1>5 DEF Same, Threads
<1> QED BY <1>4, <1>6, <1>7, <1>8, <1>9, <1>10, <1>11 DEF RunKept, Local

\* SearchFails: the step is answered too.
LEMMA SearchFailsIs ==
  ASSUME IInv, NEW r \in Runs, SearchFails(r)
  PROVE  RunKept(r)
<1>0. Shape /\ Guarded /\ Local(r) /\ r \in Threads
  BY DEF IInv, Threads
<1>1. /\ pc[r] = "search" /\ at[r] < Len(plan[r]) /\ Answer(r, FailureText)
      /\ UNCHANGED <<token, life, client, lock, faults, pc, asks, tries, held, plan, found, built,
                     prompt, outcome>>
  BY DEF SearchFails, Searching, shared, call
<1>2. FailureText \in Nat /\ Heard(r)
  BY <1>0, OrchestratorAssumption DEF Local
<1>3. /\ at' \in [Runs -> Nat] /\ at'[r] = at[r] + 1
      /\ answers' \in [Runs -> Answers] /\ Heard(r)'
      /\ \A q \in Runs \ {r} : at'[q] = at[q] /\ answers'[q] = answers[q]
  BY <1>0, <1>1, <1>2, AnswerIs
<1>4. Shape'
  BY <1>0, <1>1, <1>3 DEF Shape
<1>5. Guarded'
  BY <1>0, <1>1 DEF Guarded, IsExpired
<1>6. Counts(r)'
  <2>1. at[r] \in Nat /\ Len(plan[r]) \in Nat
    BY <1>0 DEF Shape
  <2>2. asks[r] # "plan"
    BY <1>0, <1>1 DEF Local, Counts, InSearch
  <2> QED BY <1>0, <1>1, <1>3, <2>1, <2>2 DEF Local, Counts
<1>7. Context(r)'
  BY <1>0, <1>1 DEF Local, Context
<1>8. Shown(r)'
  BY <1>0, <1>1 DEF Local, Shown, InCall
<1>9. \A q \in Runs \ {r} : Same(q)
  BY <1>1, <1>3 DEF Same
<1> QED BY <1>3, <1>4, <1>5, <1>6, <1>7, <1>8, <1>9 DEF RunKept, Local

\* Synthesize: the prompt is made of all answers.
LEMMA SynthesizeIs ==
  ASSUME IInv, NEW r \in Runs, Synthesize(r)
  PROVE  RunKept(r)
<1>0. Shape /\ Guarded /\ Local(r) /\ r \in Threads
  BY DEF IInv, Threads
<1>1. PICK base \in BaseSizes : prompt' = [prompt EXCEPT ![r] = Prompt(answers[r], base)]
  BY DEF Synthesize
<1>2. /\ ~ Searching(r) /\ Sortable(DOMAIN answers[r]) /\ Goto(r, "search", "ask")
      /\ UNCHANGED <<token, life, client, lock, faults, asks, tries, held, plan, at, answers,
                     found, built, outcome>>
  BY DEF Synthesize, shared, call
<1>3. /\ pc' \in [Threads -> Places] /\ pc[r] = "search" /\ pc'[r] = "ask"
      /\ \A q \in Threads \ {r} : pc'[q] = pc[q]
  BY <1>0, <1>2, Moves DEF Places
<1>4. base \in Nat /\ IsAnswers(answers[r])
  BY <1>0, AnswersAre, OrchestratorAssumption DEF Shape
<1> DEFINE p == Prompt(answers[r], base)
<1>5. p \in Prompts /\ ShowsPrefix(p, answers[r]) /\ Fits(p, answers[r])
  BY <1>2, <1>4, PromptHolds, PromptKeepsOrder
<1> HIDE DEF p
<1>6. /\ prompt' \in [Runs -> Prompts] /\ prompt'[r] = p
      /\ \A q \in Runs \ {r} : prompt'[q] = prompt[q]
  <2>1. prompt' = [prompt EXCEPT ![r] = p]
    BY <1>1 DEF p
  <2> QED BY <1>0, <1>5, <2>1 DEF Shape
<1>7. Shape'
  BY <1>0, <1>2, <1>3, <1>6 DEF Shape
<1>8. Guarded'
  BY <1>0, <1>2, AwayKeepsGuard DEF Goto
<1>9. Counts(r)'
  BY <1>0, <1>2, <1>3 DEF Local, Counts, InSearch
<1>10. Context(r)'
  BY <1>0, <1>2, <1>3 DEF Local, Context
<1>11. Heard(r)'
  BY <1>0, <1>2 DEF Local, Heard
<1>12. Shown(r)'
  <2>1. at[r] = Len(plan[r])
    <3>1. at[r] \in Nat /\ Len(plan[r]) \in Nat /\ at[r] <= Len(plan[r])
      BY <1>0 DEF Shape, Local, Counts
    <3>2. ~ (at[r] < Len(plan[r]))
      BY <1>2, <1>3 DEF Searching
    <3> QED BY <3>1, <3>2
  <2> QED BY <1>2, <1>5, <1>6, <2>1 DEF Shown
<1>13. \A q \in Runs \ {r} : Same(q)
  BY <1>2, <1>3, <1>6 DEF Same, Threads
<1> QED BY <1>7, <1>8, <1>9, <1>10, <1>11, <1>12, <1>13 DEF RunKept, Local

\* Malformed, Unsortable, Synthesized, SynthesisUnavailable.
LEMMA FinishIs ==
  ASSUME IInv, NEW r \in Runs, NEW here \in {"answered", "unavailable", "search"},
         NEW how \in Outcomes, Finish(r, here, how)
  PROVE  RunKept(r)
<1>0. Shape /\ Guarded /\ Local(r) /\ r \in Threads
  BY DEF IInv, Threads
<1>1. /\ Goto(r, here, "done") /\ outcome' = [outcome EXCEPT ![r] = how]
      /\ tries' = [tries EXCEPT ![r] = 0] /\ held' = [held EXCEPT ![r] = NoToken]
      /\ plan' = [plan EXCEPT ![r] = << >>] /\ at' = [at EXCEPT ![r] = 0]
      /\ answers' = [answers EXCEPT ![r] = NoAnswers]
      /\ prompt' = [prompt EXCEPT ![r] = NoPrompt]
      /\ UNCHANGED <<token, life, client, lock, faults, asks, found, built>>
  BY DEF Finish, shared
<1>2. /\ pc' \in [Threads -> Places] /\ pc[r] = here /\ pc'[r] = "done"
      /\ \A q \in Threads \ {r} : pc'[q] = pc[q]
  BY <1>0, <1>1, Moves DEF Places
<1>3. held' \in [Threads -> Held] /\ \A q \in Threads \ {r} : held'[q] = held[q]
  BY <1>0, <1>1, HeldDropped
<1>4. /\ outcome' \in [Runs -> Outcomes]
      /\ tries' \in [Runs -> 0 .. MaxAttempts] /\ tries'[r] = 0
      /\ \A q \in Runs \ {r} : tries'[q] = tries[q]
  BY <1>0, <1>1, OrchestratorAssumption DEF Shape
<1>5. /\ plan' \in [Runs -> Seq(StepKeys)] /\ plan'[r] = << >>
      /\ at' \in [Runs -> Nat] /\ at'[r] = 0
      /\ \A q \in Runs \ {r} : plan'[q] = plan[q] /\ at'[q] = at[q]
  BY <1>0, <1>1, NothingYet DEF Shape
<1>6. /\ answers' \in [Runs -> Answers] /\ answers'[r] = NoAnswers
      /\ prompt' \in [Runs -> Prompts] /\ prompt'[r] = NoPrompt
      /\ \A q \in Runs \ {r} : answers'[q] = answers[q] /\ prompt'[q] = prompt[q]
  BY <1>0, <1>1, NothingYet DEF Shape
<1>7. Shape'
  BY <1>0, <1>1, <1>2, <1>3, <1>4, <1>5, <1>6 DEF Shape
<1>8. Guarded'
  BY <1>0, <1>1, <1>3, AwayKeepsGuard DEF Goto
<1>9. Counts(r)'
  BY <1>2, <1>4, <1>5, <1>6, NothingYet, OrchestratorAssumption DEF Counts, InSearch
<1>10. Context(r)'
  BY <1>0, <1>1, <1>2 DEF Local, Context
<1>11. Heard(r)'
  BY <1>5, <1>6, NothingYet DEF Heard
<1>12. Shown(r)'
  BY <1>2, <1>6, NothingYet DEF Shown, InCall
<1>13. \A q \in Runs \ {r} : Same(q)
  BY <1>1, <1>2, <1>4, <1>5, <1>6 DEF Same, Threads
<1> QED BY <1>7, <1>8, <1>9, <1>10, <1>11, <1>12, <1>13 DEF RunKept, Local

\* A stutter keeps the invariant.
LEMMA StutterKeeps ==
  ASSUME IInv, UNCHANGED vars
  PROVE  IInv'
<1>1. /\ UNCHANGED <<token, life, client, lock, faults, pc, asks, tries, held>>
      /\ UNCHANGED <<plan, at, answers, found, built, prompt, outcome>>
  BY DEF vars, shared, call, results
<1>2. Shape'
  BY <1>1 DEF IInv, Shape
<1>3. Guarded'
  BY <1>1 DEF IInv, Guarded, IsExpired
<1>4. ASSUME NEW r \in Runs PROVE Local(r)'
  BY <1>1, SameKeeps DEF IInv, Same
<1> QED BY <1>2, <1>3, <1>4 DEF IInv

\* So does every such step of a run.
LEMMA RunKeeps ==
  ASSUME IInv, NEW r \in Runs, RunKept(r)
  PROVE  IInv'
<1>1. ASSUME NEW q \in Runs, q # r PROVE Local(q)'
  BY <1>1, SameKeeps DEF IInv, RunKept
<1> QED BY <1>1 DEF IInv, RunKept

\* Every step keeps the invariant.
LEMMA NextKeeps ==
  ASSUME IInv, [Next]_vars
  PROVE  IInv'
<1>1. CASE Calling
  <2>1. CallStep /\ Shape' /\ Guarded'
    BY <1>1, CallingIs
  <2>2. \A r \in Runs : Local(r)'
    BY <2>1, CallStepKeeps
  <2> QED BY <2>1, <2>2 DEF IInv
<1>2. ASSUME NEW r \in Runs, Planned(r) PROVE IInv'
  <2>1. asks[r] = "plan" /\ Goto(r, "answered", "search")
    BY <1>2 DEF Planned
  <2>2. PICK p \in Plans \cup {<< 1 >>} : FollowPlan(r, p)
    BY <1>2 DEF Planned
  <2> QED BY <2>1, <2>2, FollowPlanIs, RunKeeps
<1>3. ASSUME NEW r \in Runs, PlannerUnavailable(r) PROVE IInv'
  <2>1. /\ asks[r] = "plan" /\ Goto(r, "unavailable", "search")
        /\ FollowPlan(r, << 1 >>)
    BY <1>3 DEF PlannerUnavailable
  <2>2. << 1 >> \in Plans \cup {<< 1 >>}
    OBVIOUS
  <2> QED BY <2>1, <2>2, FollowPlanIs, RunKeeps
<1>4. ASSUME NEW r \in Runs, Malformed(r) PROVE IInv'
  BY <1>4, FinishIs, RunKeeps DEF Malformed, Outcomes
<1>5. ASSUME NEW r \in Runs, Search(r) PROVE IInv'
  BY <1>5, SearchIs, RunKeeps
<1>6. ASSUME NEW r \in Runs, Assembled(r) PROVE IInv'
  BY <1>6, AssembledIs, RunKeeps
<1>7. ASSUME NEW r \in Runs, SearchFails(r) PROVE IInv'
  BY <1>7, SearchFailsIs, RunKeeps
<1>8. ASSUME NEW r \in Runs, Synthesize(r) PROVE IInv'
  BY <1>8, SynthesizeIs, RunKeeps
<1>9. ASSUME NEW r \in Runs, Unsortable(r) PROVE IInv'
  BY <1>9, FinishIs, RunKeeps DEF Unsortable, Outcomes
<1>10. ASSUME NEW r \in Runs, Synthesized(r) PROVE IInv'
  <2>1. PICK how \in {"complete", "degraded"} : Finish(r, "answered", how)
    BY <1>10 DEF Synthesized
  <2> QED BY <2>1, FinishIs, RunKeeps DEF Outcomes
<1>11. ASSUME NEW r \in Runs, SynthesisUnavailable(r) PROVE IInv'
  BY <1>11, FinishIs, RunKeeps DEF SynthesisUnavailable, Outcomes
<1>12. CASE UNCHANGED vars
  BY <1>12, StutterKeeps
<1> QED BY <1>1, <1>2, <1>3, <1>4, <1>5, <1>6, <1>7, <1>8, <1>9, <1>10, <1>11, <1>12
     DEF Next, Calling, Work

(***************************************************************************)
(* The theorems                                                            *)
(***************************************************************************)

\* The invariant holds in every state.
LEMMA Invariance == Spec => []IInv
<1>1. IInv /\ [Next]_vars => IInv'
  BY NextKeeps
<1> QED BY <1>1, InitInv, PTL DEF Spec

\* The type invariant: a call is tried at most MaxAttempts times, a run does at
\* most MaxSteps steps and no more than its plan has (rlm_orchestrator.py).
THEOREM TypeCorrect == Spec => []TypeOK
<1>1. IInv => TypeOK
  <2> SUFFICES ASSUME IInv PROVE TypeOK
    OBVIOUS
  <2>1. Shape /\ \A r \in Runs : Counts(r)
    BY DEF IInv, Local
  <2>2. \A p \in Threads : held[p].no \in TokenNos
    BY <2>1 DEF Shape, Held
  <2>3. ASSUME NEW r \in Runs
        PROVE  /\ pc[r] \in Places /\ asks[r] \in {"plan", "synthesis"}
               /\ tries[r] \in 0 .. MaxAttempts
               /\ Len(plan[r]) <= MaxSteps /\ at[r] \in 0 .. Len(plan[r])
               /\ DOMAIN answers[r] \subseteq StepKeys /\ outcome[r] \in Outcomes
    <3>1. r \in Threads
      BY DEF Threads
    <3>2. at[r] \in Nat /\ Len(plan[r]) \in Nat
      BY <2>1 DEF Shape
    <3>3. DOMAIN answers[r] \subseteq StepKeys
      BY <2>1, AnswersAre DEF Shape, IsAnswers
    <3> QED BY <2>1, <3>1, <3>2, <3>3 DEF Shape, Counts
  <2> QED BY <2>1, <2>2, <2>3 DEF TypeOK, Shape, Lives, Places, Outcomes
<1> QED BY <1>1, Invariance, PTL

\* A call never goes out with a token that ends before it is answered
\* (token_manager.py, 77-94), although any thread may have fetched the token and
\* any may drop the client.
THEOREM TokensLast == Spec => []CallsOutliveTheirTokens
<1>1. IInv => CallsOutliveTheirTokens
  BY DEF IInv, Guarded, CallsOutliveTheirTokens
<1> QED BY <1>1, Invariance, PTL

\* A token is replaced only when it is missing or about to end, however many
\* threads ask at once (_get_shared_openai_client, get_token).
THEOREM FetchedWhenExpired == Spec => FetchesOnlyWhenExpired
<1>1. ASSUME IInv, [Next]_vars PROVE token' # token => IsExpired(token)
  <2>1. ASSUME NEW p \in Threads, Fetch(p) PROVE IsExpired(token)
    BY <1>1, <2>1 DEF IInv, Guarded, Fetch, Goto
  <2>2. ASSUME NEW p \in Threads, GetClient(p) \/ FetchFails(p) PROVE token' = token
    BY <2>2 DEF GetClient, FetchFails, tokens
  <2>3. ASSUME NEW e \in Enhancers, Enhance(e) \/ Enhanced(e) PROVE token' = token
    BY <2>3 DEF Enhance, Enhanced, shared
  <2>4. ASSUME NEW r \in Runs, Start(r) \/ Answered(r) \/ Rejected(r) \/ Unreachable(r) \/ Refused(r)
        PROVE  token' = token
    BY <2>4 DEF Start, Answered, Rejected, Unreachable, Refused, shared, tokens
  <2>5. ASSUME NEW r \in Runs, Planned(r) \/ PlannerUnavailable(r) \/ Malformed(r)
        PROVE  token' = token
    BY <2>5 DEF Planned, PlannerUnavailable, Malformed, FollowPlan, Finish, shared
  <2>6. ASSUME NEW r \in Runs, Search(r) \/ Assembled(r) \/ SearchFails(r) \/ Synthesize(r)
        PROVE  token' = token
    BY <2>6 DEF Search, Assembled, SearchFails, Synthesize, shared
  <2>7. ASSUME NEW r \in Runs, Unsortable(r) \/ Synthesized(r) \/ SynthesisUnavailable(r)
        PROVE  token' = token
    BY <2>7 DEF Unsortable, Synthesized, SynthesisUnavailable, Finish, shared
  <2>8. ASSUME NEW t \in TokenNos, Ending(t) \/ Revoked(t) \/ Ended(t) PROVE token' = token
    BY <2>8 DEF Ending, Revoked, Ended, Ages
  <2>9. CASE UNCHANGED vars
    BY <2>9 DEF vars, shared
  <2> QED BY <1>1, <2>1, <2>2, <2>3, <2>4, <2>5, <2>6, <2>7, <2>8, <2>9
       DEF Next, ClientFor, Work
<1>2. IInv /\ [Next]_vars => [token' # token => IsExpired(token)]_vars
  BY <1>1
<1> QED BY <1>2, Invariance, PTL DEF Spec, FetchesOnlyWhenExpired

\* A prompt holds the answers whole from the lowest step id up to where the
\* budget ends, cuts at most the next, leaves no step out but for its budget or
\* for a later step of the same id, and fits (_synthesize, 983-1017).
THEOREM PromptKeeps == Spec => []PromptIsFittingPrefix
<1>1. ASSUME IInv PROVE PromptIsFittingPrefix
  <2>1. ASSUME NEW r \in Runs, asks[r] = "synthesis" /\ pc[r] \in {"ask", "call"}
        PROVE  LET whole == ToSet(prompt[r].blocks)
                   heard == {answers[r][k].step : k \in whole}
               IN  /\ \A k \in whole, l \in DOMAIN answers[r] : Before(l, k) => l \in whole
                   /\ \A l \in DOMAIN answers[r] :
                         l = prompt[r].cut => \A k \in DOMAIN answers[r] : Before(k, l) => k \in whole
                   /\ ~ prompt[r].full =>
                         \A i \in DOMAIN plan[r] :
                             i \in heard \/ \E j \in heard : j > i /\ plan[r][j] = plan[r][i]
    <3> DEFINE whole == ToSet(prompt[r].blocks)
               heard == {answers[r][k].step : k \in whole}
    <3>1. at[r] = Len(plan[r]) /\ ShowsPrefix(prompt[r], answers[r]) /\ Heard(r)
      BY <1>1, <2>1 DEF IInv, Local, Shown, InCall
    <3>2. DOMAIN plan[r] = 1 .. at[r] /\ at[r] \in Nat
      <4>1. plan[r] \in Seq(StepKeys) /\ at[r] \in Nat
        BY <1>1 DEF IInv, Shape
      <4> QED BY <3>1, <4>1
    <3>3. ASSUME ~ prompt[r].full, NEW i \in DOMAIN plan[r]
          PROVE  i \in heard \/ \E j \in heard : j > i /\ plan[r][j] = plan[r][i]
      <4> DEFINE id == plan[r][i]
                 j == answers[r][id].step
      <4>1. whole = DOMAIN answers[r]
        BY <3>1, <3>3 DEF ShowsPrefix
      <4>2. id \in DOMAIN answers[r] /\ j >= i /\ plan[r][j] = id
        BY <3>1, <3>2, <3>3 DEF Heard
      <4>3. j \in 1 .. at[r]
        BY <3>1, <4>2 DEF Heard
      <4>4. j \in heard
        BY <4>1, <4>2
      <4> HIDE DEF heard, whole, j
      <4>5. j = i \/ j > i
        BY <3>2, <4>2, <4>3
      <4> QED BY <4>2, <4>4, <4>5
    <3> QED BY <3>1, <3>3 DEF ShowsPrefix
  <2>2. PromptIsPrefix
    BY <2>1 DEF PromptIsPrefix
  <2>3. PromptFits
    BY <1>1 DEF IInv, Local, Shown, InCall, Fits, PromptFits
  <2> QED BY <2>2, <2>3 DEF PromptIsFittingPrefix
<1>2. IInv => PromptIsFittingPrefix
  BY <1>1
<1> QED BY <1>2, Invariance, PTL

\* The context of a step fits its budget, names nothing twice, and leaves out
\* nothing for something less relevant of the same slot that is no smaller,
\* through both passes and the cap (ContextBuilder.build).
THEOREM ContextIsBest == Spec => []ContextKeepsBest
<1>1. ASSUME IInv PROVE ContextKeepsBest
  <2>1. ASSUME NEW r \in Runs
        PROVE  /\ Kept(found[r], built[r].items)
               /\ Tokens(found[r], ToSet(built[r].items)) <= MaxTokens
    <3>1. Context(r)
      BY <1>1 DEF IInv, Local
    <3>2. CASE pc[r] = "assembled"
      <4>1. found[r] \in Lists /\ built[r] = Build(found[r])
        BY <3>1, <3>2, BuildIs DEF Context
      <4> QED BY <4>1, BuildKeepsBest
    <3>3. CASE pc[r] # "assembled"
      <4>1. found[r] = << >> /\ built[r].items = << >>
        BY <3>1, <3>3 DEF Context, NoContext
      <4>2. ToSet(<< >>) = {} /\ Len(<< >>) = 0 /\ << >> \in Seq(DOMAIN << >>)
        BY DEF ToSet
      <4>3. Tokens(<< >>, {}) <= MaxTokens
        BY NothingYet, TokensAre, BuilderAssumption
      <4>4. Kept(<< >>, << >>)
        BY <4>2, FS_EmptySet DEF Kept, Best
      <4> QED BY <4>1, <4>2, <4>3, <4>4
    <3> QED BY <3>2, <3>3
  <2>2. ContextFits
    <3>1. ASSUME NEW r \in Runs PROVE ToSet(built[r].items) \subseteq DOMAIN found[r]
      <4>1. built[r].items \in Seq(DOMAIN found[r])
        BY <2>1 DEF Kept
      <4> QED BY <4>1 DEF ToSet
    <3> QED BY <2>1, <3>1 DEF ContextFits, Kept
  <2>3. MostRelevantStay
    BY <2>1 DEF MostRelevantStay, Kept, Best
  <2> QED BY <2>2, <2>3 DEF ContextKeepsBest
<1>2. IInv => ContextKeepsBest
  BY <1>1
<1> QED BY <1>2, Invariance, PTL
=============================================================================
