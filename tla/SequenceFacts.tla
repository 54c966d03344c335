--------------------------- MODULE SequenceFacts ---------------------------
(***************************************************************************)
(* What folds and selections compute, for sequences of any length.  The    *)
(* induction theorems of the library take an operator, which the provers   *)
(* cannot instantiate; its theorem on minimal elements takes a set, and    *)
(* induction over the set of the numbers a formula holds for follows. From *)
(* it: folds and recursive functions, the elements kept at some indices,   *)
(* elements put in order by their rank, and flattening.                    *)
(***************************************************************************)
EXTENDS Lists, FiniteSetTheorems, SequenceTheorems, WellFoundedInduction, TLAPS

-----------------------------------------------------------------------------
(* Induction *)

LEMMA LeastNat ==
  ASSUME NEW T, T \subseteq Nat, T # {}
  PROVE  \E m \in T : \A k \in T : m <= k
<1> DEFINE R == OpToRel(<, Nat)
<1>1. IsWellFoundedOn(R, Nat)
  BY NatLessThanWellFounded
<1>2. \A x, y \in Nat : x < y => <<x, y>> \in R
  BY DEF OpToRel
<1> HIDE DEF R
<1>3. PICK x \in T : \A y \in T : <<y, x>> \notin R
  BY <1>1, WFMin
<1>4. \A y \in T : ~ (y < x)
  BY <1>2, <1>3
<1>5. \A y \in T : x \in Nat /\ y \in Nat
  OBVIOUS
<1> QED
  BY <1>4, <1>5, <1>3

LEMMA SetInduction ==
  ASSUME NEW T, 0 \in T, \A n \in Nat : n \in T => n + 1 \in T
  PROVE  Nat \subseteq T
<1> DEFINE U == {n \in Nat : n \notin T}
<1> SUFFICES ASSUME U # {} PROVE FALSE
  OBVIOUS
<1>1. PICK m \in U : \A k \in U : m <= k
  BY LeastNat
<1>2. m # 0 /\ m - 1 \in Nat
  BY <1>1
<1>3. m - 1 \in T
  BY <1>1, <1>2
<1> QED
  BY <1>1, <1>2, <1>3

LEMMA MinFacts ==
  ASSUME NEW T, T \subseteq Nat, T # {}
  PROVE  Min(T) \in T /\ \A k \in T : Min(T) <= k
BY LeastNat DEF Min

LEMMA MaxUnique ==
  ASSUME NEW T, T \subseteq Nat, NEW m \in T, \A k \in T : k <= m
  PROVE  Max(T) = m
<1>1. \E x \in T : \A y \in T : x >= y
  OBVIOUS
<1>2. Max(T) \in T /\ \A k \in T : Max(T) >= k
  BY <1>1 DEF Max
<1>3. Max(T) \in Nat /\ m \in Nat /\ Max(T) >= m /\ Max(T) <= m
  BY <1>2
<1> QED
  BY <1>3

LEMMA IntervalMax ==
  ASSUME NEW i \in Nat, i # 0
  PROVE  Max(1 .. i) = i /\ (1 .. i) \ {i} = 1 .. i - 1 /\ 1 .. i # {}
<1>1. i \in 1 .. i /\ 1 .. i \subseteq Nat /\ \A k \in 1 .. i : k <= i
  OBVIOUS
<1>2. Max(1 .. i) = i
  BY <1>1, MaxUnique
<1>3. (1 .. i) \ {i} = 1 .. i - 1
  OBVIOUS
<1> QED
  BY <1>1, <1>2, <1>3

\* Every nonempty set of the first numbers has a greatest.
LEMMA MaxFacts ==
  ASSUME NEW n \in Nat, NEW T, T \subseteq 1 .. n, T # {}
  PROVE  Max(T) \in T /\ Max(T) \in 1 .. n /\ \A k \in T : k <= Max(T)
<1> DEFINE U == {j \in Nat : \A k \in T : k <= j}
<1>1. n \in U /\ U \subseteq Nat
  OBVIOUS
<1>2. PICK m \in U : \A j \in U : m <= j
  BY <1>1, LeastNat
<1>3. m \in T
  <2> SUFFICES ASSUME m \notin T PROVE FALSE
    OBVIOUS
  <2>1. PICK k \in T : k \in 1 .. n /\ k <= m
    BY <1>2
  <2>2. m - 1 \in Nat
    BY <2>1, <1>2
  <2>3. \A j \in T : j <= m - 1
    BY <1>2
  <2> QED
    BY <2>2, <2>3, <1>2
<1>4. T \subseteq Nat /\ m \in 1 .. n /\ \A k \in T : k <= m
  BY <1>2, <1>3
<1> HIDE DEF U
<1>5. Max(T) = m
  BY <1>3, <1>4, MaxUnique
<1> QED
  BY <1>3, <1>4, <1>5

-----------------------------------------------------------------------------
(* Folds *)

\* What n steps of g make of b.
Steps(n, V) == [(1 .. n) \X V -> V]
Course(h, b, n, g, V) ==
  /\ h \in [0 .. n -> V] /\ h[0] = b
  /\ \A i \in 1 .. n : h[i] = g[<<i, h[i - 1]>>]

LEMMA StepFunction ==
  ASSUME NEW V, NEW b, NEW n, NEW g, b \in V, n \in Nat, g \in Steps(n, V)
  PROVE  \E h : Course(h, b, n, g, V)
<1> USE DEF Course, Steps
<1> DEFINE Upto(k) ==
             \E h \in [0 .. k -> V] : h[0] = b /\ \A i \in 1 .. k : h[i] = g[<<i, h[i - 1]>>]
           T == {k \in Nat : k <= n => Upto(k)}
<1>1. 0 \in T
  <2>1. [i \in 0 .. 0 |-> b] \in [0 .. 0 -> V]
    OBVIOUS
  <2>2. [i \in 0 .. 0 |-> b][0] = b /\ 1 .. 0 = {}
    OBVIOUS
  <2> QED
    BY <2>1, <2>2
<1>2. ASSUME NEW k \in Nat, k \in T PROVE k + 1 \in T
  <2> SUFFICES ASSUME k + 1 <= n PROVE Upto(k + 1)
    OBVIOUS
  <2>1. PICK h \in [0 .. k -> V] : h[0] = b /\ \A i \in 1 .. k : h[i] = g[<<i, h[i - 1]>>]
    BY <1>2
  <2> DEFINE v == g[<<k + 1, h[k]>>]
             f == [i \in 0 .. k + 1 |-> IF i = k + 1 THEN v ELSE h[i]]
  <2>2. v \in V
    BY <2>1
  <2>3. f \in [0 .. k + 1 -> V]
    BY <2>2
  <2>4. f[0] = b
    BY <2>1
  <2>5. ASSUME NEW i \in 1 .. k + 1 PROVE f[i] = g[<<i, f[i - 1]>>]
    <3> HIDE DEF v
    <3>1. CASE i = k + 1
      <4>1. i - 1 = k /\ k \in 0 .. k + 1 /\ k # k + 1 /\ i \in 0 .. k + 1
        BY <3>1
      <4>2. f[i] = v /\ f[k] = h[k]
        BY <3>1, <4>1
      <4> HIDE DEF f
      <4> QED
        BY <3>1, <4>1, <4>2 DEF v
    <3>2. CASE i \in 1 .. k
      <4>1. i - 1 \in 0 .. k + 1 /\ i - 1 # k + 1 /\ i \in 0 .. k + 1 /\ i # k + 1
        BY <3>2
      <4>2. f[i] = h[i] /\ f[i - 1] = h[i - 1]
        BY <4>1
      <4> HIDE DEF f
      <4> QED
        BY <3>2, <4>2, <2>1
    <3> QED
      BY <3>1, <3>2
  <2> HIDE DEF f
  <2> QED
    BY <2>3, <2>4, <2>5
<1> HIDE DEF T
<1>3. n \in T
  BY <1>1, <1>2, SetInduction
<1> QED
  BY <1>3 DEF T

\* The function that MapThenFoldSet, taking the greatest element of a set last,
\* defines on the sets of indices.
IsFold(iter, b, n, g, V) ==
  /\ iter \in [SUBSET (1 .. n) -> V]
  /\ \A t \in SUBSET (1 .. n) :
       iter[t] = IF t = {} THEN b ELSE g[<<Max(t), iter[t \ {Max(t)}]>>]

LEMMA FoldExists ==
  ASSUME NEW V, NEW b, NEW n, NEW g, b \in V, n \in Nat, g \in Steps(n, V)
  PROVE  \E iter : IsFold(iter, b, n, g, V)
<1> USE DEF Steps
<1> DEFINE S == SUBSET (1 .. n)
           W == [S -> V]
           Step(i, f) == [t \in S |-> IF i \in t THEN g[<<i, f[t]>>] ELSE f[t]]
           G == [p \in (1 .. n) \X W |-> Step(p[1], p[2])]
           const == [t \in S |-> b]
<1>1. const \in W
  OBVIOUS
<1>2. ASSUME NEW i \in 1 .. n, NEW f \in W PROVE Step(i, f) \in W
  BY <1>2
<1>3. G \in Steps(n, W)
  BY <1>2 DEF Steps
<1>4. PICK h : Course(h, const, n, G, W)
  <2> HIDE DEF G, W, const
  <2> QED
    BY <1>1, <1>3, StepFunction
<1> USE DEF Course
<1>5. ASSUME NEW i \in 1 .. n, NEW t \in S
      PROVE  h[i][t] = IF i \in t THEN g[<<i, h[i - 1][t]>>] ELSE h[i - 1][t]
  <2>1. i - 1 \in 0 .. n
    OBVIOUS
  <2>2. h[i - 1] \in W
    <3> HIDE DEF W
    <3> QED
      BY <1>4, <2>1
  <2>3. h[i] = Step(i, h[i - 1])
    <3>1. <<i, h[i - 1]>> \in (1 .. n) \X W
      BY <2>2
    <3>2. G[<<i, h[i - 1]>>] = Step(i, h[i - 1])
      <4> HIDE DEF W
      <4> QED
        BY <3>1
    <3> HIDE DEF G, W, Step
    <3> QED
      BY <3>2, <1>4
  <2> HIDE DEF G, W
  <2> QED
    BY <2>3
<1>6. \A t \in S : h[0][t] = b
  BY <1>4
<1> HIDE DEF G
<1>7. ASSUME NEW i \in 0 .. n, NEW t \in S, \A k \in t : k <= i
      PROVE  h[n][t] = h[i][t]
  <2> DEFINE T == {j \in Nat : i <= j /\ j <= n => h[j][t] = h[i][t]}
  <2>1. 0 \in T
    OBVIOUS
  <2>2. ASSUME NEW j \in Nat, j \in T PROVE j + 1 \in T
    <3> SUFFICES ASSUME i <= j, j + 1 <= n PROVE h[j + 1][t] = h[i][t]
      OBVIOUS
    <3>1. PICK k \in 1 .. n : k = j + 1 /\ k \notin t /\ k - 1 = j
      BY <1>7
    <3>2. h[j][t] = h[i][t]
      BY <2>2
    <3> HIDE DEF T
    <3>3. h[k][t] = IF k \in t THEN g[<<k, h[k - 1][t]>>] ELSE h[k - 1][t]
      BY <1>5
    <3> QED
      BY <3>1, <3>2, <3>3
  <2> HIDE DEF T
  <2>3. n \in T
    BY <2>1, <2>2, SetInduction
  <2> QED
    BY <2>3 DEF T
<1>8. ASSUME NEW t \in S, NEW u \in S, NEW m \in 0 .. n,
             \A k \in 1 .. m : k \in t <=> k \in u
      PROVE  h[m][t] = h[m][u]
  <2> DEFINE T == {j \in Nat : j <= m => h[j][t] = h[j][u]}
  <2>1. 0 \in T
    BY <1>6
  <2>2. ASSUME NEW j \in Nat, j \in T PROVE j + 1 \in T
    <3> SUFFICES ASSUME j + 1 <= m PROVE h[j + 1][t] = h[j + 1][u]
      OBVIOUS
    <3>1. j + 1 \in 1 .. n /\ (j + 1 \in t <=> j + 1 \in u) /\ j + 1 - 1 = j
      BY <1>8
    <3>2. h[j][t] = h[j][u]
      BY <2>2
    <3>3. /\ h[j + 1][t] = IF j + 1 \in t THEN g[<<j + 1, h[j][t]>>] ELSE h[j][t]
          /\ h[j + 1][u] = IF j + 1 \in u THEN g[<<j + 1, h[j][u]>>] ELSE h[j][u]
      BY <3>1, <1>5
    <3> QED
      BY <3>1, <3>2, <3>3
  <2> HIDE DEF T
  <2>3. m \in T
    BY <2>1, <2>2, SetInduction
  <2> QED
    BY <2>3 DEF T
<1>9. ASSUME NEW t \in S, t # {}
      PROVE  h[n][t] = g[<<Max(t), h[n][t \ {Max(t)}]>>]
  <2> DEFINE m == Max(t)
             u == t \ {m}
  <2>1. m \in t /\ m \in 1 .. n /\ \A k \in t : k <= m
    BY <1>9, MaxFacts
  <2> HIDE DEF m
  <2>2. h[n][t] = h[m][t]
    BY <2>1, <1>7
  <2>3. h[m][t] = g[<<m, h[m - 1][t]>>]
    BY <2>1, <1>5
  <2>4. m - 1 \in 0 .. n /\ u \in S /\ \A k \in u : k <= m - 1
    BY <2>1
  <2>5. h[n][u] = h[m - 1][u]
    BY <2>4, <1>7
  <2>6. \A k \in 1 .. m - 1 : k \in t <=> k \in u
    BY <2>1
  <2>7. h[m - 1][t] = h[m - 1][u]
    BY <2>4, <2>6, <1>8
  <2> QED
    BY <2>2, <2>3, <2>5, <2>7 DEF m
<1>10. ASSUME NEW t \in S, t = {}
       PROVE  h[n][t] = b
  <2>1. 0 \in 0 .. n /\ \A k \in t : k <= 0
    BY <1>10
  <2>2. h[n][t] = h[0][t]
    BY <2>1, <1>7
  <2> QED
    BY <2>2, <1>6
<1>11. h[n] \in W
  BY <1>4
<1>12. IsFold(h[n], b, n, g, V)
  BY <1>9, <1>10, <1>11 DEF IsFold
<1> QED
  BY <1>12

\* A function that obeys g as long as it is in V is a course.
LEMMA CourseTyped ==
  ASSUME NEW V, NEW b, NEW n, NEW g, b \in V, n \in Nat, g \in Steps(n, V), NEW h,
         h = [i \in 0 .. n |-> h[i]], h[0] = b,
         \A i \in 1 .. n : h[i - 1] \in V => h[i] = g[<<i, h[i - 1]>>]
  PROVE  Course(h, b, n, g, V)
<1> DEFINE T == {k \in Nat : k <= n => h[k] \in V}
<1>1. 0 \in T
  OBVIOUS
<1>2. ASSUME NEW k \in Nat, k \in T PROVE k + 1 \in T
  <2> SUFFICES ASSUME k + 1 <= n PROVE h[k + 1] \in V
    OBVIOUS
  <2>1. PICK i \in 1 .. n : i = k + 1 /\ i - 1 = k
    OBVIOUS
  <2>2. h[i - 1] \in V
    BY <2>1, <1>2
  <2>3. h[i] = g[<<i, h[i - 1]>>]
    BY <2>2
  <2>4. <<i, h[i - 1]>> \in (1 .. n) \X V
    BY <2>2
  <2> QED
    BY <2>1, <2>3, <2>4 DEF Steps
<1>3. Nat \subseteq T
  <2> HIDE DEF T
  <2> QED
    BY <1>1, <1>2, SetInduction
<1>4. \A i \in 0 .. n : h[i] \in V
  BY <1>3
<1>5. h \in [0 .. n -> V]
  BY <1>4
<1>6. \A i \in 1 .. n : i - 1 \in 0 .. n
  OBVIOUS
<1>7. \A i \in 1 .. n : h[i] = g[<<i, h[i - 1]>>]
  BY <1>4, <1>6
<1> QED
  BY <1>5, <1>7 DEF Course

\* A function that obeys the equation of a fold on V passes through the courses
\* of its steps.
FoldOn(C, b, n, g, V) ==
  /\ C[{}] = b
  /\ \A t \in SUBSET (1 .. n) : t # {} /\ C[t \ {Max(t)}] \in V =>
       C[t] = g[<<Max(t), C[t \ {Max(t)}]>>]
CourseOf(C, n) == [i \in 0 .. n |-> C[1 .. i]]

LEMMA FoldCourse ==
  ASSUME NEW V, NEW b, NEW n, NEW g, b \in V, n \in Nat, g \in Steps(n, V), NEW C,
         FoldOn(C, b, n, g, V)
  PROVE  Course(CourseOf(C, n), b, n, g, V)
<1> USE DEF FoldOn, CourseOf
<1> DEFINE h == [i \in 0 .. n |-> C[1 .. i]]
<1>1. h[0] = b
  <2>1. 1 .. 0 = {} /\ 0 \in 0 .. n
    OBVIOUS
  <2> QED
    BY <2>1
<1>2. ASSUME NEW i \in 1 .. n, h[i - 1] \in V
      PROVE  h[i] = g[<<i, h[i - 1]>>]
  <2>1. i \in 0 .. n /\ i - 1 \in 0 .. n /\ i \in Nat /\ i # 0
    OBVIOUS
  <2>2. h[i] = C[1 .. i] /\ h[i - 1] = C[1 .. i - 1]
    BY <2>1
  <2>3. 1 .. i # {} /\ Max(1 .. i) = i /\ (1 .. i) \ {i} = 1 .. i - 1
    BY <2>1, IntervalMax
  <2>7. 1 .. i \in SUBSET (1 .. n)
    BY <2>1
  <2> DEFINE I == 1 .. i
             J == 1 .. i - 1
  <2> HIDE DEF I, J, h
  <2>4. I \in SUBSET (1 .. n) /\ I # {} /\ Max(I) = i /\ I \ {i} = J
    BY <2>3, <2>7 DEF I, J
  <2>5. C[J] \in V
    BY <1>2, <2>2 DEF J
  <2>6. C[I] = g[<<i, C[J]>>]
    BY <2>4, <2>5
  <2> QED
    BY <2>6, <2>2 DEF I, J
<1>3. h = [i \in 0 .. n |-> h[i]]
  OBVIOUS
<1> HIDE DEF h
<1>4. Course(h, b, n, g, V)
  BY <1>1, <1>2, <1>3, CourseTyped
<1> QED
  BY <1>4 DEF h

-----------------------------------------------------------------------------
(* Selections *)

KeptThrough(h, s, at, S) ==
  /\ h \in [0 .. Len(s) -> Seq(S)]
  /\ h[0] = <<>> /\ h[Len(s)] = KeptAt(s, at)
  /\ \A i \in 1 .. Len(s) :
       h[i] = IF i \in at THEN Append(h[i - 1], s[i]) ELSE h[i - 1]

LEMMA KeptCourse ==
  ASSUME NEW S, NEW s \in Seq(S), NEW at
  PROVE  \E h : KeptThrough(h, s, at, S)
<1> DEFINE n == Len(s)
           V == Seq(S)
           Op(v, i) == IF i \in at THEN Append(v, s[i]) ELSE v
           g == [p \in (1 .. n) \X V |-> Op(p[2], p[1])]
           F(it) == [i \in 0 .. n |-> IF i = 0 THEN <<>> ELSE Op(it[i - 1], i)]
           C == CHOOSE it : it = F(it)
<1>1. n \in Nat /\ <<>> \in V /\ \A i \in 1 .. n : s[i] \in S
  OBVIOUS
<1>2. KeptAt(s, at) = C[n]
  BY DEF KeptAt
<1>3. g \in Steps(n, V)
  BY <1>1 DEF Steps
<1>4. \A i \in 1 .. n, v \in V : g[<<i, v>>] = Op(v, i)
  OBVIOUS
<1>5. \A i, v : Op(v, i) = IF i \in at THEN Append(v, s[i]) ELSE v
  OBVIOUS
<1> HIDE DEF n, V, g, Op
<1>6. \A i \in 0 .. n : i = 0 \/ i \in 1 .. n
  BY <1>1
<1>7. \A i \in 1 .. n : i # 0 /\ i - 1 \in 0 .. n /\ i \in 0 .. n
  BY <1>1
<1>8. C = F(C)
  <2>1. PICK it : Course(it, <<>>, n, g, V)
    BY <1>1, <1>3, StepFunction
  <2>2. it \in [0 .. n -> V] /\ it[0] = <<>> /\ \A i \in 1 .. n : it[i] = g[<<i, it[i - 1]>>]
    BY <2>1 DEF Course
  <2>3. \A i \in 1 .. n : it[i] = Op(it[i - 1], i)
    BY <2>2, <1>4, <1>7
  <2>4. it = F(it)
    BY <2>2, <2>3, <1>6, <1>7
  <2> QED
    BY <2>4
<1> HIDE DEF C
<1>9. /\ C = [i \in 0 .. n |-> C[i]]
      /\ \A i \in 0 .. n : C[i] = IF i = 0 THEN <<>> ELSE Op(C[i - 1], i)
  BY <1>8
<1> HIDE DEF F
<1>10. C[0] = <<>> /\ \A i \in 1 .. n : C[i] = Op(C[i - 1], i)
  <2>1. 0 \in 0 .. n
    BY <1>1
  <2>2. C[0] = <<>>
    BY <2>1, <1>9
  <2>3. \A i \in 1 .. n : C[i] = Op(C[i - 1], i)
    BY <1>9, <1>7
  <2> QED
    BY <2>2, <2>3
<1>11. Course(C, <<>>, n, g, V)
  <2>1. \A i \in 1 .. n : C[i - 1] \in V => C[i] = g[<<i, C[i - 1]>>]
    BY <1>10, <1>4
  <2> QED
    BY <1>1, <1>3, <1>9, <1>10, <2>1, CourseTyped
<1>12. KeptThrough(C, s, at, S)
  BY <1>2, <1>5, <1>10, <1>11 DEF Course, KeptThrough, n, V
<1> QED
  BY <1>12

\* Where the elements kept come from.
KeptFrom(f, k, s, at) ==
  /\ f \in [1 .. Len(k) -> at]
  /\ \A j \in 1 .. Len(k) : k[j] = s[f[j]]
  /\ \A i, j \in 1 .. Len(k) : i < j => f[i] < f[j]
  /\ \A i \in at : \E j \in 1 .. Len(k) : f[j] = i

LEMMA KeptFacts ==
  ASSUME NEW S, NEW s \in Seq(S), NEW at, at \subseteq DOMAIN s
  PROVE  KeptAt(s, at) \in Seq(S) /\ \E f : KeptFrom(f, KeptAt(s, at), s, at)
<1> DEFINE n == Len(s)
<1>1. n \in Nat /\ DOMAIN s = 1 .. n /\ at \subseteq 1 .. n
  OBVIOUS
<1>10. PICK h : KeptThrough(h, s, at, S)
  BY KeptCourse
<1>2. /\ h \in [0 .. n -> Seq(S)]
      /\ h[0] = <<>> /\ h[n] = KeptAt(s, at)
      /\ \A i \in 1 .. n : h[i] = IF i \in at THEN Append(h[i - 1], s[i]) ELSE h[i - 1]
  BY <1>10 DEF KeptThrough
<1> HIDE DEF n
<1> DEFINE P(i) == \E f : KeptFrom(f, h[i], s, at \cap (1 .. i))
           T == {i \in Nat : i <= n => P(i)}
<1>3. 0 \in T
  <2>1. [j \in 1 .. 0 |-> 0] \in [1 .. Len(h[0]) -> at \cap (1 .. 0)]
    BY <1>2
  <2>2. KeptFrom([j \in 1 .. 0 |-> 0], h[0], s, at \cap (1 .. 0))
    BY <2>1, <1>2 DEF KeptFrom
  <2> QED
    BY <2>2
<1>4. ASSUME NEW i \in Nat, i \in T PROVE i + 1 \in T
  <2> HIDE DEF P
  <2> SUFFICES ASSUME i + 1 <= n PROVE P(i + 1)
    OBVIOUS
  <2>10. P(i)
    BY <1>1, <1>4
  <2> USE DEF P
  <2>1. PICK f : KeptFrom(f, h[i], s, at \cap (1 .. i))
    BY <2>10
  <2>2. PICK m \in 1 .. n : m = i + 1 /\ m - 1 = i
    BY <1>1
  <2>3. i \in 0 .. n
    BY <2>2, <1>1
  <2>4. h[m] = IF m \in at THEN Append(h[i], s[m]) ELSE h[i]
    BY <1>2, <2>2
  <2>5. h[i] \in Seq(S)
    BY <1>2, <2>3
  <2>6. 1 .. m = (1 .. i) \cup {m} /\ \A j \in 1 .. i : j < m
    BY <2>2
  <2>7. CASE m \notin at
    <3>1. at \cap (1 .. m) = at \cap (1 .. i)
      BY <2>6, <2>7
    <3>2. KeptFrom(f, h[m], s, at \cap (1 .. m))
      BY <3>1, <2>1, <2>4, <2>7
    <3> QED
      BY <3>2, <2>2
  <2>8. CASE m \in at
    <3> DEFINE l == Len(h[i])
               k == h[m]
               e == [j \in 1 .. l + 1 |-> IF j = l + 1 THEN m ELSE f[j]]
    <3>1. k = Append(h[i], s[m])
      BY <2>4, <2>8
    <3>2. l \in Nat /\ Len(k) = l + 1 /\ k[l + 1] = s[m] /\ \A j \in 1 .. l : k[j] = h[i][j]
      BY <2>5, <3>1
    <3>3. /\ f \in [1 .. l -> at \cap (1 .. i)]
          /\ \A j \in 1 .. l : h[i][j] = s[f[j]]
          /\ \A a, b \in 1 .. l : a < b => f[a] < f[b]
          /\ \A a \in at \cap (1 .. i) : \E j \in 1 .. l : f[j] = a
      BY <2>1 DEF KeptFrom
    <3> HIDE DEF l, k
    <3>4. /\ e[l + 1] = m
          /\ \A j \in 1 .. l : e[j] = f[j]
          /\ \A j \in 1 .. l + 1 : j = l + 1 \/ j \in 1 .. l
          /\ \A j \in 1 .. l : j \in 1 .. l + 1
          /\ l + 1 \in 1 .. l + 1 /\ DOMAIN e = 1 .. l + 1
      BY <3>2
    <3>5. at \cap (1 .. m) = (at \cap (1 .. i)) \cup {m}
      BY <2>6, <2>8
    <3>6. e \in [1 .. l + 1 -> at \cap (1 .. m)]
      <4>1. \A j \in 1 .. l + 1 : (IF j = l + 1 THEN m ELSE f[j]) \in at \cap (1 .. m)
        BY <3>3, <3>4, <3>5
      <4> QED
        BY <4>1
    <3> HIDE DEF e
    <3>7. \A j \in 1 .. l + 1 : k[j] = s[e[j]]
      BY <3>2, <3>3, <3>4
    <3>8. ASSUME NEW a \in 1 .. l + 1, NEW b \in 1 .. l + 1, a < b PROVE e[a] < e[b]
      <4>1. a \in 1 .. l
        BY <3>8, <3>2
      <4>2. e[a] = f[a] /\ f[a] \in 1 .. i
        BY <4>1, <3>3, <3>4
      <4>3. CASE b = l + 1
        BY <4>2, <4>3, <3>4, <2>6
      <4>4. CASE b \in 1 .. l
        BY <4>1, <4>2, <4>4, <3>3, <3>4, <3>8
      <4> QED
        BY <4>3, <4>4, <3>4
    <3>9. \A a \in at \cap (1 .. m) : \E j \in 1 .. l + 1 : e[j] = a
      BY <3>3, <3>4, <3>5
    <3>10. KeptFrom(e, k, s, at \cap (1 .. m))
      BY <3>2, <3>6, <3>7, <3>8, <3>9 DEF KeptFrom
    <3> QED
      BY <3>10, <2>2 DEF k
  <2> QED
    BY <2>7, <2>8
<1> HIDE DEF T, P
<1>7. n \in T
  BY <1>1, <1>3, <1>4, SetInduction
<1>8. P(n)
  BY <1>1, <1>7 DEF T
<1>5. \E f : KeptFrom(f, h[n], s, at \cap (1 .. n))
  BY <1>8 DEF P
<1>6. at \cap (1 .. n) = at /\ h[n] \in Seq(S)
  BY <1>1, <1>2
<1> QED
  BY <1>2, <1>5, <1>6

\* What is kept, and that nothing else is.
LEMMA KeptElements ==
  ASSUME NEW S, NEW s \in Seq(S), NEW at, at \subseteq DOMAIN s
  PROVE  /\ KeptAt(s, at) \in Seq(S)
         /\ \A j \in DOMAIN KeptAt(s, at) : \E i \in at : KeptAt(s, at)[j] = s[i]
         /\ \A i \in at : \E j \in DOMAIN KeptAt(s, at) : KeptAt(s, at)[j] = s[i]
         /\ KeptAt(s, at) = <<>> <=> at = {}
<1> DEFINE k == KeptAt(s, at)
<1>1. k \in Seq(S) /\ DOMAIN k = 1 .. Len(k)
  BY KeptFacts
<1>2. PICK f : KeptFrom(f, k, s, at)
  BY KeptFacts
<1> HIDE DEF k
<1>3. \A j \in DOMAIN k : f[j] \in at /\ k[j] = s[f[j]]
  BY <1>1, <1>2 DEF KeptFrom
<1>4. \A i \in at : \E j \in DOMAIN k : k[j] = s[i]
  BY <1>1, <1>2 DEF KeptFrom
<1>5. k = <<>> <=> at = {}
  <2>1. k = <<>> => DOMAIN k = {}
    OBVIOUS
  <2>2. DOMAIN k = {} => k = <<>>
    BY <1>1
  <2> QED
    BY <2>1, <2>2, <1>3, <1>4
<1> QED
  BY <1>1, <1>3, <1>4, <1>5 DEF k

-----------------------------------------------------------------------------
(* Sequences of sequences *)

FlatThrough(h, s, S) ==
  /\ h \in [0 .. Len(s) -> Seq(S)]
  /\ h[0] = <<>> /\ h[Len(s)] = FlattenSeq(s)
  /\ \A i \in 1 .. Len(s) : h[i] = h[i - 1] \o s[i]

LEMMA FlatCourse ==
  ASSUME NEW S, NEW s \in Seq(Seq(S))
  PROVE  \E h : FlatThrough(h, s, S)
<1> DEFINE n == Len(s)
           V == Seq(S)
           g == [p \in (1 .. n) \X V |-> p[2] \o s[p[1]]]
           F(it) == [i \in 1 .. n |-> IF i = 1 THEN s[i] ELSE it[i - 1] \o s[i]]
           C == CHOOSE it : it = F(it)
<1>1. n \in Nat /\ DOMAIN s = 1 .. n /\ <<>> \in V /\ \A i \in 1 .. n : s[i] \in V
  OBVIOUS
<1>2. g \in Steps(n, V)
  BY <1>1 DEF Steps
<1>3. FlattenSeq(s) = IF n = 0 THEN s ELSE C[n]
  BY DEF FlattenSeq
<1>4. n = 0 => s = <<>>
  OBVIOUS
<1>11. \A v \in V : <<>> \o v = v
  OBVIOUS
<1>12. \A i \in 1 .. n, v \in V : g[<<i, v>>] = v \o s[i]
  OBVIOUS
<1> HIDE DEF n, V, g
<1>5. PICK h : Course(h, <<>>, n, g, V)
  BY <1>1, <1>2, StepFunction
<1>6. h \in [0 .. n -> V] /\ h[0] = <<>>
  BY <1>5 DEF Course
<1>13. \A i \in 1 .. n : i - 1 \in 0 .. n /\ i \in 0 .. n
  BY <1>1
<1>7. \A i \in 1 .. n : h[i] = h[i - 1] \o s[i]
  BY <1>5, <1>6, <1>12, <1>13 DEF Course
<1>8. C = F(C)
  <2> DEFINE it == [i \in 1 .. n |-> h[i]]
  <2>1. ASSUME NEW i \in 1 .. n
        PROVE  it[i] = IF i = 1 THEN s[i] ELSE it[i - 1] \o s[i]
    <3>1. CASE i = 1
      <4>1. h[i] = h[i - 1] \o s[i]
        BY <1>7
      <4>2. i - 1 = 0
        BY <3>1
      <4> QED
        BY <4>1, <4>2, <3>1, <1>1, <1>6, <1>11
    <3>2. CASE i # 1
      <4>1. i - 1 \in 1 .. n
        BY <3>2, <1>1
      <4> QED
        BY <4>1, <3>2, <1>7
    <3> QED
      BY <3>1, <3>2
  <2>2. it = F(it)
    BY <2>1
  <2> QED
    BY <2>2
<1> HIDE DEF C
<1> DEFINE T == {i \in Nat : i \in 1 .. n => C[i] = h[i]}
<1>9. n \in T
  <2>1. 0 \in T
    OBVIOUS
  <2>2. ASSUME NEW i \in Nat, i \in T PROVE i + 1 \in T
    <3> SUFFICES ASSUME i + 1 \in 1 .. n PROVE C[i + 1] = h[i + 1]
      OBVIOUS
    <3>1. PICK m \in 1 .. n : m = i + 1 /\ m - 1 = i
      OBVIOUS
    <3>2. C[m] = IF m = 1 THEN s[m] ELSE C[m - 1] \o s[m]
      BY <1>8
    <3>3. h[m] = h[m - 1] \o s[m]
      BY <1>7
    <3>4. CASE m = 1
      <4>1. m - 1 = 0 /\ C[m] = s[m]
        BY <3>2, <3>4
      <4>2. h[m] = s[m]
        BY <4>1, <3>3, <1>1, <1>6, <1>11
      <4> QED
        BY <4>1, <4>2, <3>1
    <3>5. CASE m # 1
      <4>1. i \in 1 .. n
        BY <3>1, <3>5, <1>1
      <4>2. C[i] = h[i]
        BY <4>1, <2>2
      <4> QED
        BY <4>2, <3>1, <3>2, <3>3, <3>5
    <3> QED
      BY <3>4, <3>5
  <2> HIDE DEF T
  <2> QED
    BY <2>1, <2>2, <1>1, SetInduction
<1>10. h[n] = FlattenSeq(s)
  BY <1>1, <1>3, <1>4, <1>6, <1>9
<1>14. FlatThrough(h, s, S)
  BY <1>6, <1>7, <1>10 DEF FlatThrough, n, V
<1> QED
  BY <1>14

LEMMA FlattenEmpty == FlattenSeq(<<>>) = <<>>
BY DEF FlattenSeq

LEMMA FlattenAppend ==
  ASSUME NEW S, NEW s \in Seq(Seq(S)), NEW x \in Seq(S)
  PROVE  FlattenSeq(s) \in Seq(S) /\ FlattenSeq(Append(s, x)) = FlattenSeq(s) \o x
<1> DEFINE n == Len(s)
           t == Append(s, x)
<1>1. n \in Nat /\ t \in Seq(Seq(S)) /\ Len(t) = n + 1 /\ t[n + 1] = x
      /\ \A i \in 1 .. n : t[i] = s[i]
  OBVIOUS
<1>2. PICK h : FlatThrough(h, s, S)
  BY FlatCourse
<1> HIDE DEF t
<1>3. PICK k : FlatThrough(k, t, S)
  BY <1>1, FlatCourse
<1> DEFINE T == {i \in Nat : i <= n => h[i] = k[i]}
<1>4. n \in T
  <2>1. 0 \in T
    BY <1>2, <1>3 DEF FlatThrough
  <2>2. ASSUME NEW i \in Nat, i \in T PROVE i + 1 \in T
    <3> SUFFICES ASSUME i + 1 <= n PROVE h[i + 1] = k[i + 1]
      OBVIOUS
    <3>1. PICK m \in 1 .. n : m = i + 1 /\ m - 1 = i
      BY <1>1
    <3>2. m \in 1 .. Len(s) /\ m \in 1 .. Len(t)
      BY <1>1
    <3>3. h[m] = h[m - 1] \o s[m] /\ k[m] = k[m - 1] \o t[m]
      BY <3>2, <1>2, <1>3 DEF FlatThrough
    <3>4. h[i] = k[i]
      BY <3>1, <2>2
    <3> QED
      BY <3>1, <3>3, <3>4, <1>1
  <2> HIDE DEF T
  <2> QED
    BY <2>1, <2>2, <1>1, SetInduction
<1>8. h \in [0 .. n -> Seq(S)] /\ h[n] = FlattenSeq(s)
  BY <1>2 DEF FlatThrough
<1>9. /\ k[Len(t)] = FlattenSeq(t)
      /\ \A i \in 1 .. Len(t) : k[i] = k[i - 1] \o t[i]
  BY <1>3 DEF FlatThrough
<1> HIDE DEF n
<1>5. h[n] = k[n] /\ h[n] \in Seq(S)
  BY <1>1, <1>8, <1>4
<1>6. PICK m \in 1 .. Len(t) : m = n + 1 /\ m - 1 = n
  BY <1>1
<1>7. k[m] = k[n] \o x /\ k[m] = FlattenSeq(t)
  BY <1>1, <1>9, <1>6
<1> QED
  BY <1>5, <1>7, <1>8 DEF t

LEMMA LastOrBefore ==
  ASSUME NEW n \in Nat, NEW i \in 1 .. n
  PROVE  i = n \/ (i \in 1 .. n - 1 /\ i # n)
OBVIOUS

\* A sequence that is not empty is its front and its last element.
LEMMA FrontLast ==
  ASSUME NEW S, NEW s \in Seq(S), s # <<>>
  PROVE  /\ Front(s) \in Seq(S) /\ Last(s) \in S /\ s = Append(Front(s), Last(s))
         /\ \A v \in S : [s EXCEPT ![Len(s)] = v] = Append(Front(s), v)
         /\ Len(Front(s)) = Len(s) - 1 /\ Len(s) \in Nat \ {0}
         /\ \A i \in 1 .. Len(s) - 1 : Front(s)[i] = s[i]
<1>1. Len(s) \in Nat \ {0} /\ DOMAIN s = 1 .. Len(s)
  OBVIOUS
<1> DEFINE n == Len(s)
<1>2. Front(s) = [i \in 1 .. n - 1 |-> s[i]]
  BY <1>1 DEF Front
<1>3. Front(s) \in Seq(S) /\ Len(Front(s)) = n - 1
  BY <1>1, <1>2
<1>4. ASSUME NEW v \in S
      PROVE  Append(Front(s), v) = [i \in 1 .. n |-> IF i = n THEN v ELSE s[i]]
  <2> DEFINE q == Front(s)
             a == Append(q, v)
  <2>1. q \in Seq(S) /\ Len(q) = n - 1 /\ \A i \in 1 .. n - 1 : q[i] = s[i]
    BY <1>1, <1>2, <1>3
  <2> HIDE DEF q
  <2>2. a \in Seq(S) /\ Len(a) = n /\ a[n] = v /\ \A i \in 1 .. n - 1 : a[i] = q[i]
    BY <2>1, <1>1
  <2> HIDE DEF a
  <2>3. a = [i \in 1 .. n |-> a[i]]
    BY <2>2
  <2>4. \A i \in 1 .. n : a[i] = IF i = n THEN v ELSE s[i]
    <3>1. \A i \in 1 .. n : i = n \/ (i \in 1 .. n - 1 /\ i # n)
      BY <1>1, LastOrBefore, Zenon
    <3>2. \A i \in 1 .. n - 1 : a[i] = s[i]
      BY <2>1, <2>2, Zenon
    <3> QED
      BY <3>1, <3>2, <2>2, Zenon
  <2> QED
    BY <2>3, <2>4 DEF a, q
<1>5. \A v \in S : [s EXCEPT ![n] = v] = [i \in 1 .. n |-> IF i = n THEN v ELSE s[i]]
  BY <1>1
<1>6. s = [i \in 1 .. n |-> IF i = n THEN s[n] ELSE s[i]]
  BY <1>1
<1>7. Last(s) \in S
  BY <1>1 DEF Last
<1>10. s[n] \in S
  BY <1>1
<1>11. Append(Front(s), s[n]) = [i \in 1 .. n |-> IF i = n THEN s[n] ELSE s[i]]
  BY <1>4, <1>10
<1>8. s = Append(Front(s), Last(s))
  BY <1>6, <1>11 DEF Last
<1>9. \A v \in S : [s EXCEPT ![n] = v] = Append(Front(s), v)
  BY <1>4, <1>5
<1> QED
  BY <1>1, <1>2, <1>3, <1>7, <1>8, <1>9

LEMMA PairSeq ==
  ASSUME NEW S, NEW s \in Seq(S), Len(s) = 2
  PROVE  s = <<s[1], s[2]>>
<1> DEFINE t == <<s[1], s[2]>>
<1>1. t \in Seq(S) /\ Len(t) = 2 /\ t[1] = s[1] /\ t[2] = s[2]
  <2>1. 1 \in 1 .. Len(s) /\ 2 \in 1 .. Len(s)
    OBVIOUS
  <2>2. s[1] \in S /\ s[2] \in S
    BY <2>1, ElementOfSeq
  <2> QED
    BY <2>2
<1> HIDE DEF t
<1>2. s = [i \in 1 .. 2 |-> s[i]] /\ t = [i \in 1 .. 2 |-> t[i]]
  BY <1>1
<1>3. \A i \in 1 .. 2 : s[i] = t[i]
  BY <1>1
<1>4. s = t
  BY <1>2, <1>3
<1> QED
  BY <1>4 DEF t

LEMMA ConcatOne ==
  ASSUME NEW S, NEW x \in S, NEW y \in S
  PROVE  <<x>> \o <<y>> = <<x, y>>
<1> DEFINE p == <<x>>
           q == <<y>>
           pq == p \o q
<1>1. p \in Seq(S) /\ q \in Seq(S) /\ Len(p) = 1 /\ Len(q) = 1 /\ p[1] = x /\ q[1] = y
  OBVIOUS
<1> HIDE DEF p, q
<1>2. pq \in Seq(S) /\ Len(pq) = 2
  <2>1. pq \in Seq(S) /\ Len(pq) = Len(p) + Len(q)
    BY <1>1, ConcatProperties
  <2> QED
    BY <1>1, <2>1
<1>3. pq[1] = x /\ pq[2] = y
  <2>1. 1 \in 1 .. Len(p) + Len(q) /\ 2 \in 1 .. Len(p) + Len(q) /\ 2 - Len(p) = 1
    BY <1>1
  <2>2. \A i \in 1 .. Len(p) + Len(q) :
          pq[i] = IF i <= Len(p) THEN p[i] ELSE q[i - Len(p)]
    BY <1>1, ConcatProperties
  <2> HIDE DEF pq
  <2> QED
    BY <1>1, <2>1, <2>2
<1> HIDE DEF pq
<1>4. pq = <<x, y>>
  BY <1>2, <1>3, PairSeq
<1> QED
  BY <1>4 DEF pq, p, q

LEMMA ConcatAt ==
  ASSUME NEW S, NEW a \in Seq(S), NEW b \in Seq(S), NEW i \in 1 .. Len(b)
  PROVE  /\ Len(a) + i \in 1 .. Len(a \o b) /\ Len(a \o b) = Len(a) + Len(b)
         /\ (a \o b)[Len(a) + i] = b[i]
OBVIOUS

-----------------------------------------------------------------------------
(* Orders *)

StrictOrder(R, S) ==
  /\ \A x \in S : <<x, x>> \notin R
  /\ \A x, y, z \in S : <<x, y>> \in R /\ <<y, z>> \in R => <<x, z>> \in R
  /\ \A x, y \in S : x = y \/ <<x, y>> \in R \/ <<y, x>> \in R
Below(R, S, x) == {y \in S : <<y, x>> \in R}
Rank(R, S, x) == Cardinality(Below(R, S, x))

LEMMA RankGrows ==
  ASSUME NEW S, IsFiniteSet(S), NEW R, StrictOrder(R, S),
         NEW x \in S, NEW y \in S, <<x, y>> \in R
  PROVE  Rank(R, S, x) < Rank(R, S, y)
<1> DEFINE a == Below(R, S, x)
           b == Below(R, S, y)
<1>1. a \subseteq b /\ x \in b /\ x \notin a /\ b \subseteq S
  BY DEF StrictOrder, Below
<1> HIDE DEF a, b
<1>2. IsFiniteSet(b)
  BY <1>1, FS_Subset
<1>3. /\ IsFiniteSet(a) /\ Cardinality(a) <= Cardinality(b)
      /\ Cardinality(b) = Cardinality(a) => b = a
  BY <1>1, <1>2, FS_Subset
<1>4. Cardinality(a) \in Nat /\ Cardinality(b) \in Nat
  BY <1>2, <1>3, FS_CardinalityType
<1>5. Cardinality(a) < Cardinality(b)
  BY <1>1, <1>3, <1>4
<1> QED
  BY <1>5 DEF Rank, a, b

LEMMA RankBounds ==
  ASSUME NEW S, IsFiniteSet(S), NEW R, StrictOrder(R, S), NEW x \in S
  PROVE  Cardinality(S) \in Nat /\ Rank(R, S, x) \in 0 .. Cardinality(S) - 1
<1> DEFINE a == Below(R, S, x)
<1>1. a \subseteq S /\ x \notin a
  BY DEF StrictOrder, Below
<1> HIDE DEF a
<1>2. /\ IsFiniteSet(a) /\ Cardinality(a) <= Cardinality(S)
      /\ Cardinality(S) = Cardinality(a) => S = a
  BY <1>1, FS_Subset
<1>3. Cardinality(a) \in Nat /\ Cardinality(S) \in Nat
  BY <1>2, FS_CardinalityType
<1>4. Cardinality(a) \in 0 .. Cardinality(S) - 1
  BY <1>1, <1>2, <1>3
<1> QED
  BY <1>3, <1>4 DEF Rank, a

LEMMA RankExists ==
  ASSUME NEW S, IsFiniteSet(S), NEW R, StrictOrder(R, S)
  PROVE  \A n \in 1 .. Cardinality(S) : \E x \in S : Rank(R, S, x) = n - 1
<1> DEFINE c == Cardinality(S)
           I == 0 .. c - 1
           f == [x \in S |-> Rank(R, S, x)]
<1>1. c \in Nat
  BY FS_CardinalityType
<1>2. f \in [S -> I]
  BY RankBounds
<1>3. \A x, y \in S : f[x] = f[y] => x = y
  <2> SUFFICES ASSUME NEW x \in S, NEW y \in S, x # y PROVE f[x] # f[y]
    OBVIOUS
  <2>1. Rank(R, S, x) \in Nat /\ Rank(R, S, y) \in Nat
    BY RankBounds
  <2>2. <<x, y>> \in R \/ <<y, x>> \in R
    BY DEF StrictOrder
  <2>3. Rank(R, S, x) < Rank(R, S, y) \/ Rank(R, S, y) < Rank(R, S, x)
    BY <2>2, RankGrows
  <2> QED
    BY <2>1, <2>3
<1>4. IsFiniteSet(I) /\ Cardinality(I) = c
  <2>1. 0 \in Int /\ c - 1 \in Int
    BY <1>1
  <2>2. /\ IsFiniteSet(0 .. c - 1)
        /\ Cardinality(0 .. c - 1) = IF 0 > c - 1 THEN 0 ELSE (c - 1) - 0 + 1
    BY <2>1, FS_Interval
  <2> HIDE DEF c
  <2> QED
    BY <1>1, <2>2
<1> HIDE DEF f
<1>5. f \in Injection(S, I)
  BY <1>2, <1>3 DEF Injection, IsInjective
<1>6. f \in Surjection(S, I)
  <2> HIDE DEF I
  <2> QED
    BY <1>4, <1>5, FS_Injection
<1>7. \A i \in I : \E x \in S : f[x] = i
  BY <1>6 DEF Surjection
<1>8. \A n \in 1 .. c : n - 1 \in I
  BY <1>1
<1> QED
  BY <1>7, <1>8 DEF f

\* The elements of S at their ranks.
RanksIn(o, R, S) ==
  /\ o = [n \in 1 .. Cardinality(S) |-> o[n]]
  /\ \A n \in 1 .. Cardinality(S) : o[n] \in S /\ Rank(R, S, o[n]) = n - 1

LEMMA RankedFacts ==
  ASSUME NEW S, IsFiniteSet(S), NEW R, StrictOrder(R, S), NEW o, RanksIn(o, R, S)
  PROVE  /\ o \in Seq(S) /\ Len(o) = Cardinality(S) /\ DOMAIN o = 1 .. Cardinality(S)
         /\ \A m, n \in DOMAIN o : m # n => o[m] # o[n]
         /\ \A x \in S : \E n \in DOMAIN o : o[n] = x
         /\ \A m, n \in DOMAIN o : m < n => <<o[m], o[n]>> \in R
<1> DEFINE c == Cardinality(S)
<1>1. c \in Nat
  BY FS_CardinalityType
<1>2. o = [n \in 1 .. c |-> o[n]] /\ \A n \in 1 .. c : o[n] \in S /\ Rank(R, S, o[n]) = n - 1
  BY DEF RanksIn
<1> HIDE DEF c
<1>3. o \in Seq(S) /\ Len(o) = c /\ DOMAIN o = 1 .. c
  BY <1>1, <1>2
<1>4. \A m, n \in 1 .. c : m # n => o[m] # o[n]
  BY <1>1, <1>2
<1>5. ASSUME NEW x \in S PROVE \E n \in 1 .. c : o[n] = x
  <2>1. Rank(R, S, x) \in 0 .. c - 1
    BY RankBounds DEF c
  <2> DEFINE n == Rank(R, S, x) + 1
  <2>2. n \in 1 .. c /\ n - 1 = Rank(R, S, x)
    BY <1>1, <2>1
  <2> HIDE DEF n
  <2>3. o[n] \in S /\ Rank(R, S, o[n]) = Rank(R, S, x)
    BY <1>2, <2>2
  <2>4. Rank(R, S, x) \in Nat
    BY <2>1
  <2>5. o[n] = x
    <3> SUFFICES ASSUME o[n] # x PROVE FALSE
      OBVIOUS
    <3>1. <<x, o[n]>> \in R \/ <<o[n], x>> \in R
      BY <2>3 DEF StrictOrder
    <3>2. Rank(R, S, x) < Rank(R, S, o[n]) \/ Rank(R, S, o[n]) < Rank(R, S, x)
      BY <2>3, <3>1, RankGrows
    <3> QED
      BY <2>3, <2>4, <3>2
  <2> QED
    BY <2>2, <2>5
<1>6. ASSUME NEW m \in 1 .. c, NEW n \in 1 .. c, m < n PROVE <<o[m], o[n]>> \in R
  <2>1. o[m] \in S /\ o[n] \in S /\ Rank(R, S, o[m]) = m - 1 /\ Rank(R, S, o[n]) = n - 1
    BY <1>2
  <2>2. o[m] # o[n]
    BY <1>4, <1>6
  <2>3. ~ (<<o[n], o[m]>> \in R)
    <3> SUFFICES ASSUME <<o[n], o[m]>> \in R PROVE FALSE
      OBVIOUS
    <3>1. Rank(R, S, o[n]) < Rank(R, S, o[m])
      BY <2>1, RankGrows
    <3> QED
      BY <1>1, <1>6, <2>1, <3>1
  <2> QED
    BY <2>1, <2>2, <2>3 DEF StrictOrder
<1> QED
  BY <1>3, <1>4, <1>5, <1>6 DEF c

-----------------------------------------------------------------------------
(* The elements of sequences put together *)

LEMMA RangeTyped ==
  ASSUME NEW S, NEW s \in Seq(S)
  PROVE  /\ DOMAIN s = 1 .. Len(s) /\ Len(s) \in Nat /\ Range(s) \subseteq S
         /\ s = [i \in 1 .. Len(s) |-> s[i]] /\ \A i \in 1 .. Len(s) : s[i] \in S
         /\ s \in Seq(Range(s))
<1>1. DOMAIN s = 1 .. Len(s) /\ Len(s) \in Nat /\ s = [i \in 1 .. Len(s) |-> s[i]]
  OBVIOUS
<1>2. \A i \in 1 .. Len(s) : s[i] \in S /\ s[i] \in Range(s)
  BY <1>1 DEF Range
<1>3. Range(s) \subseteq S
  BY <1>1, <1>2 DEF Range
<1>4. s \in Seq(Range(s))
  BY <1>1, <1>2
<1> QED
  BY <1>1, <1>2, <1>3, <1>4

LEMMA MadeSeq ==
  ASSUME NEW n \in Nat, NEW s, s = [i \in 1 .. n |-> s[i]],
         NEW S, \A i \in 1 .. n : s[i] \in S
  PROVE  s \in Seq(S) /\ Len(s) = n /\ DOMAIN s = 1 .. n
OBVIOUS

LEMMA RangeConcat ==
  ASSUME NEW S, NEW a \in Seq(S), NEW b \in Seq(S)
  PROVE  a \o b \in Seq(S) /\ Range(a \o b) = Range(a) \cup Range(b)
<1> DEFINE c == a \o b
           m == Len(a)
           n == Len(b)
<1>1. m \in Nat /\ n \in Nat /\ DOMAIN a = 1 .. m /\ DOMAIN b = 1 .. n
  OBVIOUS
<1>2. /\ c \in Seq(S) /\ Len(c) = m + n
      /\ \A i \in 1 .. m + n : c[i] = IF i <= m THEN a[i] ELSE b[i - m]
  BY ConcatProperties
<1>3. DOMAIN c = 1 .. m + n
  BY <1>2
<1> HIDE DEF c, m, n
<1>4. \A i \in 1 .. m + n : i \in 1 .. m \/ i - m \in 1 .. n
  BY <1>1
<1>5. \A i \in 1 .. m : i \in 1 .. m + n /\ i <= m
  BY <1>1
<1>6. \A i \in 1 .. n : \E k \in 1 .. m + n : k = i + m /\ ~ (k <= m) /\ k - m = i
  <2> SUFFICES ASSUME NEW i \in 1 .. n
               PROVE  \E k \in 1 .. m + n : k = i + m /\ ~ (k <= m) /\ k - m = i
    OBVIOUS
  <2> DEFINE k == i + m
  <2>1. k \in 1 .. m + n /\ k = i + m /\ ~ (k <= m) /\ k - m = i
    BY <1>1
  <2> HIDE DEF k
  <2> QED
    BY <2>1
<1>7. \A i \in 1 .. m : c[i] = a[i]
  BY <1>2, <1>5
<1>8. ASSUME NEW i \in 1 .. n PROVE \E k \in 1 .. m + n : c[k] = b[i]
  <2>1. PICK k \in 1 .. m + n : k = i + m /\ ~ (k <= m) /\ k - m = i
    BY <1>6
  <2>2. c[k] = b[k - m]
    BY <1>2, <2>1
  <2> QED
    BY <2>1, <2>2
<1>9. \A i \in 1 .. m + n : (i \in 1 .. m /\ c[i] = a[i])
                            \/ (i - m \in 1 .. n /\ c[i] = b[i - m])
  BY <1>1, <1>2, <1>4
<1>10. Range(c) \subseteq Range(a) \cup Range(b)
  BY <1>1, <1>3, <1>9 DEF Range
<1>11. Range(a) \cup Range(b) \subseteq Range(c)
  BY <1>1, <1>3, <1>5, <1>7, <1>8 DEF Range
<1> QED
  BY <1>2, <1>10, <1>11 DEF c

LEMMA RangeFlatten ==
  ASSUME NEW S, NEW s \in Seq(Seq(S))
  PROVE  FlattenSeq(s) \in Seq(S) /\ Range(FlattenSeq(s)) = UNION {Range(s[i]) : i \in DOMAIN s}
<1> DEFINE n == Len(s)
           V == Seq(S)
           U(i) == UNION {Range(s[j]) : j \in 1 .. i}
<1>1. PICK h : FlatThrough(h, s, S)
  BY FlatCourse
<1>2. /\ h \in [0 .. n -> V] /\ h[0] = <<>> /\ h[n] = FlattenSeq(s)
      /\ \A i \in 1 .. n : h[i] = h[i - 1] \o s[i]
  BY <1>1 DEF FlatThrough
<1>3. n \in Nat /\ DOMAIN s = 1 .. n /\ \A i \in 1 .. n : s[i] \in V
  OBVIOUS
<1> DEFINE T == {i \in Nat : i <= n => Range(h[i]) = U(i)}
<1>4. 0 \in T
  <2>1. Range(h[0]) = {} /\ 1 .. 0 = {}
    BY <1>2 DEF Range
  <2>2. U(0) = {}
    BY <2>1
  <2> QED
    BY <2>1, <2>2
<1>5. ASSUME NEW i \in Nat, i \in T PROVE i + 1 \in T
  <2> SUFFICES ASSUME i + 1 <= n PROVE Range(h[i + 1]) = U(i + 1)
    OBVIOUS
  <2>1. PICK m \in 1 .. n : m = i + 1 /\ m - 1 = i
    BY <1>3
  <2>2. h[m] = h[i] \o s[m] /\ h[i] \in V /\ s[m] \in V
    <3>1. i \in 0 .. n
      BY <2>1
    <3> HIDE DEF V, n
    <3> QED
      BY <1>2, <1>3, <2>1, <3>1
  <2>3. Range(h[m]) = Range(h[i]) \cup Range(s[m])
    BY <2>2, RangeConcat
  <2>4. Range(h[i]) = U(i)
    BY <1>5, <2>1
  <2>5. 1 .. m = (1 .. i) \cup {m}
    BY <2>1
  <2>6. U(m) = U(i) \cup Range(s[m])
    BY <2>5
  <2> QED
    BY <2>1, <2>3, <2>4, <2>6
<1>6. n \in T
  <2> HIDE DEF T
  <2> QED
    BY <1>3, <1>4, <1>5, SetInduction
<1>7. Range(h[n]) = U(n)
  BY <1>3, <1>6
<1>8. h[n] \in V
  <2>1. n \in 0 .. n
    BY <1>3
  <2> HIDE DEF V, n
  <2> QED
    BY <1>2, <2>1
<1> QED
  BY <1>2, <1>3, <1>7, <1>8

LEMMA ConcatNothing ==
  ASSUME NEW S, NEW a \in Seq(S)
  PROVE  a \o <<>> = a
OBVIOUS

LEMMA ConcatFacts ==
  ASSUME NEW S, NEW a \in Seq(S), NEW b \in Seq(S)
  PROVE  /\ a \o b \in Seq(S) /\ <<>> \o a = a /\ a \o <<>> = a
         /\ \A c \in Seq(S) : (a \o b) \o c = a \o (b \o c)
<1>1. a \o b \in Seq(S)
  OBVIOUS
<1>2. <<>> \o a = a /\ a \o <<>> = a
  OBVIOUS
<1>3. ASSUME NEW c \in Seq(S) PROVE (a \o b) \o c = a \o (b \o c)
  BY SMTT(20)
<1> QED
  BY <1>1, <1>2, <1>3

LEMMA ConcatLaws ==
  ASSUME NEW S
  PROVE  /\ \A x \in Seq(S) : x \o <<>> = x
         /\ \A x, y, z \in Seq(S) : (x \o y) \o z = x \o (y \o z)
<1>1. ASSUME NEW x \in Seq(S) PROVE x \o <<>> = x
  BY <1>1, ConcatNothing
<1>2. ASSUME NEW x \in Seq(S), NEW y \in Seq(S), NEW z \in Seq(S)
      PROVE  (x \o y) \o z = x \o (y \o z)
  BY <1>2, SMTT(20)
<1> QED
  BY <1>1, <1>2

LEMMA FlattenConcat ==
  ASSUME NEW S, NEW a \in Seq(Seq(S)), NEW b \in Seq(Seq(S))
  PROVE  FlattenSeq(a \o b) = FlattenSeq(a) \o FlattenSeq(b)
<1> DEFINE V == Seq(S)
           c == a \o b
           m == Len(a)
           n == Len(b)
<1>1. /\ m \in Nat /\ n \in Nat /\ c \in Seq(V) /\ Len(c) = m + n
      /\ \A i \in 1 .. m : a[i] \in V /\ c[i] = a[i]
      /\ \A i \in 1 .. n : b[i] \in V /\ c[m + i] = b[i]
  OBVIOUS
<1>2. PICK f : FlatThrough(f, a, S)
  BY FlatCourse
<1>3. PICK g : FlatThrough(g, b, S)
  BY FlatCourse
<1> HIDE DEF c
<1>4. PICK h : FlatThrough(h, c, S)
  BY <1>1, FlatCourse
<1>5. /\ f \in [0 .. m -> V] /\ f[0] = <<>> /\ f[m] = FlattenSeq(a)
      /\ \A i \in 1 .. m : f[i] = f[i - 1] \o a[i]
  BY <1>2 DEF FlatThrough
<1>6. /\ g \in [0 .. n -> V] /\ g[0] = <<>> /\ g[n] = FlattenSeq(b)
      /\ \A i \in 1 .. n : g[i] = g[i - 1] \o b[i]
  BY <1>3 DEF FlatThrough
<1>7. /\ h[0] = <<>> /\ h[m + n] = FlattenSeq(c)
      /\ \A i \in 1 .. m + n : h[i] = h[i - 1] \o c[i]
  BY <1>1, <1>4 DEF FlatThrough
<1>11. /\ \A x \in V : x \o <<>> = x
       /\ \A x, y, z \in V : (x \o y) \o z = x \o (y \o z)
  BY ConcatLaws DEF V
<1> HIDE DEF V, m, n
<1> DEFINE T == {i \in Nat : i <= m => h[i] = f[i]}
<1>8. h[m] = f[m]
  <2>1. 0 \in T
    BY <1>5, <1>7
  <2>2. ASSUME NEW i \in Nat, i \in T PROVE i + 1 \in T
    <3> SUFFICES ASSUME i + 1 <= m PROVE h[i + 1] = f[i + 1]
      OBVIOUS
    <3>1. PICK k \in 1 .. m : k = i + 1 /\ k - 1 = i
      BY <1>1
    <3>2. k \in 1 .. m + n
      BY <1>1
    <3>3. h[k] = h[i] \o a[k] /\ f[k] = f[i] \o a[k]
      BY <1>1, <1>5, <1>7, <3>1, <3>2
    <3>4. h[i] = f[i]
      BY <1>1, <2>2, <3>1
    <3> QED
      BY <3>1, <3>3, <3>4
  <2> HIDE DEF T
  <2>3. m \in T
    BY <1>1, <2>1, <2>2, SetInduction
  <2> QED
    BY <1>1, <2>3 DEF T
<1> DEFINE Q(i) == h[m + i] = f[m] \o g[i]
           U == {i \in Nat : i <= n => Q(i)}
<1> HIDE DEF Q
<1>9. f[m] \in V
  BY <1>1, <1>5
<1>10. h[m + n] = f[m] \o g[n]
  <2>1. 0 \in U
    <3>1. f[m] \o <<>> = f[m] /\ m + 0 = m
      BY <1>1, <1>9, <1>11
    <3> HIDE DEF U
    <3>2. Q(0)
      BY <1>6, <1>8, <3>1 DEF Q
    <3> USE DEF U
    <3> QED
      BY <3>2
  <2>2. ASSUME NEW i \in Nat, i \in U PROVE i + 1 \in U
    <3> SUFFICES ASSUME i + 1 <= n PROVE Q(i + 1)
      OBVIOUS
    <3>1. PICK k \in 1 .. n : k = i + 1 /\ k - 1 = i
      BY <1>1
    <3>7. Q(i)
      BY <1>1, <2>2, <3>1
    <3>2. PICK l \in 1 .. m + n : l = m + k /\ l - 1 = m + i
      BY <1>1, <3>1
    <3>3. h[l] = h[m + i] \o b[k]
      BY <1>1, <1>7, <3>2
    <3>4. g[k] = g[i] \o b[k] /\ g[i] \in V /\ b[k] \in V
      <4>1. i \in 0 .. n
        BY <3>1, <1>1
      <4> QED
        BY <1>1, <1>6, <3>1, <4>1
    <3>5. h[m + i] = f[m] \o g[i]
      BY <3>7 DEF Q
    <3>6. (f[m] \o g[i]) \o b[k] = f[m] \o (g[i] \o b[k])
      <4> DEFINE x == f[m]
                 y == g[i]
                 z == b[k]
      <4>1. x \in V /\ y \in V /\ z \in V
        BY <1>9, <3>4
      <4> HIDE DEF x, y, z
      <4>2. (x \o y) \o z = x \o (y \o z)
        BY <1>11, <4>1
      <4> QED
        BY <4>2 DEF x, y, z
    <3> QED
      BY <3>1, <3>2, <3>3, <3>4, <3>5, <3>6 DEF Q
  <2> HIDE DEF U
  <2>3. n \in U
    BY <1>1, <2>1, <2>2, SetInduction
  <2>4. Q(n)
    BY <1>1, <2>3 DEF U
  <2> QED
    BY <2>4 DEF Q
<1> QED
  BY <1>5, <1>6, <1>7, <1>10 DEF c

LEMMA FlattenOnes ==
  ASSUME NEW S, NEW s \in Seq(S)
  PROVE  /\ [i \in DOMAIN s |-> <<s[i]>>] \in Seq(Seq(S))
         /\ FlattenSeq([i \in DOMAIN s |-> <<s[i]>>]) = s
<1> DEFINE n == Len(s)
           o == [i \in DOMAIN s |-> <<s[i]>>]
<1>1. n \in Nat /\ DOMAIN s = 1 .. n /\ s = [i \in 1 .. n |-> s[i]]
      /\ \A i \in 1 .. n : s[i] \in S
  OBVIOUS
<1>2. o \in Seq(Seq(S)) /\ Len(o) = n /\ \A i \in 1 .. n : o[i] = <<s[i]>>
  BY <1>1
<1> HIDE DEF o
<1>3. PICK h : FlatThrough(h, o, S)
  BY <1>2, FlatCourse
<1>4. /\ h \in [0 .. n -> Seq(S)] /\ h[0] = <<>> /\ h[n] = FlattenSeq(o)
      /\ \A i \in 1 .. n : h[i] = h[i - 1] \o <<s[i]>>
  BY <1>2, <1>3 DEF FlatThrough
<1> HIDE DEF n
<1> DEFINE P(i) == Len(h[i]) = i /\ \A j \in 1 .. i : h[i][j] = s[j]
           T == {i \in Nat : i <= n => P(i)}
<1>5. 0 \in T
  BY <1>4
<1>6. ASSUME NEW i \in Nat, i \in T PROVE i + 1 \in T
  <2> SUFFICES ASSUME i + 1 <= n PROVE P(i + 1)
    OBVIOUS
  <2>1. PICK m \in 1 .. n : m = i + 1 /\ m - 1 = i
    BY <1>1
  <2>2. P(i)
    <3> HIDE DEF P
    <3> QED
      BY <1>1, <1>6, <2>1
  <2>3. h[i] \in Seq(S) /\ h[m] = h[i] \o <<s[m]>> /\ s[m] \in S
    <3>1. i \in 0 .. n
      BY <1>1, <2>1
    <3> QED
      BY <1>1, <1>4, <2>1, <3>1
  <2> DEFINE x == h[i]
             y == h[m]
  <2>4. x \in Seq(S) /\ Len(x) = i /\ (\A j \in 1 .. i : x[j] = s[j]) /\ y = x \o <<s[m]>>
    BY <2>2, <2>3
  <2> HIDE DEF x, y
  <2> DEFINE e == s[m]
  <2> HIDE DEF e
  <2>7. e \in S /\ y = Append(x, e)
    <3>1. e \in S /\ y = x \o <<e>>
      BY <2>3, <2>4 DEF e
    <3> QED
      BY <2>4, <3>1, AppendIsConcat
  <2>8. Len(y) = i + 1 /\ y[i + 1] = e /\ \A j \in 1 .. i : y[j] = x[j]
    BY <2>4, <2>7
  <2>5. Len(y) = m /\ y[m] = s[m] /\ \A j \in 1 .. i : y[j] = x[j]
    BY <2>1, <2>8 DEF e
  <2>6. \A j \in 1 .. m : j = m \/ j \in 1 .. i
    BY <2>1
  <2> QED
    BY <2>1, <2>4, <2>5, <2>6 DEF y
<1> HIDE DEF P
<1>7. n \in T
  <2> HIDE DEF T
  <2> QED
    BY <1>1, <1>5, <1>6, SetInduction
<1>8. P(n)
  BY <1>1, <1>7
<1>9. h[n] \in Seq(S)
  <2>1. n \in 0 .. n
    BY <1>1
  <2> QED
    BY <1>4, <2>1
<1>10. h[n] = [i \in 1 .. n |-> h[n][i]] /\ \A i \in 1 .. n : h[n][i] = s[i]
  BY <1>8, <1>9 DEF P
<1>11. h[n] = s
  BY <1>1, <1>10
<1> QED
  BY <1>2, <1>4, <1>11 DEF o
=============================================================================
