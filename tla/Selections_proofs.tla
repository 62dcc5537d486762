-------------------------- MODULE Selections_proofs -------------------------
(***************************************************************************)
(* What the proofs of several components need to know of numbers, of parts *)
(* of a list (Selections), and of folds, iterations and sums: that what a  *)
(* recursive function describes is there, told by least counterexamples.   *)
(***************************************************************************)
EXTENDS Selections, FiniteSetsExt, FiniteSetTheorems, FunctionTheorems, WellFoundedInduction,
        NaturalsInduction, TLAPS

-----------------------------------------------------------------------------
(* Smallest and greatest numbers.                                          *)

LEMMA LeastIn ==
  ASSUME NEW S \in SUBSET Nat, S # {}
  PROVE  Min(S) \in S /\ \A y \in S : Min(S) <= y
<1>1. IsWellFoundedOn(OpToRel(<, Nat), Nat)
  BY NatLessThanWellFounded
<1>2. PICK x \in S : \A y \in S : ~ (<<y, x>> \in OpToRel(<, Nat))
  BY <1>1, WFMin
<1>3. \A y \in S : ~ (y < x)
  BY <1>2, Zenon DEF OpToRel
<1>4. \A y \in S : x <= y
  BY <1>3
<1>. QED BY <1>4 DEF Min

LEMMA GreatestIn ==
  ASSUME NEW S \in SUBSET Nat, IsFiniteSet(S), S # {}
  PROVE  Max(S) \in S /\ \A y \in S : y <= Max(S)
<1>. DEFINE From(x) == {y \in S : y >= x}
            T == {U \in SUBSET S : \E x \in S : U = From(x)}
<1>1. T # {}
  <2>1. PICK x \in S : TRUE
    OBVIOUS
  <2>2. From(x) \in T
    BY <2>1
  <2>. QED BY <2>2
<1>2. T \subseteq FiniteSubsetsOf(S)
  BY FS_FiniteSubsetsOfFinite
<1>3. PICK U \in T : \A V \in T : ~(<<V, U>> \in StrictSubsetOrdering(S))
  <2>. HIDE DEF T
  <2>. QED BY <1>1, <1>2, FS_StrictSubsetOrderingWellFounded, WFMin
<1>4. PICK x \in S : U = From(x)
  OBVIOUS
<1>5. \A y \in S : y <= x
  <2>. SUFFICES ASSUME NEW y \in S, ~(y <= x) PROVE FALSE
    OBVIOUS
  <2>. x \in Int /\ y \in Int /\ \A z \in S : z \in Int
    OBVIOUS
  <2>1. From(y) \subseteq From(x)
    <3>1. \A z \in S : z >= y => z >= x
      OBVIOUS
    <3>. QED BY <3>1
  <2>2. x \in From(x) /\ x \notin From(y)
    OBVIOUS
  <2>3. From(y) \in T
    OBVIOUS
  <2>4. <<From(y), From(x)>> \in StrictSubsetOrdering(S)
    BY <2>1, <2>2 DEF StrictSubsetOrdering
  <2>. QED BY <1>3, <1>4, <2>3, <2>4
<1>. QED BY <1>5 DEF Max

-----------------------------------------------------------------------------
(* Positions in a list, folds and iterations.                              *)

LEMMA DivMod ==
  ASSUME NEW x \in Int, NEW per \in Nat \ {0}
  PROVE  x \div per \in Int /\ x % per \in 0..per - 1 /\ x = per * (x \div per) + (x % per)
OBVIOUS

LEMMA Products ==
  ASSUME NEW a \in Int, NEW b \in Int, NEW c \in Int
  PROVE  a * (b + c) = a * b + a * c /\ a * b \in Int
OBVIOUS

LEMMA ProductsGrow ==
  ASSUME NEW a \in Nat, NEW b \in Int, NEW c \in Int, b <= c
  PROVE  a * b \in Int /\ a * c \in Int /\ a * b <= a * c
<1>1. PICK d \in Nat : c = b + d
  <2>1. c - b \in Nat /\ c = b + (c - b)
    OBVIOUS
  <2>. QED BY <2>1
<1>2. a * c = a * b + a * d /\ a * b \in Int
  BY <1>1, Products
<1>3. a * d \in Nat
  OBVIOUS
<1>. QED BY <1>2, <1>3

LEMMA MinOfTwo ==
  ASSUME NEW a \in Nat, NEW b \in Nat
  PROVE  /\ Min({a, b}) \in Nat /\ Min({a, b}) <= a /\ Min({a, b}) <= b
         /\ Min({a, b}) = a \/ Min({a, b}) = b
<1>. DEFINE S == {a, b}
<1>1. S \in SUBSET Nat /\ S # {}
  OBVIOUS
<1>2. a \in S /\ b \in S /\ \A y \in S : y = a \/ y = b
  OBVIOUS
<1>. HIDE DEF S
<1>3. Min(S) \in S /\ \A y \in S : Min(S) <= y
  BY <1>1, LeastIn
<1>4. Min(S) \in Nat /\ Min(S) <= a /\ Min(S) <= b /\ (Min(S) = a \/ Min(S) = b)
  BY <1>1, <1>2, <1>3
<1>. QED BY <1>4 DEF S

\* A larger number is in no earlier part.
LEMMA QuotientsGrow ==
  ASSUME NEW n \in Nat \ {0}, NEW x \in Nat, NEW y \in Nat, x <= y
  PROVE  x \div n <= y \div n
<1>1. PICK q \in Int, r \in 0..n - 1 : q = x \div n /\ x = n * q + r
  BY DivMod
<1>2. PICK p \in Int, s \in 0..n - 1 : p = y \div n /\ y = n * p + s
  BY DivMod
<1>3. n * q \in Int /\ n * p \in Int
  OBVIOUS
<1>. SUFFICES ASSUME p + 1 <= q PROVE FALSE
  BY <1>1, <1>2
<1>4. n * (p + 1) <= n * q
  BY ProductsGrow
<1>5. n * (p + 1) = n * p + n * 1 /\ n * 1 = n
  BY Products
<1>. QED BY <1>1, <1>2, <1>3, <1>4, <1>5

\* A set of numbers has a least one.
LEMMA LeastNumber ==
  ASSUME NEW T, T \subseteq Nat, T # {}
  PROVE  \E x \in T : \A y \in T : x <= y
<1>1. Min(T) \in T /\ \A y \in T : Min(T) <= y
  BY LeastIn
<1>. QED BY <1>1

\* The positions up to i, and how many they are.
Upto(at, i) == {j \in at : j <= i}
LEMMA UptoGrows ==
  ASSUME NEW n \in Nat, NEW at, \A j \in at : j \in 1..n, NEW i \in Nat
  PROVE  /\ IsFiniteSet(Upto(at, i)) /\ Cardinality(Upto(at, i)) \in Nat
         /\ Cardinality(Upto(at, 0)) = 0
         /\ Cardinality(Upto(at, i + 1)) =
              (IF i + 1 \in at THEN Cardinality(Upto(at, i)) + 1 ELSE Cardinality(Upto(at, i)))
<1>1. IsFiniteSet(at)
  <2>1. IsFiniteSet(1..n) /\ at \subseteq 1..n
    BY FS_Interval
  <2>. QED BY <2>1, FS_Subset
<1>2. IsFiniteSet(Upto(at, i))
  <2>1. Upto(at, i) \subseteq at
    BY DEF Upto
  <2>. QED BY <1>1, <2>1, FS_Subset
<1>3. Cardinality(Upto(at, i)) \in Nat
  BY <1>2, FS_CardinalityType
<1>4. Cardinality(Upto(at, 0)) = 0
  <2>1. Upto(at, 0) = {}
    BY DEF Upto
  <2>. QED BY <2>1, FS_EmptySet
<1>5. CASE i + 1 \in at
  <2>1. Upto(at, i + 1) = Upto(at, i) \cup {i + 1} /\ i + 1 \notin Upto(at, i)
    BY <1>5 DEF Upto
  <2>. QED BY <1>2, <1>3, <1>4, <1>5, <2>1, FS_AddElement
<1>6. CASE i + 1 \notin at
  <2>1. Upto(at, i + 1) = Upto(at, i)
    BY <1>6 DEF Upto
  <2>. QED BY <1>2, <1>3, <1>4, <1>6, <2>1
<1>. QED BY <1>5, <1>6

\* There is a k-th position.
LEMMA KthExists ==
  ASSUME NEW n \in Nat, NEW at, \A j \in at : j \in 1..n, NEW k \in 1..Cardinality(at)
  PROVE  KthOf(at, k) \in at /\ Cardinality(Upto(at, KthOf(at, k))) = k
<1>. DEFINE C(i) == Cardinality(Upto(at, i))
            T == {i \in Nat : C(i) >= k}
<1>1. n \in T
  <2>1. Upto(at, n) = at
    BY DEF Upto
  <2>2. C(n) \in Nat
    BY UptoGrows
  <2>. QED BY <2>1, <2>2
<1>2. PICK x \in T : \A y \in T : x <= y
  <2>. HIDE DEF T
  <2>1. T \subseteq Nat /\ T # {}
    BY <1>1 DEF T
  <2>. QED BY <2>1, LeastNumber
<1>3. x \in Nat /\ C(x) >= k /\ C(0) = 0 /\ k \in Nat /\ k >= 1
  <2>1. C(n) \in Nat /\ C(0) = 0 /\ n \in Nat
    BY UptoGrows
  <2>2. Upto(at, n) = at
    BY DEF Upto
  <2>. QED BY <1>2, <2>1, <2>2
<1>4. x # 0
  BY <1>3
<1>. DEFINE w == x - 1
<1>5. w \in Nat /\ w + 1 = x /\ w \notin T
  BY <1>2, <1>3, <1>4
<1>6. C(w) \in Nat /\ C(w + 1) = (IF w + 1 \in at THEN C(w) + 1 ELSE C(w))
  BY <1>5, UptoGrows
<1>7. C(w) < k
  BY <1>3, <1>5, <1>6
<1>. HIDE DEF C, w, T
<1>8. x \in at /\ C(x) = k
  BY <1>3, <1>5, <1>6, <1>7
<1>9. \E i \in at : Cardinality({j \in at : j <= i}) = k
  BY <1>8 DEF C, Upto
<1>. QED BY <1>9 DEF KthOf, Upto

LEMMA SubsequenceIs ==
  ASSUME NEW S, NEW s \in Seq(S), NEW at, \A j \in at : j \in 1..Len(s)
  PROVE  /\ Subsequence(s, at) \in Seq(S) /\ Cardinality(at) \in Nat
         /\ Len(Subsequence(s, at)) = Cardinality(at)
         /\ \A k \in 1..Cardinality(at) :
              KthOf(at, k) \in at /\ Subsequence(s, at)[k] = s[KthOf(at, k)]
<1>. DEFINE c == Cardinality(at)
<1>1. Len(s) \in Nat /\ \A i \in 1..Len(s) : s[i] \in S
  OBVIOUS
<1>2. c \in Nat
  <2>1. Upto(at, Len(s)) = at
    BY DEF Upto
  <2>2. Cardinality(Upto(at, Len(s))) \in Nat
    BY <1>1, UptoGrows
  <2>. QED BY <2>1, <2>2
<1>3. \A k \in 1..c : KthOf(at, k) \in at
  BY <1>1, KthExists
<1>. HIDE DEF c
<1>4. Subsequence(s, at) = [k \in 1..c |-> s[KthOf(at, k)]]
  BY DEF Subsequence, c
<1>5. \A k \in 1..c : s[KthOf(at, k)] \in S
  BY <1>1, <1>3
<1>. QED BY <1>2, <1>3, <1>4, <1>5 DEF c

\* The greatest number of an initial stretch is its last.
LEMMA LastOfStretch ==
  ASSUME NEW k \in Nat, k # 0
  PROVE  1..k # {} /\ Max(1..k) = k /\ (1..k) \ {k} = 1..k - 1
<1>1. k \in 1..k /\ \A x \in 1..k : k >= x
  OBVIOUS
<1>2. \A y \in 1..k : (\A x \in 1..k : y >= x) => y = k
  OBVIOUS
<1>3. Max(1..k) = k
  BY <1>1, <1>2 DEF Max
<1>. QED BY <1>1, <1>3

LEMMA GreatestOf ==
  ASSUME NEW n \in Nat, NEW s \in SUBSET (1..n), s # {}
  PROVE  Max(s) \in s /\ \A y \in s : y <= Max(s)
<1>1. IsFiniteSet(s)
  <2>1. IsFiniteSet(1..n)
    BY FS_Interval
  <2>. QED BY <2>1, FS_Subset
<1>2. s \in SUBSET Nat
  OBVIOUS
<1>. QED BY <1>1, <1>2, GreatestIn

\* What a set of numbers loses when its greatest goes.
LEMMA LastOfSome ==
  ASSUME NEW n \in Nat, NEW s \in SUBSET (1..n + 1), n + 1 \in s
  PROVE  Max(s) = n + 1 /\ s \ {n + 1} \in SUBSET (1..n) /\ s # {}
<1>1. \A x \in s : n + 1 >= x
  OBVIOUS
<1>2. \A y \in s : (\A x \in s : y >= x) => y = n + 1
  OBVIOUS
<1>3. Max(s) = n + 1
  BY <1>1, <1>2 DEF Max
<1>4. s \ {n + 1} \in SUBSET (1..n)
  OBVIOUS
<1>. QED BY <1>3, <1>4

\* A fold that steps inside a set is defined.
IsFold(it, n, b, g) ==
    it = [s \in SUBSET (1..n) |-> IF s = {} THEN b ELSE g[<<it[s \ {Max(s)}], Max(s)>>]]
LEMMA FoldExists ==
  ASSUME NEW m \in Nat, NEW A, NEW b \in A, NEW g \in [A \X (1..m) -> A]
  PROVE  \E it \in [SUBSET (1..m) -> A] : IsFold(it, m, b, g)
<1>. DEFINE Holds(n) == n <= m => \E it \in [SUBSET (1..n) -> A] : IsFold(it, n, b, g)
<1>1. Holds(0)
  <2>1. SUBSET (1..0) = {{}}
    OBVIOUS
  <2>. DEFINE it == [s \in SUBSET (1..0) |-> b]
  <2>2. it = [s \in SUBSET (1..0) |-> IF s = {} THEN b ELSE g[<<it[s \ {Max(s)}], Max(s)>>]]
    BY <2>1
  <2>. QED BY <2>2 DEF IsFold
<1>2. ASSUME NEW n \in Nat, Holds(n) PROVE Holds(n + 1)
  <2>. SUFFICES ASSUME n + 1 <= m
                PROVE  \E it \in [SUBSET (1..n + 1) -> A] : IsFold(it, n + 1, b, g)
    OBVIOUS
  <2>1. PICK old \in [SUBSET (1..n) -> A] : IsFold(old, n, b, g)
    <3>1. n <= m
      OBVIOUS
    <3>. QED BY <1>2, <3>1
  <2>. DEFINE it == [s \in SUBSET (1..n + 1) |->
                       IF n + 1 \in s THEN g[<<old[s \ {n + 1}], n + 1>>] ELSE old[s]]
  <2>2. ASSUME NEW s \in SUBSET (1..n + 1), n + 1 \notin s
        PROVE  /\ s \in SUBSET (1..n) /\ s \ {Max(s)} \in SUBSET (1..n)
               /\ s \ {Max(s)} \in SUBSET (1..n + 1) /\ n + 1 \notin s \ {Max(s)}
    <3>. DEFINE x == Max(s)
    <3>. HIDE DEF x
    <3>1. s \in SUBSET (1..n)
      BY <2>2
    <3>2. /\ s \ {x} \in SUBSET (1..n) /\ s \ {x} \in SUBSET (1..n + 1)
          /\ n + 1 \notin s \ {x}
      BY <2>2, <3>1
    <3>. QED BY <3>1, <3>2 DEF x
  <2>3. ASSUME NEW s \in SUBSET (1..n + 1)
        PROVE  /\ it[s] \in A
               /\ it[s] = IF s = {} THEN b ELSE g[<<it[s \ {Max(s)}], Max(s)>>]
    <3>1. CASE n + 1 \in s
      <4>1. Max(s) = n + 1 /\ s \ {n + 1} \in SUBSET (1..n) /\ s # {}
        BY <3>1, LastOfSome
      <4>2. s \ {n + 1} \in SUBSET (1..n + 1) /\ n + 1 \notin s \ {n + 1}
        OBVIOUS
      <4>3. it[s] = g[<<old[s \ {n + 1}], n + 1>>] /\ it[s \ {n + 1}] = old[s \ {n + 1}]
        BY <3>1, <4>2
      <4>4. n + 1 \in 1..m /\ old[s \ {n + 1}] \in A
        BY <4>1
      <4>. HIDE DEF it
      <4>. QED BY <4>1, <4>3, <4>4
    <3>2. CASE n + 1 \notin s
      <4>1. s \in SUBSET (1..n) /\ s \ {Max(s)} \in SUBSET (1..n + 1)
            /\ n + 1 \notin s \ {Max(s)}
        BY <2>2, <3>2
      <4>2. it[s] = old[s] /\ it[s \ {Max(s)}] = old[s \ {Max(s)}]
        BY <3>2, <4>1
      <4>3. old[s] = IF s = {} THEN b ELSE g[<<old[s \ {Max(s)}], Max(s)>>]
        BY <2>1, <4>1 DEF IsFold
      <4>. HIDE DEF it
      <4>. QED BY <4>1, <4>2, <4>3
    <3>. QED BY <3>1, <3>2
  <2>4. it \in [SUBSET (1..n + 1) -> A]
    BY <2>3, Zenon
  <2>5. it = [s \in SUBSET (1..n + 1) |-> IF s = {} THEN b ELSE g[<<it[s \ {Max(s)}], Max(s)>>]]
    <3>1. it = [s \in SUBSET (1..n + 1) |-> it[s]]
      BY Zenon
    <3>. HIDE DEF it
    <3>. QED BY <2>3, <3>1
  <2>. HIDE DEF it
  <2>. QED BY <2>4, <2>5 DEF IsFold
<1>3. \A n \in Nat : Holds(n)
  <2>. DEFINE T == {n \in Nat : ~Holds(n)}
  <2>. SUFFICES ASSUME T # {} PROVE FALSE
    BY Zenon
  <2>. HIDE DEF Holds
  <2>1. PICK n \in T : \A k \in T : n <= k
    BY LeastNumber
  <2>2. n \in Nat /\ ~Holds(n) /\ n # 0
    BY <2>1, <1>1
  <2>3. PICK k \in Nat : n = k + 1
    BY <2>2
  <2>4. Holds(k)
    BY <2>1, <2>2, <2>3
  <2>. QED BY <1>2, <2>2, <2>3, <2>4
<1>. HIDE DEF Holds
<1>4. m <= m /\ Holds(m)
  BY <1>3
<1>. QED BY <1>4 DEF Holds

\* What holds first and goes from each number to the next holds up to n.
LEMMA StepByStep ==
  ASSUME NEW n \in Nat, NEW T, 0 \in T, \A k \in 0..n - 1 : k \in T => k + 1 \in T
  PROVE  \A k \in 0..n : k \in T
<1>. DEFINE Bad == {k \in 0..n : k \notin T}
<1>. SUFFICES ASSUME Bad # {} PROVE FALSE
  OBVIOUS
<1>1. PICK k \in Bad : \A j \in Bad : k <= j
  <2>1. Bad \subseteq Nat
    OBVIOUS
  <2>. HIDE DEF Bad
  <2>. QED BY <2>1, LeastNumber
<1>2. k \in 0..n /\ k \notin T /\ k # 0
  OBVIOUS
<1>3. PICK m \in 0..n - 1 : m + 1 = k
  BY <1>2
<1>4. m \in T
  BY <1>1, <1>3
<1>. QED BY <1>2, <1>3, <1>4

\* A sequence of steps that stay inside a set is defined.
IsIteration(f, n, b, g) == f = [k \in 0..n |-> IF k = 0 THEN b ELSE g[<<f[k - 1], k>>]]
LEMMA IterationExists ==
  ASSUME NEW n \in Nat, NEW A, NEW b \in A, NEW g \in [A \X (1..n) -> A]
  PROVE  \E f \in [0..n -> A] : IsIteration(f, n, b, g)
<1>1. PICK it \in [SUBSET (1..n) -> A] : IsFold(it, n, b, g)
  BY FoldExists
<1>. DEFINE f == [k \in 0..n |-> it[1..k]]
<1>2. ASSUME NEW k \in 0..n
      PROVE  f[k] \in A /\ f[k] = IF k = 0 THEN b ELSE g[<<f[k - 1], k>>]
  <2>1. 1..k \in SUBSET (1..n) /\ f[k] = it[1..k]
    OBVIOUS
  <2>2. f[k] \in A
    BY <2>1
  <2>3. CASE k = 0
    <3>1. 1..k = {}
      BY <2>3
    <3>2. it[{}] = b
      BY <1>1 DEF IsFold
    <3>. HIDE DEF f
    <3>. QED BY <2>1, <2>2, <2>3, <3>1, <3>2
  <2>4. CASE k # 0
    <3>1. 1..k # {} /\ Max(1..k) = k /\ (1..k) \ {k} = 1..k - 1
      BY <2>4, LastOfStretch
    <3>2. f[k - 1] = it[1..k - 1]
      BY <2>4
    <3>. HIDE DEF f
    <3>. DEFINE s == 1..k
    <3>3. it[s] = IF s = {} THEN b ELSE g[<<it[s \ {Max(s)}], Max(s)>>]
      <4>. HIDE DEF s
      <4>1. s \in SUBSET (1..n)
        BY <2>1 DEF s
      <4>. QED BY <1>1, <4>1 DEF IsFold
    <3>. QED BY <2>1, <2>2, <2>4, <3>1, <3>2, <3>3
  <2>. QED BY <2>3, <2>4
<1>3. f = [k \in 0..n |-> f[k]]
  OBVIOUS
<1>. HIDE DEF f
<1>4. f \in [0..n -> A]
  BY <1>2, <1>3
<1>5. f = [k \in 0..n |-> IF k = 0 THEN b ELSE g[<<f[k - 1], k>>]]
  BY <1>2, <1>3
<1>. QED BY <1>4, <1>5 DEF IsIteration

\* A fold that steps inside a set goes through the numbers one by one.
Folding(it, n, A, b, g) ==
    /\ it[{}] = b
    /\ \A s \in SUBSET (1..n) : (s # {} /\ it[s \ {Max(s)}] \in A)
          => it[s] = g[<<it[s \ {Max(s)}], Max(s)>>]
Stepping(h, n, A, b, g) ==
    /\ h[0] = b
    /\ \A k \in 0..n : h[k] \in A
    /\ \A k \in 1..n : h[k] = g[<<h[k - 1], k>>]
LEMMA FoldRuns ==
  ASSUME NEW n \in Nat, NEW A, NEW b \in A, NEW g \in [A \X (1..n) -> A], NEW it,
         Folding(it, n, A, b, g)
  PROVE  \E h : h[n] = it[1..n] /\ Stepping(h, n, A, b, g)
<1>. DEFINE h == [k \in 0..n |-> it[1..k]]
            T == {k \in 0..n : h[k] \in A}
<1>1. h[0] = b /\ h[n] = it[1..n]
  <2>1. 1..0 = {} /\ 0 \in 0..n /\ n \in 0..n
    OBVIOUS
  <2>. QED BY <2>1 DEF Folding
<1>2. ASSUME NEW k \in 1..n, h[k - 1] \in A PROVE h[k] = g[<<h[k - 1], k>>]
  <2>1. 1..k \in SUBSET (1..n) /\ k \in 0..n /\ k - 1 \in 0..n /\ k \in Nat /\ k # 0
    OBVIOUS
  <2>2. 1..k # {} /\ Max(1..k) = k /\ (1..k) \ {k} = 1..k - 1
    BY <2>1, LastOfStretch
  <2>3. h[k - 1] = it[1..k - 1] /\ h[k] = it[1..k]
    BY <2>1
  <2>. DEFINE s == 1..k
  <2>4. s # {} /\ s \in SUBSET (1..n) /\ Max(s) = k /\ s \ {k} = 1..k - 1
    BY <2>1, <2>2
  <2>. HIDE DEF s, h
  <2>5. it[s] = g[<<it[s \ {Max(s)}], Max(s)>>]
    BY <1>2, <2>3, <2>4 DEF Folding
  <2>. QED BY <2>3, <2>4, <2>5 DEF s
<1>. HIDE DEF h
<1>3. 0 \in T /\ \A k \in 0..n - 1 : k \in T => k + 1 \in T
  <2>1. 0 \in T
    BY <1>1
  <2>2. ASSUME NEW k \in 0..n - 1, k \in T PROVE k + 1 \in T
    <3>1. k + 1 \in 1..n /\ (k + 1) - 1 = k /\ h[k] \in A /\ k + 1 \in 0..n
      BY <2>2
    <3>2. h[k + 1] = g[<<h[k], k + 1>>]
      BY <1>2, <3>1
    <3>. QED BY <3>1, <3>2
  <2>. QED BY <2>1, <2>2
<1>4. \A k \in 0..n : h[k] \in A
  <2>. HIDE DEF T
  <2>1. \A k \in 0..n : k \in T
    BY <1>3, StepByStep
  <2>. QED BY <2>1 DEF T
<1>5. \A k \in 1..n : h[k] = g[<<h[k - 1], k>>]
  <2>. SUFFICES ASSUME NEW k \in 1..n PROVE h[k] = g[<<h[k - 1], k>>]
    OBVIOUS
  <2>1. k - 1 \in 0..n
    OBVIOUS
  <2>. QED BY <1>2, <1>4, <2>1
<1>. QED BY <1>1, <1>4, <1>5 DEF Stepping

\* A beginning is told by how many it has.
LEMMA BeginningIs ==
  ASSUME NEW n \in Nat, NEW K \in SUBSET (1..n), \A i \in K, j \in 1..n : j < i => j \in K
  PROVE  Cardinality(K) \in 0..n /\ K = 1..Cardinality(K)
<1>1. CASE K = {}
  <2>1. Cardinality(K) = 0
    BY <1>1, FS_EmptySet
  <2>. QED BY <1>1, <2>1
<1>2. CASE K # {}
  <2>1. PICK x \in 1..n : x \in K /\ \A y \in K : y <= x
    <3>1. Max(K) \in K /\ \A y \in K : y <= Max(K)
      BY <1>2, GreatestOf
    <3>. QED BY <3>1
  <2>2. K = 1..x
    <3>1. \A y \in K : y \in 1..x
      BY <2>1
    <3>2. \A y \in 1..x : y \in 1..n /\ (y = x \/ y < x)
      OBVIOUS
    <3>3. \A y \in 1..x : y \in K
      BY <2>1, <3>2
    <3>. QED BY <3>1, <3>3
  <2>3. Cardinality(1..x) = x
    BY <2>1, FS_Interval
  <2>. QED BY <2>1, <2>2, <2>3
<1>. QED BY <1>1, <1>2

-----------------------------------------------------------------------------
(* Sums over finite sets, as MapThenSumSet computes them: the element that *)
(* is taken first does not matter.                                         *)

AnyOf(s) == CHOOSE x \in s : TRUE

\* g tells the sum of f over each subset of T.
IsSum(g, T, f) ==
  g = [s \in SUBSET T |-> IF s = {} THEN 0 ELSE f[AnyOf(s)] + g[s \ {AnyOf(s)}]]

LEMMA SmallestOf ==
  ASSUME NEW S, IsFiniteSet(S), NEW T \in SUBSET SUBSET S, T # {}
  PROVE  \E U \in T : \A V \in T : V \subseteq U => V = U
<1>1. T \subseteq FiniteSubsetsOf(S)
  BY FS_FiniteSubsetsOfFinite
<1>2. PICK U \in T : \A V \in T : ~(<<V, U>> \in StrictSubsetOrdering(S))
  BY <1>1, FS_StrictSubsetOrderingWellFounded, WFMin
<1>. QED BY <1>2 DEF StrictSubsetOrdering

LEMMA PickIs == \A s : s # {} => AnyOf(s) \in s
BY DEF AnyOf

LEMMA SumUnique ==
  ASSUME NEW T, IsFiniteSet(T), NEW f, NEW g, NEW h, IsSum(g, T, f), IsSum(h, T, f)
  PROVE  g = h
<1>. DEFINE Bad == {s \in SUBSET T : g[s] # h[s]}
<1>1. \A s \in SUBSET T : g[s] = IF s = {} THEN 0 ELSE f[AnyOf(s)] + g[s \ {AnyOf(s)}]
  BY DEF IsSum
<1>2. \A s \in SUBSET T : h[s] = IF s = {} THEN 0 ELSE f[AnyOf(s)] + h[s \ {AnyOf(s)}]
  BY DEF IsSum
<1>3. Bad = {}
  <2>. SUFFICES ASSUME Bad # {} PROVE FALSE
    OBVIOUS
  <2>1. PICK s \in Bad : \A u \in Bad : u \subseteq s => u = s
    <3>. HIDE DEF Bad
    <3>1. Bad \in SUBSET SUBSET T
      BY DEF Bad
    <3>. QED BY <3>1, SmallestOf
  <2>2. s # {}
    BY <1>1, <1>2
  <2>3. /\ s \ {AnyOf(s)} \in SUBSET T /\ s \ {AnyOf(s)} \subseteq s /\ s \ {AnyOf(s)} # s
    BY <2>2, PickIs
  <2>4. g[s \ {AnyOf(s)}] = h[s \ {AnyOf(s)}]
    BY <2>1, <2>3
  <2>. QED BY <1>1, <1>2, <2>2, <2>4
<1>4. g = [s \in SUBSET T |-> g[s]] /\ h = [s \in SUBSET T |-> h[s]]
  BY DEF IsSum
<1>. QED BY <1>3, <1>4

\* A sum over the subsets of a set is one over those of a part of it.
LEMMA SumOfPart ==
  ASSUME NEW T, NEW f, NEW g, IsSum(g, T, f), NEW U \in SUBSET T
  PROVE  IsSum([s \in SUBSET U |-> g[s]], U, f)
<1>. DEFINE h == [s \in SUBSET U |-> g[s]]
<1>1. \A s \in SUBSET U : h[s] = IF s = {} THEN 0 ELSE f[AnyOf(s)] + h[s \ {AnyOf(s)}]
  <2>. SUFFICES ASSUME NEW s \in SUBSET U
                PROVE  h[s] = IF s = {} THEN 0 ELSE f[AnyOf(s)] + h[s \ {AnyOf(s)}]
    OBVIOUS
  <2>1. s \in SUBSET T /\ s \ {AnyOf(s)} \in SUBSET U
    OBVIOUS
  <2>2. g[s] = IF s = {} THEN 0 ELSE f[AnyOf(s)] + g[s \ {AnyOf(s)}]
    BY <2>1 DEF IsSum
  <2>. QED BY <2>1, <2>2
<1>2. h = [s \in SUBSET U |-> h[s]]
  OBVIOUS
<1>. HIDE DEF h
<1>3. h = [s \in SUBSET U |-> IF s = {} THEN 0 ELSE f[AnyOf(s)] + h[s \ {AnyOf(s)}]]
  BY <1>1, <1>2
<1>. QED BY <1>3 DEF IsSum, h

LEMMA SumExists ==
  ASSUME NEW S, IsFiniteSet(S), NEW f
  PROVE  \E g : IsSum(g, S, f)
<1>. DEFINE Bad == {T \in SUBSET S : ~ \E g : IsSum(g, T, f)}
<1>1. Bad = {}
  <2>. SUFFICES ASSUME Bad # {} PROVE FALSE
    OBVIOUS
  <2>1. PICK T \in Bad : \A U \in Bad : U \subseteq T => U = T
    <3>. HIDE DEF Bad
    <3>1. Bad \in SUBSET SUBSET S
      BY DEF Bad
    <3>. QED BY <3>1, SmallestOf
  <2>. DEFINE sum(U) == (CHOOSE g : IsSum(g, U, f))
              g == [s \in SUBSET T |-> IF s = {} THEN 0
                                       ELSE f[AnyOf(s)] + sum(s \ {AnyOf(s)})[s \ {AnyOf(s)}]]
  <2>2. \A U \in SUBSET T : U # T => IsSum(sum(U), U, f)
    <3>. SUFFICES ASSUME NEW U \in SUBSET T, U # T PROVE IsSum(sum(U), U, f)
      OBVIOUS
    <3>1. \E h : IsSum(h, U, f)
      BY <2>1
    <3>. HIDE DEF IsSum
    <3>. QED BY <3>1
  <2>3. IsFiniteSet(T) /\ \A U \in SUBSET T : IsFiniteSet(U)
    BY FS_Subset
  <2>. HIDE DEF sum
  <2>4. ASSUME NEW U \in SUBSET T, U # T, NEW W \in SUBSET U
        PROVE  sum(U)[W] = sum(W)[W]
    <3>. DEFINE h == [s \in SUBSET W |-> sum(U)[s]]
    <3>1. W \in SUBSET T /\ W # T
      BY <2>4
    <3>2. IsSum(sum(U), U, f) /\ IsSum(sum(W), W, f)
      BY <2>2, <2>4, <3>1
    <3>3. IsSum(h, W, f)
      BY <3>2, SumOfPart
    <3>4. h[W] = sum(U)[W]
      OBVIOUS
    <3>. HIDE DEF h
    <3>5. h = sum(W)
      BY <2>3, <3>1, <3>2, <3>3, SumUnique
    <3>. QED BY <3>4, <3>5
  <2>5. ASSUME NEW U \in SUBSET T, U # T PROVE g[U] = sum(U)[U]
    <3>. DEFINE W == U \ {AnyOf(U)}
    <3>1. sum(U)[U] = IF U = {} THEN 0 ELSE f[AnyOf(U)] + sum(U)[W]
      BY <2>2, <2>5 DEF IsSum
    <3>2. W \in SUBSET U
      OBVIOUS
    <3>3. g[U] = IF U = {} THEN 0 ELSE f[AnyOf(U)] + sum(W)[W]
      OBVIOUS
    <3>. HIDE DEF g, W
    <3>4. sum(U)[W] = sum(W)[W]
      BY <2>4, <2>5, <3>2
    <3>. QED BY <3>1, <3>3, <3>4
  <2>6. \A s \in SUBSET T : g[s] = IF s = {} THEN 0 ELSE f[AnyOf(s)] + g[s \ {AnyOf(s)}]
    <3>. SUFFICES ASSUME NEW s \in SUBSET T
                  PROVE  g[s] = IF s = {} THEN 0 ELSE f[AnyOf(s)] + g[s \ {AnyOf(s)}]
      OBVIOUS
    <3>. DEFINE W == s \ {AnyOf(s)}
    <3>1. g[s] = IF s = {} THEN 0 ELSE f[AnyOf(s)] + sum(W)[W]
      OBVIOUS
    <3>. HIDE DEF g
    <3>2. s # {} => W \in SUBSET T /\ W # T
      BY PickIs
    <3>. HIDE DEF W
    <3>3. s # {} => g[W] = sum(W)[W]
      BY <2>5, <3>2
    <3>. QED BY <3>1, <3>3 DEF W
  <2>7. g = [s \in SUBSET T |-> g[s]]
    OBVIOUS
  <2>. HIDE DEF g
  <2>8. g = [s \in SUBSET T |-> IF s = {} THEN 0 ELSE f[AnyOf(s)] + g[s \ {AnyOf(s)}]]
    BY <2>6, <2>7
  <2>. QED BY <2>8 DEF IsSum
<1>. QED BY <1>1

\* Any element may be taken first.
LEMMA SumInteger ==
  ASSUME NEW T, IsFiniteSet(T), NEW f, \A x \in T : f[x] \in Int, NEW g, IsSum(g, T, f)
  PROVE  \A s \in SUBSET T : g[s] \in Int
<1>1. /\ g[{}] = 0
      /\ \A s \in SUBSET T : s # {} => g[s] = f[AnyOf(s)] + g[s \ {AnyOf(s)}]
  BY DEF IsSum
<1>. DEFINE Bad == {s \in SUBSET T : g[s] \notin Int}
<1>2. Bad = {}
  <2>. SUFFICES ASSUME Bad # {} PROVE FALSE
    OBVIOUS
  <2>1. PICK s \in Bad : \A u \in Bad : u \subseteq s => u = s
    <3>. HIDE DEF Bad
    <3>1. Bad \in SUBSET SUBSET T
      BY DEF Bad
    <3>. QED BY <3>1, SmallestOf
  <2>2. s \in SUBSET T /\ g[s] \notin Int /\ \A u \in SUBSET T : u \subseteq s /\ u # s => g[u] \in Int
    BY <2>1
  <2>. HIDE DEF Bad
  <2>3. 0 \in Int
    OBVIOUS
  <2>4. s # {}
    BY <1>1, <2>2, <2>3
  <2>5. s \ {AnyOf(s)} \in SUBSET T /\ s \ {AnyOf(s)} # s /\ AnyOf(s) \in T
    BY <2>2, <2>4, PickIs
  <2>6. g[s \ {AnyOf(s)}] \in Int /\ f[AnyOf(s)] \in Int
    BY <2>2, <2>5
  <2>7. f[AnyOf(s)] + g[s \ {AnyOf(s)}] \in Int
    BY <2>6
  <2>. QED BY ONLY <1>1, <2>2, <2>4, <2>7
<1>. QED BY <1>2

\* Any element may be taken first.
LEMMA SumTakes ==
  ASSUME NEW T, IsFiniteSet(T), NEW f, \A x \in T : f[x] \in Int, NEW g, IsSum(g, T, f)
  PROVE  \A x \in T : g[T] = f[x] + g[T \ {x}]
<1>1. \A s \in SUBSET T : g[s] = IF s = {} THEN 0 ELSE f[AnyOf(s)] + g[s \ {AnyOf(s)}]
  BY DEF IsSum
<1>3. \A s \in SUBSET T : g[s] \in Int
  BY SumInteger
<1>. DEFINE Odd == {s \in SUBSET T : \E x \in s : g[s] # f[x] + g[s \ {x}]}
<1>4. Odd = {}
  <2>. SUFFICES ASSUME Odd # {} PROVE FALSE
    OBVIOUS
  <2>1. PICK s \in Odd : \A u \in Odd : u \subseteq s => u = s
    <3>. HIDE DEF Odd
    <3>1. Odd \in SUBSET SUBSET T
      BY DEF Odd
    <3>. QED BY <3>1, SmallestOf
  <2>2. PICK x \in s : g[s] # f[x] + g[s \ {x}]
    OBVIOUS
  <2>. DEFINE p == AnyOf(s)
  <2>3. p \in s /\ g[s] = f[p] + g[s \ {p}] /\ x # p
    BY <1>1, <2>2, PickIs
  <2>. HIDE DEF p
  <2>4. /\ s \ {p} \in SUBSET T /\ s \ {p} # s /\ x \in s \ {p}
        /\ s \ {x} \in SUBSET T /\ s \ {x} # s /\ p \in s \ {x}
    BY <2>2, <2>3
  <2>5. (s \ {p}) \ {x} = (s \ {x}) \ {p} /\ (s \ {p}) \ {x} \in SUBSET T
    OBVIOUS
  <2>6. g[s \ {p}] = f[x] + g[(s \ {p}) \ {x}] /\ g[s \ {x}] = f[p] + g[(s \ {x}) \ {p}]
    BY <2>1, <2>4
  <2>7. g[(s \ {p}) \ {x}] \in Int /\ f[x] \in Int /\ f[p] \in Int
    BY <1>3, <2>2, <2>3, <2>5
  <2>8. g[s] = f[x] + g[s \ {x}]
    <3>. DEFINE rest == g[(s \ {p}) \ {x}]
    <3>1. /\ g[s \ {p}] = f[x] + rest /\ g[s \ {x}] = f[p] + rest /\ rest \in Int
      BY <2>5, <2>6, <2>7
    <3>. HIDE DEF rest
    <3>. QED BY <2>3, <2>7, <3>1
  <2>. QED BY <2>2, <2>8
<1>5. T \in SUBSET T
  OBVIOUS
<1>. QED BY <1>4, <1>5

LEMMA SumNatural ==
  ASSUME NEW T, IsFiniteSet(T), NEW f \in [T -> Nat], NEW g, IsSum(g, T, f)
  PROVE  \A s \in SUBSET T : g[s] \in Nat
<1>1. \A s \in SUBSET T : g[s] = IF s = {} THEN 0 ELSE f[AnyOf(s)] + g[s \ {AnyOf(s)}]
  BY DEF IsSum
<1>. DEFINE Bad == {s \in SUBSET T : g[s] \notin Nat}
<1>2. Bad = {}
  <2>. SUFFICES ASSUME Bad # {} PROVE FALSE
    OBVIOUS
  <2>1. PICK s \in Bad : \A u \in Bad : u \subseteq s => u = s
    <3>. HIDE DEF Bad
    <3>1. Bad \in SUBSET SUBSET T
      BY DEF Bad
    <3>. QED BY <3>1, SmallestOf
  <2>2. s \in SUBSET T /\ g[s] \notin Nat
    OBVIOUS
  <2>. HIDE DEF Bad
  <2>3. {} \in SUBSET T /\ g[{}] = 0
    BY <1>1
  <2>4. s # {}
    BY <2>2, <2>3
  <2>5. s \ {AnyOf(s)} \in SUBSET T /\ s \ {AnyOf(s)} # s /\ AnyOf(s) \in T
    BY <2>2, <2>4, PickIs
  <2>6. g[s \ {AnyOf(s)}] \in Nat /\ f[AnyOf(s)] \in Nat
    BY <2>1, <2>5 DEF Bad
  <2>7. g[s] = f[AnyOf(s)] + g[s \ {AnyOf(s)}]
    BY <1>1, <2>2, <2>4
  <2>. QED BY <2>2, <2>6, <2>7
<1>. QED BY <1>2

LEMMA SumTakesPart ==
  ASSUME NEW T, IsFiniteSet(T), NEW f, \A x \in T : f[x] \in Int, NEW g, IsSum(g, T, f)
  PROVE  \A s \in SUBSET T : \A x \in s : g[s] = f[x] + g[s \ {x}]
<1>. SUFFICES ASSUME NEW s \in SUBSET T, NEW x \in s PROVE g[s] = f[x] + g[s \ {x}]
  OBVIOUS
<1>. DEFINE h == [u \in SUBSET s |-> g[u]]
<1>1. IsSum(h, s, f)
  BY SumOfPart
<1>2. IsFiniteSet(s) /\ \A y \in s : f[y] \in Int
  BY FS_Subset
<1>3. h[s] = f[x] + h[s \ {x}]
  <2>. HIDE DEF h
  <2>. QED BY <1>1, <1>2, SumTakes
<1>. QED BY <1>3

\* What the sum of one member more comes to.
LEMMA SumChanges ==
  ASSUME NEW T, IsFiniteSet(T), NEW x \in T, NEW f, NEW h,
         \A y \in T : f[y] \in Int /\ h[y] \in Int,
         \A y \in T \ {x} : f[y] = h[y],
         NEW F, IsSum(F, T, f), NEW H, IsSum(H, T, h)
  PROVE  F[T] \in Int /\ H[T] \in Int /\ H[T] - F[T] = h[x] - f[x]
<1>. DEFINE U == T \ {x}
            A == [s \in SUBSET U |-> F[s]]
            B == [s \in SUBSET U |-> H[s]]
<1>1. IsSum(A, U, f) /\ IsSum(B, U, h)
  BY SumOfPart
<1>2. IsSum(B, U, f)
  <2>. HIDE DEF B
  <2>1. \A s \in SUBSET U : s # {} => f[AnyOf(s)] = h[AnyOf(s)]
    BY PickIs
  <2>2. B = [s \in SUBSET U |-> IF s = {} THEN 0 ELSE h[AnyOf(s)] + B[s \ {AnyOf(s)}]]
    BY <1>1 DEF IsSum
  <2>. HIDE DEF U
  <2>3. [s \in SUBSET U |-> IF s = {} THEN 0 ELSE h[AnyOf(s)] + B[s \ {AnyOf(s)}]]
          = [s \in SUBSET U |-> IF s = {} THEN 0 ELSE f[AnyOf(s)] + B[s \ {AnyOf(s)}]]
    BY <2>1
  <2>. QED BY <2>2, <2>3 DEF IsSum
<1>3. A = B
  <2>1. IsFiniteSet(U)
    BY FS_Subset
  <2>. HIDE DEF A, B, U
  <2>. QED BY <1>1, <1>2, <2>1, SumUnique
<1>4. F[U] = H[U]
  <2>1. U \in SUBSET U /\ A[U] = F[U] /\ B[U] = H[U]
    OBVIOUS
  <2>. QED BY <1>3, <2>1
<1>5. F[T] = f[x] + F[U] /\ H[T] = h[x] + H[U]
  <2>1. T \in SUBSET T /\ x \in T
    OBVIOUS
  <2>. QED BY <2>1, SumTakes
<1>6. F[U] \in Int
  BY SumInteger
<1>. QED BY <1>4, <1>5, <1>6

\* A sum does not depend on what its places are called.
Renames(b, T, U, f, h) ==
    b \in Bijection(T, U) /\ \A x \in T : f[x] \in Int /\ h[b[x]] = f[x]
LEMMA SumRenamed ==
  ASSUME NEW T, IsFiniteSet(T), NEW U, NEW b, NEW f, NEW h, Renames(b, T, U, f, h),
         NEW F, IsSum(F, T, f), NEW H, IsSum(H, U, h)
  PROVE  F[T] = H[U] /\ F[T] \in Int
<1>0. /\ b \in [T -> U] /\ \A x \in T : f[x] \in Int /\ h[b[x]] = f[x]
      /\ \A x, y \in T : b[x] = b[y] => x = y
      /\ \A u \in U : \E x \in T : b[x] = u
  BY Fun_BijectionProperties DEF Renames
<1>. DEFINE Image(s) == {b[x] : x \in s}
            Bad == {s \in SUBSET T : F[s] # H[Image(s)]}
<1>1. IsFiniteSet(U)
  <2>1. b \in Surjection(T, U)
    BY Fun_BijectionProperties DEF Renames
  <2>. QED BY <2>1, FS_Surjection
<1>2. \A u \in U : h[u] \in Int
  BY <1>0
<1>3. \A s \in SUBSET T : F[s] \in Int
  BY <1>0, SumInteger
<1>. HIDE DEF Image, Bad
<1>4. ASSUME NEW s \in SUBSET T, NEW x \in s PROVE F[s] = f[x] + F[s \ {x}]
  <2>1. \A y \in T : f[y] \in Int
    BY <1>0
  <2>. QED BY <2>1, SumTakesPart, SMT
<1>5. ASSUME NEW v \in SUBSET U, NEW u \in v PROVE H[v] = h[u] + H[v \ {u}]
  BY <1>1, <1>2, SumTakesPart, SMT
<1>. USE DEF Image, Bad
<1>6. Bad = {}
  <2>. SUFFICES ASSUME Bad # {} PROVE FALSE
    OBVIOUS
  <2>1. PICK s \in Bad : \A u \in Bad : u \subseteq s => u = s
    <3>. HIDE DEF Bad
    <3>1. Bad \in SUBSET SUBSET T
      BY DEF Bad
    <3>. QED BY <3>1, SmallestOf
  <2>2. s \in SUBSET T /\ F[s] # H[Image(s)]
    OBVIOUS
  <2>3. F[{}] = 0 /\ H[{}] = 0
    <3>1. {} \in SUBSET T /\ {} \in SUBSET U
      OBVIOUS
    <3>. QED BY <3>1 DEF IsSum
  <2>4. s # {}
    <3>1. Image({}) = {}
      OBVIOUS
    <3>. QED BY <2>2, <2>3, <3>1
  <2>5. PICK x \in s : TRUE
    BY <2>4
  <2>. DEFINE r == s \ {x}
  <2>6. r \in SUBSET T /\ r # s /\ r \subseteq s
    BY <2>2, <2>5
  <2>7. F[r] = H[Image(r)]
    BY <2>1, <2>6
  <2>8. Image(s) \ {b[x]} = Image(r) /\ b[x] \in Image(s) /\ Image(s) \in SUBSET U
    BY <1>0, <2>2, <2>5
  <2>9. F[s] = f[x] + F[r]
    BY <1>4, <2>2, <2>5
  <2>10. H[Image(s)] = h[b[x]] + H[Image(s) \ {b[x]}]
    <3>. DEFINE V == Image(s)
    <3>1. V \in SUBSET U /\ b[x] \in V
      BY <2>8
    <3>. HIDE DEF V
    <3>2. H[V] = h[b[x]] + H[V \ {b[x]}]
      BY <1>5, <3>1
    <3>. QED BY <3>2 DEF V
  <2>. HIDE DEF Image, Bad, r
  <2>. QED BY <1>0, <2>2, <2>5, <2>7, <2>8, <2>9, <2>10
<1>7. Image(T) = U
  BY <1>0
<1>8. T \in SUBSET T
  OBVIOUS
<1>. HIDE DEF Image
<1>. QED BY <1>3, <1>6, <1>7, <1>8

-----------------------------------------------------------------------------
(* Lists in a strict order.                                                *)

Prior(S, R, x) == {y \in S : <<y, x>> \in R}
Asymmetric(S, R) == \A x, y \in S : ~(<<x, y>> \in R /\ <<y, x>> \in R)
ListedBy(s, n, S, R) ==
    s \in Bijection(1..n, S) /\ \A i, j \in 1..n : i < j => <<s[i], s[j]>> \in R

\* The place of a member tells how many come before it.
LEMMA SortedRank ==
  ASSUME NEW S, NEW R, Asymmetric(S, R), NEW n \in Nat, NEW s, ListedBy(s, n, S, R)
  PROVE  \A i \in 1..n : Cardinality(Prior(S, R, s[i])) = i - 1
<1>. SUFFICES ASSUME NEW i \in 1..n PROVE Cardinality(Prior(S, R, s[i])) = i - 1
  OBVIOUS
<1>1. /\ s \in [1..n -> S]
      /\ \A a, b \in 1..n : s[a] = s[b] => a = b
      /\ \A x \in S : \E a \in 1..n : s[a] = x
  BY Fun_BijectionProperties DEF ListedBy
<1>. DEFINE T == Prior(S, R, s[i])
            f == [j \in 1..i - 1 |-> s[j]]
<1>2. \A j \in 1..i - 1 : j \in 1..n /\ j < i /\ f[j] = s[j]
  OBVIOUS
<1>3. \A j \in 1..i - 1 : f[j] \in T
  BY <1>1, <1>2 DEF Prior, ListedBy
<1>4. \A y \in T : \E j \in 1..i - 1 : f[j] = y
  <2>. SUFFICES ASSUME NEW y \in T PROVE \E j \in 1..i - 1 : f[j] = y
    OBVIOUS
  <2>1. PICK a \in 1..n : s[a] = y
    BY <1>1 DEF Prior
  <2>2. ~(i <= a)
    <3>1. y \in S /\ s[i] \in S /\ <<y, s[i]>> \in R
      BY <1>1 DEF Prior
    <3>2. a # i /\ ~(i < a)
      BY <2>1, <3>1 DEF Asymmetric, ListedBy
    <3>. QED BY <3>2
  <2>3. a \in 1..i - 1
    BY <2>2
  <2>. QED BY <1>2, <2>1, <2>3
<1>5. f \in Bijection(1..i - 1, T)
  <2>. HIDE DEF T
  <2>1. f \in [1..i - 1 -> T]
    BY <1>3
  <2>2. \A a, b \in 1..i - 1 : f[a] = f[b] => a = b
    BY <1>1, <1>2
  <2>3. IsInjective(f)
    BY <2>1, <2>2 DEF IsInjective
  <2>. HIDE DEF f
  <2>. QED BY <1>4, <2>1, <2>3 DEF Bijection, Injection, Surjection
<1>. HIDE DEF T, f
<1>6. i - 1 \in Nat /\ ExistsBijection(1..i - 1, T)
  BY <1>5 DEF ExistsBijection
<1>7. Cardinality(T) = i - 1
  BY <1>6, FS_CountingElements
<1>. QED BY <1>7 DEF T

\* A set can be listed in a strict order in one way.
LEMMA SortedOnce ==
  ASSUME NEW S, NEW R, Asymmetric(S, R), NEW n \in Nat, NEW s, ListedBy(s, n, S, R),
         NEW m \in Nat, NEW t, ListedBy(t, m, S, R)
  PROVE  n = m /\ s = t
<1>1. n = m
  <2>1. ExistsBijection(1..n, S) /\ ExistsBijection(1..m, S)
    BY DEF ExistsBijection, ListedBy
  <2>. QED BY <2>1, FS_CountingElements
<1>2. \A i \in 1..n : Cardinality(Prior(S, R, s[i])) = i - 1
  BY SortedRank
<1>3. \A i \in 1..m : Cardinality(Prior(S, R, t[i])) = i - 1
  BY SortedRank
<1>4. /\ s \in [1..n -> S] /\ t \in [1..m -> S]
      /\ \A x \in S : \E a \in 1..n : s[a] = x
  BY Fun_BijectionProperties DEF ListedBy
<1>5. ASSUME NEW i \in 1..n PROVE s[i] = t[i]
  <2>1. t[i] \in S /\ i \in 1..m
    BY <1>1, <1>4
  <2>2. PICK a \in 1..n : s[a] = t[i]
    BY <1>4, <2>1
  <2>3. a - 1 = i - 1
    BY <1>2, <1>3, <2>1, <2>2
  <2>. QED BY <2>2, <2>3
<1>. QED BY <1>1, <1>4, <1>5

\* Two lists of a set that leave none after one it outranks have, at each place,
\* entries of which neither outranks the other.
WeakOrder(S, R) ==
  /\ \A x \in S : <<x, x>> \notin R
  /\ \A x, y, z \in S : <<x, y>> \notin R /\ <<y, z>> \notin R => <<x, z>> \notin R
RankedBy(s, n, S, R) ==
  /\ s \in [1..n -> S] /\ \A i, j \in 1..n : s[i] = s[j] => i = j
  /\ \A i, j \in 1..n : i < j => <<s[j], s[i]>> \notin R

LEMMA RankedAlike ==
  ASSUME NEW n \in Nat, NEW S, IsFiniteSet(S), Cardinality(S) = n, NEW R, WeakOrder(S, R),
         NEW s, RankedBy(s, n, S, R), NEW t, RankedBy(t, n, S, R), NEW i \in 1..n
  PROVE  <<s[i], t[i]>> \notin R
<1>. SUFFICES ASSUME <<s[i], t[i]>> \in R PROVE FALSE
  OBVIOUS
<1>. DEFINE f == [k \in 1..n + 1 |-> IF k <= i THEN s[k] ELSE t[k - 1]]
<1>1. f \in [1..n + 1 -> S]
  BY DEF RankedBy
<1>2. ASSUME NEW a \in 1..i, NEW b \in i..n PROVE s[a] # t[b]
  <2>1. a \in 1..n /\ b \in 1..n /\ s[a] \in S /\ t[b] \in S /\ s[i] \in S /\ t[i] \in S
    BY DEF RankedBy
  <2>2. <<s[i], s[a]>> \notin R
    BY <2>1 DEF RankedBy, WeakOrder
  <2>3. <<t[b], t[i]>> \notin R
    BY <2>1 DEF RankedBy, WeakOrder
  <2>. QED BY <2>1, <2>2, <2>3 DEF WeakOrder
<1>3. ASSUME NEW a \in 1..n + 1, NEW b \in 1..n + 1, a < b PROVE f[a] # f[b]
  <2>1. CASE b <= i
    BY <1>3, <2>1 DEF RankedBy
  <2>2. CASE a <= i /\ b > i
    <3>1. a \in 1..i /\ b - 1 \in i..n /\ f[a] = s[a] /\ f[b] = t[b - 1]
      BY <2>2
    <3>. QED BY <1>2, <3>1
  <2>3. CASE a > i
    <3>1. a - 1 \in 1..n /\ b - 1 \in 1..n /\ f[a] = t[a - 1] /\ f[b] = t[b - 1] /\ a - 1 # b - 1
      BY <1>3, <2>3
    <3>. QED BY <3>1 DEF RankedBy
  <2>. QED BY <2>1, <2>2, <2>3
<1>. HIDE DEF f
<1>4. IsFiniteSet(1..n + 1) /\ Cardinality(1..n + 1) = n + 1
  BY FS_Interval
<1>5. PICK x \in 1..n + 1, y \in 1..n + 1 : x # y /\ f[x] = f[y]
  <2>1. n < n + 1
    OBVIOUS
  <2>. DEFINE D == 1..n + 1
  <2>2. IsFiniteSet(D) /\ Cardinality(S) < Cardinality(D) /\ f \in [D -> S]
    BY <1>1, <1>4, <2>1
  <2>. HIDE DEF D
  <2>3. \E x, y \in D : x # y /\ f[x] = f[y]
    BY <2>2, FS_PigeonHole
  <2>. QED BY <2>3 DEF D
<1>. QED BY <1>3, <1>5

=============================================================================
