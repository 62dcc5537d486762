------------------------- MODULE SeriesCache_proofs -------------------------
(***************************************************************************)
(* Theorems about SeriesCache, for every job, every size of the tables and *)
(* every bound of the behaviour.                                           *)
(***************************************************************************)
EXTENDS SeriesCache, FiniteSetTheorems, TLAPS

-----------------------------------------------------------------------------
(* One touch of the LRU table.                                             *)

LEMMA KeepBounds == Keep \in 1..MaxSeries
BY LimitsAssumption DEF Keep

\* A touch appends a new key and moves a known one to the end; the others keep
\* their order.
LEMMA TouchKnown ==
  ASSUME lru \in Seq(Keys), IsInjective(lru), NEW k \in Range(lru)
  PROVE  /\ Position(k) \in 1..Len(lru) /\ lru[Position(k)] = k
         /\ Touched(k) \in Seq(Keys) /\ Len(Touched(k)) = Len(lru)
         /\ Touched(k) = [i \in 1..Len(lru) |-> IF i < Position(k) THEN lru[i]
                             ELSE IF i < Len(lru) THEN lru[i + 1] ELSE k]
<1>. DEFINE p == Position(k)  n == Len(lru)
<1>1. \E i \in DOMAIN lru : lru[i] = k
  BY DEF Range
<1>2. p \in DOMAIN lru /\ lru[p] = k
  BY <1>1 DEF Position
<1>3. DOMAIN lru = 1..n /\ n \in Nat /\ \A i \in 1..n : lru[i] \in Keys
  OBVIOUS
<1>4. Touched(k) = [i \in 1..n |-> IF i < p THEN lru[i]
                                 ELSE IF i < n THEN lru[i + 1] ELSE k]
  BY <1>3 DEF Touched
<1>5. \A i \in 1..n : (IF i < p THEN lru[i]
                       ELSE IF i < n THEN lru[i + 1] ELSE k) \in Keys
  BY <1>2, <1>3
<1>6. Touched(k) \in [1..n -> Keys]
  BY <1>4, <1>5
<1>7. Touched(k) \in Seq(Keys) /\ Len(Touched(k)) = n
  BY <1>3, <1>6
<1>. QED BY <1>2, <1>3, <1>4, <1>7

LEMMA TouchNew ==
  ASSUME lru \in Seq(Keys), NEW k \in Keys, k \notin Range(lru)
  PROVE  /\ Touched(k) \in Seq(Keys) /\ Len(Touched(k)) = Len(lru) + 1
         /\ Touched(k)[Len(lru) + 1] = k
         /\ \A i \in 1..Len(lru) : Touched(k)[i] = lru[i]
BY DEF Touched

\* What the two cases have in common: the table stays one without repetition,
\* gains the key, and has it at its end.
LEMMA TouchShape ==
  ASSUME lru \in Seq(Keys), IsInjective(lru), NEW k \in Keys
  PROVE  LET s == Touched(k)
         IN  /\ s \in Seq(Keys) /\ Len(s) \in Nat \ {0}
             /\ IsInjective(s)
             /\ Range(s) = Range(lru) \cup {k}
             /\ s[Len(s)] = k
<1>. DEFINE s == Touched(k)  n == Len(lru)  p == Position(k)
<1>0. n \in Nat /\ DOMAIN lru = 1..n /\ Range(lru) = {lru[i] : i \in 1..n}
  BY DEF Range
<1>1. CASE k \in Range(lru)
  <2>1. /\ p \in 1..n /\ lru[p] = k
        /\ s \in Seq(Keys) /\ Len(s) = n /\ DOMAIN s = 1..n
        /\ \A i \in 1..n : s[i] = IF i < p THEN lru[i]
                                  ELSE IF i < n THEN lru[i + 1] ELSE k
    BY <1>1, TouchKnown
  <2>. HIDE DEF s, p, n
  <2>2. \A a, b \in 1..n : lru[a] = lru[b] => a = b
    BY <1>0 DEF IsInjective
  <2>3. ASSUME NEW a \in 1..n, NEW b \in 1..n, s[a] = s[b]
        PROVE  a = b
    BY <1>0, <2>1, <2>2, <2>3
  <2>4. IsInjective(s)
    BY <2>1, <2>3 DEF IsInjective
  <2>5. Range(s) = {s[i] : i \in 1..n}
    BY <2>1 DEF Range
  <2>6. \A i \in 1..n : s[i] \in Range(lru)
    BY <1>0, <1>1, <2>1
  <2>7. ASSUME NEW i \in 1..n
        PROVE  \E j \in 1..n : s[j] = lru[i]
    <3>1. CASE i < p
      BY <1>0, <2>1, <3>1
    <3>2. CASE i = p
      <4>1. s[n] = k /\ n \in 1..n
        BY <1>0, <2>1
      <4>. QED BY <2>1, <3>2, <4>1
    <3>3. CASE i > p
      <4>1. i - 1 \in 1..n /\ ~(i - 1 < p) /\ i - 1 < n /\ (i - 1) + 1 = i
        BY <1>0, <2>1, <3>3
      <4>2. s[i - 1] = lru[i]
        BY <2>1, <4>1
      <4>. QED BY <4>1, <4>2
    <3>. QED BY <1>0, <2>1, <3>1, <3>2, <3>3
  <2>8. Range(s) = Range(lru)
    BY <1>0, <2>5, <2>6, <2>7
  <2>9. s[n] = k
    BY <1>0, <2>1
  <2>. QED BY <1>0, <1>1, <2>1, <2>4, <2>8, <2>9 DEF s
<1>2. CASE k \notin Range(lru)
  <2>1. /\ s \in Seq(Keys) /\ Len(s) = n + 1 /\ DOMAIN s = 1..(n + 1)
        /\ s[n + 1] = k /\ \A i \in 1..n : s[i] = lru[i]
    BY <1>2, TouchNew
  <2>. HIDE DEF s, n
  <2>2. \A a, b \in 1..n : lru[a] = lru[b] => a = b
    BY <1>0 DEF IsInjective
  <2>3. \A a \in 1..n : lru[a] # k
    BY <1>0, <1>2
  <2>4. IsInjective(s)
    BY <1>0, <2>1, <2>2, <2>3 DEF IsInjective
  <2>5. Range(s) = {s[i] : i \in 1..(n + 1)}
    BY <2>1 DEF Range
  <2>6. \A i \in 1..(n + 1) : s[i] \in Range(lru) \cup {k}
    BY <1>0, <2>1
  <2>7. \A x \in Range(lru) \cup {k} : \E i \in 1..(n + 1) : s[i] = x
    BY <1>0, <2>1
  <2>8. Range(s) = Range(lru) \cup {k}
    BY <2>5, <2>6, <2>7
  <2>. QED BY <1>0, <2>1, <2>4, <2>8 DEF s
<1>. QED BY <1>1, <1>2

\* An eviction leaves the end of the table, and the key just touched in it.
LEMMA EvictShape ==
  ASSUME lru \in Seq(Keys), IsInjective(lru), Len(lru) <= MaxSeries,
         NEW k \in Keys
  PROVE  LET s == Touched(k)
             r == AfterTouch(k)
         IN  /\ r \in Seq(Keys) /\ Len(r) \in 1..MaxSeries
             /\ Len(s) - Len(r) \in Nat
             /\ k \in Range(lru) => r = s
             /\ \A i \in 1..Len(r) : r[i] = s[i + (Len(s) - Len(r))]
<1>. DEFINE s == Touched(k)  r == AfterTouch(k)
<1>1. s \in Seq(Keys) /\ Len(s) \in Nat \ {0}
  BY TouchShape
<1>2. MaxSeries \in Nat /\ Keep \in 1..MaxSeries
  BY KeepBounds, LimitsAssumption
<1>3. CASE k \notin Range(lru) /\ Len(s) > MaxSeries
  <2>1. r = SubSeq(s, Len(s) - Keep + 1, Len(s))
    BY <1>3 DEF AfterTouch
  <2>. HIDE DEF s, r
  <2>2. /\ Len(s) - Keep + 1 \in 1..Len(s) /\ Len(s) \in 1..Len(s)
    BY <1>1, <1>2, <1>3
  <2>3. r \in Seq(Keys) /\ Len(r) = Keep
    BY <1>1, <1>2, <2>1, <2>2
  <2>4. \A i \in 1..Keep : r[i] = s[i + (Len(s) - Keep)]
    BY <1>1, <1>2, <2>1, <2>2
  <2>. QED BY <1>1, <1>2, <1>3, <2>3, <2>4 DEF s, r
<1>4. CASE k \notin Range(lru) /\ Len(s) <= MaxSeries
  <2>1. r = s
    BY <1>1, <1>2, <1>4 DEF AfterTouch
  <2>. HIDE DEF s, r
  <2>. QED BY <1>1, <1>2, <1>4, <2>1 DEF s, r
<1>5. CASE k \in Range(lru)
  <2>1. r = s /\ Len(s) <= MaxSeries
    BY <1>5, TouchKnown DEF AfterTouch
  <2>. HIDE DEF s, r
  <2>. QED BY <1>1, <1>2, <2>1 DEF s, r
<1>. QED BY <1>1, <1>2, <1>3, <1>4, <1>5

\* As sets of keys: what is dropped was there, and the key touched is not
\* dropped.
LEMMA AfterShape ==
  ASSUME lru \in Seq(Keys), IsInjective(lru), Len(lru) <= MaxSeries,
         NEW k \in Keys
  PROVE  /\ IsInjective(AfterTouch(k))
         /\ Range(AfterTouch(k)) = (Range(lru) \ Dropped(k)) \cup {k}
         /\ k \notin Dropped(k) /\ Dropped(k) \subseteq Range(lru)
         /\ k \in Range(lru) => Dropped(k) = {}
<1>. DEFINE s == Touched(k)  r == AfterTouch(k)  off == Len(s) - Len(r)
<1>1. /\ s \in Seq(Keys) /\ Len(s) \in Nat \ {0}
      /\ IsInjective(s) /\ Range(s) = Range(lru) \cup {k} /\ s[Len(s)] = k
  BY TouchShape
<1>2. /\ r \in Seq(Keys) /\ Len(r) \in 1..MaxSeries /\ off \in Nat
      /\ k \in Range(lru) => r = s
      /\ \A i \in 1..Len(r) : r[i] = s[i + off]
  BY EvictShape
<1>3. Dropped(k) = Range(s) \ Range(r)
  BY DEF Dropped
<1>. HIDE DEF s, r
<1>4. MaxSeries \in Nat /\ DOMAIN s = 1..Len(s) /\ DOMAIN r = 1..Len(r)
  BY <1>1, <1>2, LimitsAssumption
<1>5. \A i \in 1..Len(r) : i + off \in 1..Len(s)
  BY <1>1, <1>2, <1>4
<1>6. IsInjective(r)
  <2>1. ASSUME NEW a \in 1..Len(r), NEW b \in 1..Len(r), r[a] = r[b]
        PROVE  a = b
    <3>1. s[a + off] = s[b + off] /\ a + off \in DOMAIN s /\ b + off \in DOMAIN s
      BY <1>2, <1>4, <1>5, <2>1
    <3>2. a + off = b + off
      BY <1>1, <3>1 DEF IsInjective
    <3>. QED BY <1>2, <3>2
  <2>. QED BY <1>4, <2>1 DEF IsInjective
<1>7. Range(r) \subseteq Range(s)
  BY <1>2, <1>4, <1>5 DEF Range
<1>8. k \in Range(r)
  <2>1. Len(r) \in DOMAIN r /\ Len(r) + off = Len(s)
    BY <1>1, <1>2, <1>4
  <2>2. r[Len(r)] = k
    BY <1>1, <1>2, <1>4, <2>1
  <2>. QED BY <2>1, <2>2 DEF Range
<1>. QED BY <1>1, <1>2, <1>3, <1>6, <1>7, <1>8 DEF s, r

\* Two keys in the table after a touch, the younger not the one touched, were
\* there in the same order.
LEMMA TouchOrder ==
  ASSUME lru \in Seq(Keys), IsInjective(lru), NEW k \in Keys,
         NEW i \in Nat, NEW j \in Nat,
         0 < i, i < j, j <= Len(Touched(k)), Touched(k)[j] # k
  PROVE  \E a, b \in DOMAIN lru :
           a < b /\ lru[a] = Touched(k)[i] /\ lru[b] = Touched(k)[j]
<1>. DEFINE s == Touched(k)  n == Len(lru)  p == Position(k)
<1>0. n \in Nat /\ DOMAIN lru = 1..n
  OBVIOUS
<1>1. s[Len(s)] = k
  BY TouchShape
<1>2. CASE k \in Range(lru)
  <2>1. /\ p \in 1..n /\ Len(s) = n
        /\ \A m \in 1..n : s[m] = IF m < p THEN lru[m]
                                  ELSE IF m < n THEN lru[m + 1] ELSE k
    BY <1>2, TouchKnown
  <2>. HIDE DEF s, p, n
  <2>2. s[j] # k
    BY DEF s
  <2>3. i \in 1..n /\ j \in 1..n /\ j < n
    BY <1>0, <1>1, <2>1, <2>2 DEF s
  <2>. DEFINE At(m) == IF m < p THEN m ELSE m + 1
  <2>4. At(i) \in 1..n /\ At(j) \in 1..n /\ At(i) < At(j)
    BY <1>0, <2>1, <2>3
  <2>5. lru[At(i)] = s[i] /\ lru[At(j)] = s[j]
    BY <1>0, <2>1, <2>3
  <2>. QED BY <1>0, <2>4, <2>5 DEF s
<1>3. CASE k \notin Range(lru)
  <2>1. Len(s) = n + 1 /\ \A m \in 1..n : s[m] = lru[m]
    BY <1>3, TouchNew
  <2>. HIDE DEF s, n
  <2>2. i \in 1..n /\ j \in 1..n
    BY <1>0, <1>1, <2>1 DEF s
  <2>. QED BY <1>0, <2>1, <2>2 DEF s
<1>. QED BY <1>2, <1>3

-----------------------------------------------------------------------------
(* The inductive invariant.                                                *)

\* The table of ticks has no repetition and is within its limit, and it is the
\* table of the models.
Table ==
  /\ lru \in Seq(Keys) /\ IsInjective(lru) /\ Len(lru) <= MaxSeries
  /\ models = Range(lru)

\* So is what a restart brings back.
SavedFits ==
  /\ saved \subseteq Keys /\ IsFiniteSet(saved) /\ Cardinality(saved) <= MaxSeries

Sighted ==
  /\ DOMAIN lastSeen \subseteq models
  /\ bucket \in Nat
  /\ \A k \in DOMAIN lastSeen : lastSeen[k] \in Nat /\ lastSeen[k] <= bucket

\* A key with an older tick was not sighted in a later bucket.
Recency ==
  \A i, j \in DOMAIN lru : i < j => Seen(lru[i]) <= Seen(lru[j])

Control ==
  /\ det \in 0..NumDetectors
  /\ data \in Buckets \cup {NoData}
  /\ todo \subseteq Series /\ (det = 0 => todo = {})
  /\ known \in [Ids -> SUBSET Series]

\* A series that a count knows has a model, but for those that the loop under
\* the same id has still to score.
KnownOrDue ==
  \A id \in Ids : \A s \in known[id] :
    <<id, s>> \in models \/ (det # 0 /\ id = Id[det] /\ s \in todo)

IInv == Table /\ SavedFits /\ Sighted /\ Recency /\ Control /\ KnownOrDue

-----------------------------------------------------------------------------
(* The initial states, and the steps that leave the cache alone.           *)

LEMMA JobFacts ==
  /\ NumDetectors \in Nat \ {0} /\ MaxSeries \in Nat
  /\ \A d \in Detector : Id[d] \in Ids
  /\ \A points \in Buckets \cup {NoData}, d \in Detector :
       points[d] \subseteq Series /\ IsFiniteSet(points[d])
<1>1. \A points \in Buckets, d \in Detector :
        points[d] \subseteq Series /\ IsFiniteSet(points[d])
  BY JobAssumption DEF Series
<1>2. \A d \in Detector : NoData[d] \subseteq Series /\ IsFiniteSet(NoData[d])
  BY FS_EmptySet DEF NoData
<1>. QED BY <1>1, <1>2, JobAssumption, LimitsAssumption DEF Ids, Range

LEMMA IInvInit == Init => IInv
<1>. SUFFICES ASSUME Init
              PROVE  IInv
  OBVIOUS
<1>1. lru = <<>> /\ DOMAIN lru = {} /\ lastSeen = <<>> /\ DOMAIN lastSeen = {}
  BY DEF Init
<1>2. Table
  BY <1>1, JobFacts DEF Init, Table, IsInjective, Range
<1>3. SavedFits
  BY FS_EmptySet, JobFacts DEF Init, SavedFits
<1>4. Sighted /\ Recency
  BY <1>1 DEF Init, Sighted, Recency
<1>5. Control /\ KnownOrDue
  BY JobFacts DEF Init, Control, KnownOrDue
<1>. QED BY <1>2, <1>3, <1>4, <1>5 DEF IInv

\* Steps that change none of the tables with a tick or a model.
LEMMA TablesKept ==
  ASSUME IInv, UNCHANGED <<lru, models, lastSeen>>, bucket' \in Nat, bucket <= bucket'
  PROVE  Table' /\ Sighted' /\ Recency'
<1>1. Table'
  BY DEF IInv, Table
<1>2. \A x : Seen(x)' = Seen(x)
  BY DEF Seen
<1>3. Recency'
  BY <1>2 DEF IInv, Recency
<1>4. Sighted'
  BY DEF IInv, Sighted
<1>. QED BY <1>1, <1>3, <1>4

\* A detector begins when none has anything left to score.
LEMMA EnterKept ==
  ASSUME IInv, todo = {}, NEW d \in Detector, NEW points \in Buckets \cup {NoData},
         data' = points, models' = models, Enter(d, points)
  PROVE  Control' /\ KnownOrDue'
<1>1. /\ d # 0 /\ d \in 0..NumDetectors /\ det' = d
      /\ points[d] \subseteq Series /\ Id[d] \in Ids
  BY JobFacts DEF Enter, Detector
<1>2. known \in [Ids -> SUBSET Series]
  BY DEF IInv, Control
<1>3. \A id \in Ids : \A s \in known[id] : <<id, s>> \in models
  BY DEF IInv, KnownOrDue
<1>4. CASE d \in CountFamily
  <2>1. PICK K \in Learned(Id[d], points[d]) :
          /\ known' = [known EXCEPT ![Id[d]] = K]
          /\ todo' = points[d] \cup K
    BY <1>4 DEF Enter
  <2>2. K \subseteq known[Id[d]] \cup points[d]
    BY DEF Learned
  <2>3. K \subseteq Series
    BY <1>1, <1>2, <2>2
  <2>4. Control'
    BY <1>1, <1>2, <2>1, <2>3 DEF Control
  <2>5. ASSUME NEW id \in Ids, NEW s \in known'[id]
        PROVE  <<id, s>> \in models \/ (id = Id[d] /\ s \in todo')
    BY <1>2, <1>3, <2>1, <2>5
  <2>. QED BY <1>1, <2>4, <2>5 DEF KnownOrDue
<1>5. CASE d \notin CountFamily
  <2>1. todo' = points[d] /\ known' = known
    BY <1>5 DEF Enter
  <2>2. Control'
    BY <1>1, <1>2, <2>1 DEF Control
  <2>3. KnownOrDue'
    BY <1>3, <2>1 DEF KnownOrDue
  <2>. QED BY <2>2, <2>3
<1>. QED BY <1>4, <1>5

-----------------------------------------------------------------------------
(* Scoring a series.                                                       *)

LEMMA ScoreKey ==
  ASSUME IInv, NEW s, Score(s)
  PROVE  <<Id[det], s>> \in Keys /\ Id[det] \in Ids /\ det # 0
<1>1. s \in todo /\ det \in 0..NumDetectors /\ todo \subseteq Series /\ det # 0
  BY DEF IInv, Control, Score
<1>2. det \in Detector
  BY <1>1, JobFacts DEF Detector
<1>. QED BY <1>1, <1>2, JobFacts DEF Keys

LEMMA ScoreTable ==
  ASSUME IInv, NEW s, Score(s)
  PROVE  Table'
<1>. DEFINE k == <<Id[det], s>>
<1>1. k \in Keys
  BY ScoreKey
<1>2. lru \in Seq(Keys) /\ IsInjective(lru) /\ Len(lru) <= MaxSeries /\ models = Range(lru)
  BY DEF IInv, Table
<1>3. lru' = AfterTouch(k) /\ models' = (models \ Dropped(k)) \cup {k}
  BY DEF Score
<1>. HIDE DEF k
<1>4. AfterTouch(k) \in Seq(Keys) /\ Len(AfterTouch(k)) \in 1..MaxSeries
  BY <1>1, <1>2, EvictShape
<1>5. IsInjective(AfterTouch(k)) /\ models' = Range(AfterTouch(k))
  BY <1>1, <1>2, <1>3, AfterShape
<1>6. Len(AfterTouch(k)) <= MaxSeries
  BY <1>4, JobFacts
<1>. QED BY <1>3, <1>4, <1>5, <1>6 DEF Table

LEMMA ScoreSighted ==
  ASSUME IInv, NEW s, Score(s)
  PROVE  Sighted'
<1>. DEFINE k == <<Id[det], s>>
<1>1. k \in Keys
  BY ScoreKey
<1>2. Sighted /\ lru \in Seq(Keys) /\ IsInjective(lru) /\ Len(lru) <= MaxSeries
  BY DEF IInv, Table
<1>3. /\ models' = (models \ Dropped(k)) \cup {k} /\ bucket' = bucket
      /\ lastSeen' = SeenAfter(k)
  BY DEF Score
<1>. HIDE DEF k
<1>4. lastSeen' = [j \in (DOMAIN lastSeen \cup {k}) \ Dropped(k) |->
                     IF j = k THEN bucket ELSE lastSeen[j]]
  BY <1>3 DEF SeenAfter
<1>. QED BY <1>2, <1>3, <1>4 DEF Sighted

\* What a key that stays was last seen in, after the step.
LEMMA SeenNext ==
  ASSUME IInv, NEW s, Score(s), NEW x, x \notin Dropped(<<Id[det], s>>)
  PROVE  Seen(x)' = IF x = <<Id[det], s>> THEN bucket ELSE Seen(x)
<1>. DEFINE k == <<Id[det], s>>
<1>1. lastSeen' = SeenAfter(k)
  BY DEF Score
<1>. HIDE DEF k
<1>2. lastSeen' = [j \in (DOMAIN lastSeen \cup {k}) \ Dropped(k) |->
                     IF j = k THEN bucket ELSE lastSeen[j]]
  BY <1>1 DEF SeenAfter
<1>3. x \notin Dropped(k)
  BY DEF k
<1>4. Seen(x)' = IF x = k THEN bucket ELSE Seen(x)
  BY <1>2, <1>3 DEF Seen
<1>. QED BY <1>4 DEF k

LEMMA SeenBounded ==
  ASSUME Sighted, NEW x
  PROVE  Seen(x) \in Nat /\ Seen(x) <= bucket
BY DEF Sighted, Seen

LEMMA ScoreRecency ==
  ASSUME IInv, NEW s, Score(s)
  PROVE  Recency'
<1>. DEFINE k == <<Id[det], s>>
            t == Touched(k)  r == AfterTouch(k)  off == Len(t) - Len(r)
<1>1. k \in Keys
  BY ScoreKey
<1>2. /\ lru \in Seq(Keys) /\ IsInjective(lru) /\ Len(lru) <= MaxSeries
      /\ Sighted /\ Recency
  BY DEF IInv, Table
<1>3. lru' = r
  BY DEF Score
<1>4. \A x : x \notin Dropped(k) => Seen(x)' = IF x = k THEN bucket ELSE Seen(x)
  BY SeenNext
<1>. HIDE DEF k
<1>5. /\ t \in Seq(Keys) /\ Len(t) \in Nat \ {0} /\ IsInjective(t) /\ t[Len(t)] = k
  BY <1>1, <1>2, TouchShape
<1>6. /\ r \in Seq(Keys) /\ Len(r) \in 1..MaxSeries /\ off \in Nat
      /\ \A i \in 1..Len(r) : r[i] = t[i + off]
  BY <1>1, <1>2, EvictShape
<1>7. Range(r) = (Range(lru) \ Dropped(k)) \cup {k} /\ k \notin Dropped(k)
  BY <1>1, <1>2, AfterShape
<1>8. \A i, j \in Nat : 0 < i /\ i < j /\ j <= Len(t) /\ t[j] # k =>
        \E a, b \in DOMAIN lru : a < b /\ lru[a] = t[i] /\ lru[b] = t[j]
  BY <1>1, <1>2, TouchOrder
<1>9. \A x : Seen(x) \in Nat /\ Seen(x) <= bucket
  BY <1>2, SeenBounded
<1>10. bucket \in Nat
  BY <1>2 DEF Sighted
<1>. HIDE DEF t, r
<1>11. ASSUME NEW i \in 1..Len(r), NEW j \in 1..Len(r), i < j,
              NEW x, NEW y, x = r[i], y = r[j]
       PROVE  Seen(x)' <= Seen(y)'
  <2>1. x \notin Dropped(k) /\ y \notin Dropped(k)
    <3>1. DOMAIN r = 1..Len(r)
      BY <1>6
    <3>2. x \in Range(r) /\ y \in Range(r)
      BY <1>11, <3>1 DEF Range
    <3>. QED BY <1>7, <3>2
  <2>2. /\ i + off \in Nat /\ j + off \in Nat /\ 0 < i + off /\ i + off < j + off
        /\ j + off <= Len(t) /\ x = t[i + off] /\ y = t[j + off]
    BY <1>5, <1>6, <1>11
  <2>3. x # k
    <3>1. i + off \in DOMAIN t /\ Len(t) \in DOMAIN t /\ i + off # Len(t)
      BY <1>5, <2>2
    <3>. QED BY <1>5, <2>2, <3>1 DEF IsInjective
  <2>4. Seen(x)' = Seen(x) /\ Seen(y)' = IF y = k THEN bucket ELSE Seen(y)
    BY <1>4, <2>1, <2>3
  <2>5. CASE y = k
    BY <1>9, <2>4, <2>5
  <2>6. CASE y # k
    <3>1. PICK a \in DOMAIN lru, b \in DOMAIN lru :
            a < b /\ lru[a] = x /\ lru[b] = y
      BY <1>8, <2>2, <2>6
    <3>2. Seen(lru[a]) <= Seen(lru[b])
      BY <1>2, <3>1 DEF Recency
    <3>. QED BY <2>4, <2>6, <3>1, <3>2
  <2>. QED BY <2>5, <2>6
<1>12. DOMAIN lru' = 1..Len(r)
  BY <1>3, <1>6
<1>13. \A i, j \in 1..Len(r) : \A x, y :
         i < j /\ x = r[i] /\ y = r[j] => Seen(x)' <= Seen(y)'
  BY <1>11
<1>. QED BY <1>3, <1>12, <1>13 DEF Recency, Seen

LEMMA ScoreKnown ==
  ASSUME IInv, NEW s, Score(s)
  PROVE  Control' /\ KnownOrDue'
<1>. DEFINE k == <<Id[det], s>>
<1>1. /\ todo' = todo \ {s} /\ det' = det /\ data' = data
      /\ models' = (models \ Dropped(k)) \cup {k} /\ known' = KnownAfter(k)
  BY DEF Score
<1>2. Control /\ KnownOrDue
  BY DEF IInv
<1>3. known' = [id \in Ids |-> {x \in known[id] : <<id, x>> \notin Dropped(k)}]
  BY <1>1 DEF KnownAfter
<1>4. Control'
  BY <1>1, <1>2, <1>3 DEF Control
<1>5. ASSUME NEW id \in Ids, NEW x \in known'[id]
      PROVE  <<id, x>> \in models' \/ (det' # 0 /\ id = Id[det'] /\ x \in todo')
  <2>1. x \in known[id] /\ <<id, x>> \notin Dropped(k)
    BY <1>3
  <2>2. <<id, x>> \in models \/ (det # 0 /\ id = Id[det] /\ x \in todo)
    BY <1>2, <2>1 DEF KnownOrDue
  <2>. QED BY <1>1, <2>1, <2>2
<1>. QED BY <1>4, <1>5 DEF KnownOrDue

-----------------------------------------------------------------------------
(* The snapshot.                                                           *)

LEMMA SaveFits ==
  ASSUME Table, Save
  PROVE  SavedFits'
<1>1. /\ lru \in Seq(Keys) /\ Len(lru) \in Nat /\ Len(lru) <= MaxSeries
      /\ saved' = Range(lru)
  BY DEF Table, Save
<1>2. IsFiniteSet(1..Len(lru)) /\ Cardinality(1..Len(lru)) = Len(lru)
  BY <1>1, FS_Interval
<1>3. lru \in Surjection(1..Len(lru), Range(lru))
  BY <1>1 DEF Surjection, Range
<1>4. IsFiniteSet(Range(lru)) /\ Cardinality(Range(lru)) <= Len(lru)
  BY <1>2, <1>3, FS_Surjection
<1>5. Cardinality(Range(lru)) \in Nat
  BY <1>4, FS_CardinalityType
<1>6. Cardinality(Range(lru)) <= MaxSeries
  BY <1>1, <1>4, <1>5, JobFacts
<1>7. Range(lru) \subseteq Keys
  BY <1>1 DEF Range
<1>. QED BY <1>1, <1>4, <1>6, <1>7 DEF SavedFits

LEMMA RestartKept ==
  ASSUME IInv, Restart
  PROVE  IInv'
<1>1. saved \subseteq Keys /\ IsFiniteSet(saved) /\ Cardinality(saved) <= MaxSeries
  BY DEF IInv, SavedFits
<1>2. Cardinality(saved) \in Nat
  BY <1>1, FS_CardinalityType
<1>3. /\ lru' \in [1..Cardinality(saved) -> saved] /\ IsInjective(lru')
      /\ Range(lru') = saved /\ models' = saved
  BY DEF Restart, Orders
<1>4. lru' \in Seq(Keys) /\ Len(lru') = Cardinality(saved)
  BY <1>1, <1>2, <1>3
<1>5. Table'
  BY <1>1, <1>3, <1>4 DEF Table
<1>6. SavedFits'
  BY <1>1 DEF Restart, SavedFits
<1>7. lastSeen' = <<>> /\ DOMAIN lastSeen' = {}
  BY DEF Restart
<1>8. Sighted'
  BY <1>7 DEF IInv, Sighted, Restart
<1>9. \A x : Seen(x)' = 0
  BY <1>7 DEF Seen
<1>10. Recency'
  BY <1>9 DEF Recency
<1>11. known' = [id \in Ids |-> {}] /\ det' = 0 /\ todo' = {} /\ data' = NoData
  BY DEF Restart
<1>12. Control' /\ KnownOrDue'
  BY <1>11, JobFacts DEF Control, KnownOrDue
<1>. QED BY <1>5, <1>6, <1>8, <1>10, <1>12 DEF IInv

-----------------------------------------------------------------------------
(* Every step.                                                             *)

LEMMA IInvStep == IInv /\ [Next]_vars => IInv'
<1>. SUFFICES ASSUME IInv, [Next]_vars
              PROVE  IInv'
  OBVIOUS
<1>1. bucket \in Nat
  BY DEF IInv, Sighted
<1>2. ASSUME NEW b \in Comes, Skip(b)
      PROVE  IInv'
  <2>1. bucket' \in Nat /\ bucket <= bucket' /\ UNCHANGED <<lru, models, lastSeen>>
    BY <1>1, <1>2 DEF Comes, Skip, cache
  <2>2. SavedFits' /\ Control' /\ KnownOrDue'
    BY <1>2 DEF IInv, SavedFits, Control, KnownOrDue, Skip, cache
  <2>. QED BY <2>1, <2>2, TablesKept DEF IInv
<1>3. ASSUME NEW b \in Comes, NEW points \in Buckets, Open(b, points)
      PROVE  IInv'
  <2>1. /\ bucket' \in Nat /\ bucket <= bucket' /\ UNCHANGED <<lru, models, lastSeen, saved>>
        /\ det = 0 /\ data' = points /\ Enter(1, points)
    BY <1>1, <1>3 DEF Comes, Open
  <2>2. todo = {} /\ 1 \in Detector
    BY <2>1, JobFacts DEF IInv, Control, Detector
  <2>3. Control' /\ KnownOrDue'
    BY <2>1, <2>2, EnterKept
  <2>4. SavedFits'
    BY <2>1 DEF IInv, SavedFits
  <2>. QED BY <2>1, <2>3, <2>4, TablesKept DEF IInv
<1>4. ASSUME NEW s \in todo, Score(s)
      PROVE  IInv'
  <2>1. SavedFits'
    BY <1>4 DEF IInv, SavedFits, Score
  <2>. QED BY <1>4, <2>1, ScoreTable, ScoreSighted, ScoreRecency, ScoreKnown DEF IInv
<1>5. CASE NextDetector
  <2>1. /\ bucket' = bucket /\ UNCHANGED <<lru, models, lastSeen, saved>>
        /\ det \in 1..(NumDetectors - 1) /\ todo = {} /\ data' = data /\ Enter(det + 1, data)
    BY <1>5, JobFacts DEF NextDetector, IInv, Control
  <2>2. det + 1 \in Detector /\ data \in Buckets \cup {NoData}
    BY <2>1, JobFacts DEF Detector, IInv, Control
  <2>3. Control' /\ KnownOrDue'
    BY <2>1, <2>2, EnterKept
  <2>4. SavedFits'
    BY <2>1 DEF IInv, SavedFits
  <2>. QED BY <1>1, <2>1, <2>3, <2>4, TablesKept DEF IInv
<1>6. CASE Close
  <2>1. bucket' = bucket /\ UNCHANGED <<lru, models, lastSeen>>
    BY <1>6 DEF Close, cache
  <2>2. SavedFits' /\ Control' /\ KnownOrDue'
    BY <1>6, JobFacts DEF IInv, SavedFits, Control, KnownOrDue, Close, cache
  <2>. QED BY <1>1, <2>1, <2>2, TablesKept DEF IInv
<1>7. CASE Save
  <2>1. bucket' = bucket /\ UNCHANGED <<lru, models, lastSeen>>
    BY <1>7 DEF Save, cache
  <2>2. Control' /\ KnownOrDue'
    BY <1>7 DEF IInv, Control, KnownOrDue, Save, cache
  <2>. QED BY <1>1, <1>7, <2>1, <2>2, TablesKept, SaveFits DEF IInv
<1>8. CASE Restart
  BY <1>8, RestartKept
<1>9. CASE UNCHANGED vars
  <2>1. bucket' = bucket /\ UNCHANGED <<lru, models, lastSeen>>
    BY <1>9 DEF vars, cache
  <2>2. SavedFits' /\ Control' /\ KnownOrDue'
    BY <1>9 DEF IInv, SavedFits, Control, KnownOrDue, vars, cache
  <2>. QED BY <1>1, <2>1, <2>2, TablesKept DEF IInv
<1>. QED BY <1>2, <1>3, <1>4, <1>5, <1>6, <1>7, <1>8, <1>9 DEF Next

LEMMA IInvAlways == Spec => []IInv
BY IInvInit, IInvStep, PTL DEF Spec

-----------------------------------------------------------------------------
(* The theorems.                                                           *)

\* evictSeries and dropSeries keep every table of the engine within MaxSeries
\* and leave no key in one that the LRU table does not know, restarts included.
THEOREM CacheAlwaysBounded == Spec => []CacheBounded
<1>1. IInv => CacheBounded
  BY DEF IInv, Table, Sighted, CacheBounded
<1>. QED BY <1>1, IInvAlways, PTL

\* dropSeries prunes countSeries: when a detector is done, no count knows a
\* series without a model.
THEOREM KnownAlwaysResident == Spec => []KnownResident
<1>1. IInv => KnownResident
  BY DEF IInv, KnownOrDue, KnownResident
<1>. QED BY <1>1, IInvAlways, PTL

\* evictSeries drops from the old end of the table, whose order agrees with
\* lastSeen: what goes was not scored in a later bucket than what stays.
LEMMA ScoreEvictsOldest ==
  ASSUME IInv, NEW s, Score(s),
         NEW gone \in models \ models', NEW left \in models \cap models'
  PROVE  Seen(gone) <= Seen(left)
<1>. DEFINE k == <<Id[det], s>>
            t == Touched(k)  r == AfterTouch(k)  off == Len(t) - Len(r)
<1>1. k \in Keys
  BY ScoreKey
<1>2. /\ lru \in Seq(Keys) /\ IsInjective(lru) /\ Len(lru) <= MaxSeries
      /\ models = Range(lru) /\ Recency
  BY DEF IInv, Table
<1>3. models' = (models \ Dropped(k)) \cup {k}
  BY DEF Score
<1>. HIDE DEF k
<1>4. k \notin Range(lru)
  BY <1>1, <1>2, <1>3, AfterShape
<1>5. /\ Len(t) = Len(lru) + 1 /\ \A i \in 1..Len(lru) : t[i] = lru[i]
  BY <1>1, <1>2, <1>4, TouchNew
<1>6. t \in Seq(Keys) /\ t[Len(t)] = k
  BY <1>1, <1>2, TouchShape
<1>7. /\ r \in Seq(Keys) /\ Len(r) \in 1..MaxSeries /\ off \in Nat
      /\ \A i \in 1..Len(r) : r[i] = t[i + off]
  BY <1>1, <1>2, EvictShape
<1>8. Range(r) = models'
  BY <1>1, <1>2, <1>3, AfterShape
<1>. HIDE DEF t, r
<1>9. Len(lru) \in Nat /\ DOMAIN lru = 1..Len(lru) /\ DOMAIN r = 1..Len(r)
  BY <1>2, <1>7
<1>10. PICK i \in 1..Len(lru) : lru[i] = gone
  BY <1>2, <1>9 DEF Range
<1>11. PICK m \in 1..Len(r) : r[m] = left
  BY <1>8, <1>9 DEF Range
<1>12. i <= off
  <2>1. SUFFICES ASSUME i > off
                 PROVE  FALSE
    BY <1>7, <1>10
  <2>2. i - off \in 1..Len(r) /\ (i - off) + off = i
    BY <1>5, <1>7, <1>9, <1>10, <2>1
  <2>3. r[i - off] = gone
    BY <1>5, <1>7, <1>10, <2>2
  <2>4. gone \in models'
    BY <1>8, <1>9, <2>2, <2>3 DEF Range
  <2>. QED BY <2>4
<1>13. left # k
  BY <1>2, <1>4
<1>14. m + off \in 1..Len(lru) /\ lru[m + off] = left
  <2>1. t[m + off] = left /\ m + off \in 1..Len(t)
    BY <1>5, <1>7, <1>9, <1>11
  <2>2. m + off # Len(t)
    BY <1>6, <1>13, <2>1
  <2>. QED BY <1>5, <1>9, <2>1, <2>2
<1>15. i < m + off
  BY <1>7, <1>10, <1>11, <1>12
<1>. QED BY <1>2, <1>9, <1>10, <1>14, <1>15 DEF Recency

\* An eviction takes the series that were scored longest ago.
THEOREM AlwaysEvictsOldest == Spec => EvictsOldest
<1>1. ASSUME IInv, [Next]_vars, restarts' = restarts,
             NEW gone \in models \ models', NEW left \in models \cap models'
      PROVE  Seen(gone) <= Seen(left)
  <2>1. restarts \in Nat => ~Restart
    BY <1>1 DEF Restart
  <2>2. CASE \E s \in todo : Score(s)
    BY <1>1, <2>2, ScoreEvictsOldest
  <2>3. CASE Restart
    BY <1>1, <2>3 DEF Restart
  <2>4. CASE UNCHANGED models
    BY <1>1, <2>4
  <2>. QED BY <1>1, <2>2, <2>3, <2>4
       DEF Next, Skip, Open, NextDetector, Close, Save, vars, cache
<1>2. IInv /\ [Next]_vars =>
        [restarts' = restarts =>
           \A gone \in models \ models', left \in models \cap models' :
             Seen(gone) <= Seen(left)]_vars
  BY <1>1
<1>. QED BY <1>2, IInvAlways, PTL DEF Spec, EvictsOldest

-----------------------------------------------------------------------------
(* Types and bounds.                                                       *)

KnownFits ==
  \A id \in Ids : IsFiniteSet(known[id]) /\ Cardinality(known[id]) <= KnownCap

Bounds == bucket \in 0..MaxBucket /\ restarts \in 0..MaxRestarts

LEMMA LearnedFits ==
  ASSUME IInv, KnownFits, NEW d \in Detector, NEW points \in Buckets \cup {NoData},
         Enter(d, points)
  PROVE  KnownFits'
<1>1. Id[d] \in Ids /\ IsFiniteSet(points[d]) /\ known \in [Ids -> SUBSET Series]
  BY JobFacts DEF IInv, Control
<1>2. CASE d \in CountFamily
  <2>1. PICK K \in Learned(Id[d], points[d]) : known' = [known EXCEPT ![Id[d]] = K]
    BY <1>2 DEF Enter
  <2>2. IsFiniteSet(known[Id[d]] \cup points[d])
    BY <1>1, FS_Union DEF KnownFits
  <2>3. IsFiniteSet(K) /\ Cardinality(K) <= KnownCap
    BY <2>2, FS_Subset DEF Learned
  <2>. QED BY <1>1, <2>1, <2>3 DEF KnownFits
<1>3. CASE d \notin CountFamily
  BY <1>3 DEF Enter, KnownFits
<1>. QED BY <1>2, <1>3

LEMMA PrunedFits ==
  ASSUME KnownFits, NEW s, Score(s)
  PROVE  KnownFits'
<1>. DEFINE k == <<Id[det], s>>
<1>1. known' = [id \in Ids |-> {x \in known[id] : <<id, x>> \notin Dropped(k)}]
  BY DEF Score, KnownAfter
<1>2. ASSUME NEW id \in Ids
      PROVE  IsFiniteSet(known'[id]) /\ Cardinality(known'[id]) <= KnownCap
  <2>1. known'[id] \in SUBSET known[id]
    BY <1>1
  <2>2. IsFiniteSet(known[id]) /\ Cardinality(known[id]) <= KnownCap
    BY DEF KnownFits
  <2>3. IsFiniteSet(known'[id]) /\ Cardinality(known'[id]) <= Cardinality(known[id])
    BY <2>1, <2>2, FS_Subset
  <2>4. Cardinality(known'[id]) \in Nat /\ Cardinality(known[id]) \in Nat /\ KnownCap \in Nat
    BY <2>2, <2>3, FS_CardinalityType, LimitsAssumption
  <2>. QED BY <2>2, <2>3, <2>4
<1>. QED BY <1>2 DEF KnownFits

LEMMA BoundsInit == Init => KnownFits /\ Bounds
BY FS_EmptySet, LimitsAssumption, BoundsAssumption DEF Init, KnownFits, Bounds

LEMMA BoundsStep == IInv /\ KnownFits /\ Bounds /\ [Next]_vars => KnownFits' /\ Bounds'
<1>. SUFFICES ASSUME IInv, KnownFits, Bounds, [Next]_vars
              PROVE  KnownFits' /\ Bounds'
  OBVIOUS
<1>1. Bounds'
  <2>1. bucket' = bucket \/ bucket' = 0 \/ bucket' \in Comes
    BY DEF Next, Skip, Open, Score, NextDetector, Close, Save, Restart, vars
  <2>2. restarts' = restarts \/ (restarts < MaxRestarts /\ restarts' = restarts + 1)
    BY DEF Next, Skip, Open, Score, NextDetector, Close, Save, Restart, vars
  <2>3. bucket' \in 0..MaxBucket
    BY <2>1, BoundsAssumption DEF Bounds, Comes
  <2>4. restarts' \in 0..MaxRestarts
    BY <2>2, BoundsAssumption DEF Bounds
  <2>. QED BY <2>3, <2>4 DEF Bounds
<1>2. CASE UNCHANGED known
  BY <1>1, <1>2 DEF KnownFits
<1>3. CASE \E b \in Comes, points \in Buckets : Open(b, points)
  <2>1. 1 \in Detector
    BY JobFacts DEF Detector
  <2>. QED BY <1>1, <1>3, <2>1, LearnedFits DEF Open
<1>4. CASE \E s \in todo : Score(s)
  BY <1>1, <1>4, PrunedFits
<1>5. CASE NextDetector
  <2>1. det + 1 \in Detector /\ data \in Buckets \cup {NoData} /\ Enter(det + 1, data)
    BY <1>5, JobFacts DEF NextDetector, IInv, Control, Detector
  <2>. QED BY <1>1, <2>1, LearnedFits
<1>6. CASE Restart
  <2>1. known' = [id \in Ids |-> {}]
    BY <1>6 DEF Restart
  <2>. QED BY <1>1, <2>1, FS_EmptySet, LimitsAssumption DEF KnownFits
<1>. QED BY <1>2, <1>3, <1>4, <1>5, <1>6 DEF Next, Skip, Close, Save, vars, cache

\* Every variable keeps its type, and what the counts know of an id is within
\* its cap.
THEOREM TypeCorrect == Spec => []TypeOK
<1>1. IInv /\ KnownFits /\ Bounds => TypeOK
  <2>. SUFFICES ASSUME IInv, KnownFits, Bounds
                PROVE  TypeOK
    OBVIOUS
  <2>1. models \subseteq Keys
    BY DEF IInv, Table, Range
  <2>2. \A k \in DOMAIN lastSeen : lastSeen[k] \in 0..MaxBucket
    BY BoundsAssumption DEF IInv, Sighted, Bounds
  <2>. QED BY <2>1, <2>2
       DEF TypeOK, IInv, Table, SavedFits, Sighted, Control, KnownFits, Bounds
<1>. QED BY <1>1, IInvAlways, BoundsInit, BoundsStep, PTL DEF Spec

=============================================================================
