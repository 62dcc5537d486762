-------------------------- MODULE LiveServer_proofs --------------------------
(***************************************************************************)
(* Theorems about LiveServer, for every set of names, times and requests   *)
(* and every limit.                                                        *)
(***************************************************************************)
EXTENDS LiveServer, FiniteSetTheorems, SequenceTheorems, WellFoundedInduction, TLAPS

-----------------------------------------------------------------------------
(* Finite sets of times, and lists of buckets.                             *)

LEMMA GreatestExists ==
  ASSUME NEW B, IsFiniteSet(B), B # {}, NEW k \in [B -> Int]
  PROVE  \E x \in B : \A y \in B : k[y] <= k[x]
<1>. DEFINE From(x) == {y \in B : k[y] >= k[x]}
            T == {U \in SUBSET B : \E x \in B : U = From(x)}
<1>1. T # {}
  <2>1. PICK x \in B : TRUE
    OBVIOUS
  <2>2. From(x) \in T
    BY <2>1
  <2>. QED BY <2>2
<1>2. T \subseteq FiniteSubsetsOf(B)
  BY FS_FiniteSubsetsOfFinite
<1>3. PICK U \in T : \A V \in T : ~(<<V, U>> \in StrictSubsetOrdering(B))
  <2>. HIDE DEF T
  <2>. QED BY <1>1, <1>2, FS_StrictSubsetOrderingWellFounded, WFMin
<1>4. PICK x \in B : U = From(x)
  OBVIOUS
<1>5. \A y \in B : k[y] <= k[x]
  <2>. SUFFICES ASSUME NEW y \in B, ~(k[y] <= k[x]) PROVE FALSE
    OBVIOUS
  <2>1. \A z \in B : k[z] \in Int
    OBVIOUS
  <2>2. From(y) \subseteq From(x) /\ x \in From(x) /\ x \notin From(y)
    BY <2>1
  <2>3. From(y) \in T
    OBVIOUS
  <2>4. <<From(y), From(x)>> \in StrictSubsetOrdering(B)
    BY <2>2 DEF StrictSubsetOrdering
  <2>. QED BY <1>3, <1>4, <2>3, <2>4
<1>. QED BY <1>5

LEMMA LatestExists ==
  ASSUME NEW S, IsFiniteSet(S), S \subseteq Int, S # {}
  PROVE  Max(S) \in S /\ \A y \in S : y <= Max(S)
<1>1. [y \in S |-> y] \in [S -> Int]
  OBVIOUS
<1>2. \E x \in S : \A y \in S : [z \in S |-> z][y] <= [z \in S |-> z][x]
  BY <1>1, GreatestExists
<1>3. \E x \in S : \A y \in S : y <= x
  BY <1>2
<1>. QED BY <1>3 DEF Max

LEMMA EarliestExists ==
  ASSUME NEW S, IsFiniteSet(S), S \subseteq Int, S # {}
  PROVE  Min(S) \in S /\ \A y \in S : Min(S) <= y
<1>1. [y \in S |-> 0 - y] \in [S -> Int]
  OBVIOUS
<1>2. \E x \in S : \A y \in S : [z \in S |-> 0 - z][y] <= [z \in S |-> 0 - z][x]
  BY <1>1, GreatestExists
<1>3. \E x \in S : \A y \in S : 0 - y <= 0 - x
  BY <1>2
<1>4. \E x \in S : \A y \in S : x <= y
  BY <1>3
<1>. QED BY <1>4 DEF Min

\* Buckets of one engine and request can be listed in order of time.
OneStream(B) ==
  /\ IsFiniteSet(B)
  /\ \A b \in B : b.time \in Int
  /\ \A a, b \in B : a.time = b.time => a = b

Listings(B) ==
  {s \in Bijection(1..Cardinality(B), B) :
     \A i, j \in 1..Cardinality(B) : i < j => s[i].time < s[j].time}

LEMMA NewestExists ==
  ASSUME NEW B, OneStream(B), B # {}
  PROVE  \E x \in B : \A y \in B : y.time <= x.time
<1>1. [b \in B |-> b.time] \in [B -> Int] /\ IsFiniteSet(B)
  BY DEF OneStream
<1>2. \E x \in B : \A y \in B : [b \in B |-> b.time][y] <= [b \in B |-> b.time][x]
  BY <1>1, GreatestExists
<1>. QED BY <1>2

LEMMA ListingAppended ==
  ASSUME NEW B, OneStream(B), NEW x \in B, \A y \in B : y.time <= x.time,
         NEW s \in Listings(B \ {x})
  PROVE  Listings(B) # {}
<1>. DEFINE n == Cardinality(B)
            r == [i \in 1..n |-> IF i = n THEN x ELSE s[i]]
<1>1. IsFiniteSet(B) /\ n \in Nat \ {0} /\ Cardinality(B \ {x}) = n - 1
  BY FS_CardinalityType, FS_RemoveElement, FS_EmptySet DEF OneStream
<1>. HIDE DEF n
<1>2. /\ s \in [1..(n - 1) -> B \ {x}]
      /\ \A i, j \in 1..(n - 1) : s[i] = s[j] => i = j
      /\ \A y \in B \ {x} : \E i \in 1..(n - 1) : s[i] = y
      /\ \A i, j \in 1..(n - 1) : i < j => s[i].time < s[j].time
  BY <1>1 DEF Listings, Bijection, Injection, Surjection, IsInjective
<1>3. \A i \in 1..n : i = n \/ i \in 1..(n - 1)
  BY <1>1
<1>4. \A i \in 1..(n - 1) : i \in 1..n /\ i # n /\ s[i] \in B /\ s[i] # x /\ i < n
  BY <1>1, <1>2
<1>5. r \in [1..n -> B]
  BY <1>3, <1>4
<1>6. n \in 1..n /\ r[n] = x /\ \A i \in 1..(n - 1) : r[i] = s[i]
  BY <1>1, <1>4
<1>. HIDE DEF r
<1>7. \A i, j \in 1..n : r[i] = r[j] => i = j
  BY <1>2, <1>3, <1>4, <1>6
<1>8. \A y \in B : \E i \in 1..n : r[i] = y
  BY <1>2, <1>4, <1>6
<1>9. \A y \in B \ {x} : y.time < x.time
  <2>. TAKE y \in B \ {x}
  <2>1. y.time # x.time /\ y.time <= x.time /\ y.time \in Int /\ x.time \in Int
    BY DEF OneStream
  <2>. QED BY <2>1
<1>10. \A i, j \in 1..n : i < j => r[i].time < r[j].time
  <2>. SUFFICES ASSUME NEW i \in 1..n, NEW j \in 1..n, i < j
                PROVE  r[i].time < r[j].time
    OBVIOUS
  <2>1. i \in 1..(n - 1)
    BY <1>1
  <2>. QED BY <1>2, <1>3, <1>4, <1>6, <1>9, <2>1
<1>11. r \in Bijection(1..n, B)
  BY <1>5, <1>7, <1>8 DEF Bijection, Injection, Surjection, IsInjective
<1>. QED BY <1>10, <1>11 DEF Listings, n

LEMMA InOrderExists ==
  ASSUME NEW B, OneStream(B)
  PROVE  InOrder(B) \in Listings(B)
<1>. DEFINE T == {S \in SUBSET B : Listings(S) = {}}
<1>1. T = {}
  <2>. SUFFICES ASSUME T # {} PROVE FALSE
    OBVIOUS
  <2>1. T \subseteq FiniteSubsetsOf(B)
    BY FS_FiniteSubsetsOfFinite DEF OneStream
  <2>2. PICK U \in T : \A V \in T : ~(<<V, U>> \in StrictSubsetOrdering(B))
    BY <2>1, FS_StrictSubsetOrderingWellFounded, WFMin
  <2>3. U \subseteq B /\ Listings(U) = {}
    OBVIOUS
  <2>4. OneStream(U)
    BY <2>3, FS_Subset DEF OneStream
  <2>5. U # {}
    <3>1. <<>> \in Listings({})
      <4>1. 1..Cardinality({}) = {}
        BY FS_EmptySet
      <4>2. <<>> \in [1..Cardinality({}) -> {}]
        BY <4>1
      <4>. QED BY <4>1, <4>2 DEF Listings, Bijection, Injection, Surjection, IsInjective
    <3>. QED BY <2>3, <3>1
  <2>6. PICK x \in U : \A y \in U : y.time <= x.time
    BY <2>4, <2>5, NewestExists
  <2>7. Listings(U \ {x}) = {}
    BY <2>3, <2>4, <2>6, ListingAppended
  <2>8. U \ {x} \in T /\ <<U \ {x}, U>> \in StrictSubsetOrdering(B)
    BY <2>3, <2>6, <2>7 DEF StrictSubsetOrdering
  <2>. QED BY <2>2, <2>8
<1>2. Listings(B) # {}
  BY <1>1
<1>3. InOrder(B) = CHOOSE s \in Listings(B) : TRUE
  BY DEF InOrder, Listings
<1>. QED BY <1>2, <1>3

LEMMA ListingIs ==
  ASSUME NEW B \in SUBSET Buckets, OneStream(B)
  PROVE  InOrder(B) \in Seq(Buckets) /\ Range(InOrder(B)) = B
<1>1. Cardinality(B) \in Nat
  BY FS_CardinalityType DEF OneStream
<1>2. InOrder(B) \in Bijection(1..Cardinality(B), B)
  BY InOrderExists DEF Listings
<1>3. /\ InOrder(B) \in [1..Cardinality(B) -> B]
      /\ \A b \in B : \E i \in 1..Cardinality(B) : InOrder(B)[i] = b
  BY <1>2 DEF Bijection, Injection, Surjection
<1>4. Range(InOrder(B)) = B
  <2>1. DOMAIN InOrder(B) = 1..Cardinality(B)
    BY <1>3
  <2>. QED BY <1>3, <2>1 DEF Range
<1>5. InOrder(B) \in [1..Cardinality(B) -> Buckets]
  BY <1>3
<1>. QED BY <1>1, <1>4, <1>5, SeqDef

\* A list after some buckets were published to it: all of them, or full.
LEMMA ListGrows ==
  ASSUME NEW s \in Seq(Buckets), NEW B \in SUBSET Buckets, OneStream(B),
         NEW r, r = Trimmed(s \o InOrder(B))
  PROVE  /\ r \in Seq(Buckets) /\ Range(r) \subseteq Range(s) \cup B
         /\ Len(r) = MaxResults \/ Range(r) = Range(s) \cup B
         /\ Len(s) = MaxResults => Len(r) = MaxResults
<1>. DEFINE l == s \o InOrder(B)
<1>1. InOrder(B) \in Seq(Buckets) /\ Range(InOrder(B)) = B
  BY ListingIs
<1>2. /\ l \in Seq(Buckets) /\ Range(l) = Range(s) \cup B
      /\ Len(l) = Len(s) + Len(InOrder(B))
      /\ Len(l) \in Nat /\ Len(s) \in Nat /\ Len(InOrder(B)) \in Nat
  BY <1>1, ConcatProperties, RangeConcatenation, LenProperties
<1>3. MaxResults \in Nat \ {0} /\ r = Trimmed(l)
  BY LimitsAssumption
<1>. HIDE DEF l
<1>4. CASE Len(l) > MaxResults
  <2>1. r = SubSeq(l, Len(l) - MaxResults + 1, Len(l))
    BY <1>3, <1>4 DEF Trimmed
  <2>2. \A i \in (Len(l) - MaxResults + 1)..Len(l) : i \in 1..Len(l)
    BY <1>2, <1>3, <1>4
  <2>3. \A i \in 1..Len(l) : l[i] \in Buckets /\ l[i] \in Range(l)
    BY <1>2, LenProperties DEF Range
  <2>4. Len(l) - MaxResults + 1 \in Int /\ Len(l) \in Int
    BY <1>2, <1>3
  <2>5. /\ r \in Seq(Range(l)) /\ r \in Seq(Buckets)
        /\ Len(r) = IF Len(l) - MaxResults + 1 <= Len(l)
                    THEN Len(l) - (Len(l) - MaxResults + 1) + 1 ELSE 0
    <3>1. /\ SubSeq(l, Len(l) - MaxResults + 1, Len(l)) \in Seq(Buckets)
          /\ Len(SubSeq(l, Len(l) - MaxResults + 1, Len(l)))
               = IF Len(l) - MaxResults + 1 <= Len(l)
                 THEN Len(l) - (Len(l) - MaxResults + 1) + 1 ELSE 0
      BY <2>2, <2>3, <2>4, SubSeqProperties
    <3>2. SubSeq(l, Len(l) - MaxResults + 1, Len(l)) \in Seq(Range(l))
      BY <2>2, <2>3, <2>4, SubSeqProperties
    <3>. QED BY <2>1, <3>1, <3>2
  <2>6. Len(r) = MaxResults
    BY <1>2, <1>3, <1>4, <2>5
  <2>7. Range(r) \subseteq Range(l)
    <3>1. r \in [1..Len(r) -> Range(l)]
      BY <2>5, LenProperties
    <3>. QED BY <3>1 DEF Range
  <2>. QED BY <1>2, <2>5, <2>6, <2>7
<1>5. CASE ~(Len(l) > MaxResults)
  <2>1. r = l
    BY <1>3, <1>5 DEF Trimmed
  <2>2. Len(s) = MaxResults => Len(l) = MaxResults
    BY <1>2, <1>3, <1>5
  <2>. QED BY <1>2, <2>1, <2>2
<1>. QED BY <1>4, <1>5

\* What a push leaves open and what it closes.
LEMMA AfterIs ==
  ASSUME NEW h, engine[h] \in Engines, IsFiniteSet(engine[h].open), NEW batch \in Batches,
         ~IsLog(h) => engine[h].open \subseteq {engine[h].mark}
  PROVE  /\ After(h, batch).mark \in Times /\ After(h, batch).open \subseteq Times
         /\ After(h, batch).shut \subseteq Times
         /\ IsFiniteSet(After(h, batch).open) /\ IsFiniteSet(After(h, batch).shut)
         /\ engine[h].mark <= After(h, batch).mark
         /\ ~IsLog(h) =>
              /\ After(h, batch).open \subseteq {After(h, batch).mark}
              /\ \A t \in After(h, batch).shut :
                   engine[h].mark <= t /\ t < After(h, batch).mark
<1>. DEFINE mark  == MarkFor(h, batch)
            later == {t \in batch : t > mark}
            held  == engine[h].open \cup {t \in batch : t = mark \/ (t < mark /\ IsLog(h))}
<1>1. /\ Times \subseteq Nat /\ batch \subseteq Times /\ batch # {} /\ IsFiniteSet(batch)
      /\ engine[h].mark \in Times \cup {NoMark} /\ engine[h].open \subseteq Times
      /\ NoMark = 0 - 1
  BY TimesAssumption DEF Engines, NoMark
<1>i. engine[h].mark \in Int /\ \A t \in Times : t \in Int
  <2>1. \A t \in Times : t \in Int
    BY <1>1
  <2>2. CASE engine[h].mark = NoMark
    BY <1>1, <2>2
  <2>3. CASE engine[h].mark \in Times
    BY <2>1, <2>3
  <2>. QED BY <1>1, <2>1, <2>2, <2>3
<1>2. mark \in Times /\ engine[h].mark <= mark
      /\ (engine[h].mark = mark \/ engine[h].mark = NoMark)
  <2>1. CASE engine[h].mark = NoMark
    <3>1. batch \subseteq Int
      BY <1>1
    <3>2. Min(batch) \in batch
      BY <1>1, <3>1, EarliestExists
    <3>3. mark = Min(batch)
      BY <2>1 DEF MarkFor
    <3>4. Min(batch) \in Times /\ Min(batch) \in Nat
      BY <1>1, <3>2
    <3>. QED BY <1>1, <2>1, <3>3, <3>4
  <2>2. CASE engine[h].mark # NoMark
    <3>1. mark = engine[h].mark
      BY <2>2 DEF MarkFor
    <3>. HIDE DEF mark
    <3>. QED BY <1>1, <1>i, <2>2, <3>1
  <2>. QED BY <2>1, <2>2
<1>3. ~IsLog(h) => held \subseteq {mark}
  <2>. SUFFICES ASSUME ~IsLog(h) PROVE engine[h].open \subseteq {mark}
    OBVIOUS
  <2>1. engine[h].mark = NoMark => engine[h].open = {}
    BY <1>1
  <2>. QED BY <1>2, <2>1
<1>4. held \subseteq Times /\ IsFiniteSet(held)
  <2>1. IsFiniteSet({t \in batch : t = mark \/ (t < mark /\ IsLog(h))})
    BY <1>1, FS_Subset
  <2>2. IsFiniteSet(held)
    BY <2>1, FS_Union
  <2>. QED BY <1>1, <2>2
<1>5. CASE later = {}
  <2>1. After(h, batch) = [mark |-> mark, open |-> held, shut |-> {}]
    BY <1>5 DEF After
  <2>. HIDE DEF mark, held
  <2>. QED BY <1>2, <1>3, <1>4, <2>1, FS_EmptySet
<1>6. CASE later # {}
  <2>1. After(h, batch) = [mark |-> Max(later), open |-> {Max(later)},
                           shut |-> (held \cup later) \ {Max(later)}]
    BY <1>6 DEF After
  <2>2. later \subseteq Int /\ IsFiniteSet(later) /\ later \subseteq Times
    <3>1. later \subseteq batch
      OBVIOUS
    <3>. HIDE DEF later
    <3>. QED BY <1>1, <1>i, <3>1, FS_Subset
  <2>3. Max(later) \in later /\ \A y \in later : y <= Max(later)
    BY <1>6, <2>2, LatestExists
  <2>4. IsFiniteSet({Max(later)}) /\ IsFiniteSet((held \cup later) \ {Max(later)})
    <3>. HIDE DEF held, later
    <3>1. IsFiniteSet(held \cup later)
      BY <1>4, <2>2, FS_Union
    <3>. QED BY <3>1, FS_Singleton, FS_Subset
  <2>5. mark < Max(later) /\ \A t \in later : mark < t
    BY <2>3
  <2>. HIDE DEF mark, held, later
  <2>6. mark \in Int /\ engine[h].mark \in Int /\ Max(later) \in Int
        /\ \A t \in later : t \in Int
    BY <1>i, <1>2, <2>2, <2>3
  <2>7. \A t \in later \ {Max(later)} : engine[h].mark <= t /\ t < Max(later)
    BY <1>2, <2>3, <2>5, <2>6
  <2>8. engine[h].mark <= Max(later)
    BY <1>2, <2>5, <2>6
  <2>9. ~IsLog(h) => \A t \in (held \cup later) \ {Max(later)} :
                       engine[h].mark <= t /\ t < Max(later)
    BY <1>2, <1>3, <2>5, <2>7
  <2>. DEFINE a == After(h, batch)
  <2>10. /\ a.mark = Max(later) /\ a.open = {Max(later)}
         /\ a.shut = (held \cup later) \ {Max(later)}
    BY <2>1
  <2>. HIDE DEF a
  <2>11. Max(later) \in Times /\ a.shut \subseteq Times
    BY <1>4, <2>2, <2>3, <2>10
  <2>. QED BY <2>4, <2>8, <2>9, <2>10, <2>11 DEF a
<1>. QED BY <1>5, <1>6

-----------------------------------------------------------------------------
(* The shape of the state.                                                 *)

Made == 1..Len(names)

\* Engines, one per registration; a metric engine holds its watermark's bucket.
EngineInv ==
  /\ names \in Seq(Names) /\ Len(names) <= MaxHandles
  /\ engine \in Seq(Engines) /\ Len(engine) = Len(names)
  /\ \A h \in Made :
       /\ IsFiniteSet(engine[h].open)
       /\ ~IsLog(h) => engine[h].open \subseteq {engine[h].mark}

LiveInv ==
  /\ DOMAIN live \subseteq Names
  /\ IsFiniteSet(DOMAIN live) /\ Cardinality(DOMAIN live) <= MaxJobs
  /\ \A n \in DOMAIN live : live[n] \in Made /\ names[live[n]] = n

\* What is listed came from an engine of that name, or from a batch job.
ListInv ==
  /\ closed \subseteq Buckets /\ \A b \in closed : b.job \in Made
  /\ DOMAIN results \subseteq Names
  /\ \A n \in DOMAIN results :
       /\ results[n] \in Seq(Buckets)
       /\ \A b \in Range(results[n]) : b.job = Batch \/ (b \in closed /\ names[b.job] = n)

StepNames == {"idle", "push", "publish", "correlate", "reconcile"}

Requests ==
  [step: StepNames, call: 0..MaxCalls, todo: SUBSET Handles, batch: Batches \cup {{}},
   out: SUBSET Buckets, view: SUBSET Buckets]

\* Each request has a call of its own, and carries buckets of that call only.
RequestInv ==
  /\ calls \in 0..MaxCalls
  /\ req \in [Workers -> Requests]
  /\ \A w \in Workers :
       /\ req[w].todo \subseteq Made /\ req[w].call <= calls
       /\ req[w].step = "idle" => req[w] = Idle
       /\ req[w].step # "idle" => req[w].call # 0
       /\ req[w].step \in {"idle", "push"} => req[w].out = {}
       /\ req[w].out \subseteq closed /\ IsFiniteSet(req[w].out)
       /\ \A a, b \in req[w].out : a.job = b.job /\ a.call = req[w].call
  /\ \A v, w \in Workers :
       v # w /\ req[v].step # "idle" /\ req[w].step # "idle" => req[v].call # req[w].call

\* What a save has copied so far, and what it may still copy.
SaverNames == {names[h] : h \in saver.todo \cup DOMAIN saver.jobs}

SaverInv ==
  /\ saver = [step |-> saver.step, known |-> saver.known,
              todo |-> saver.todo, jobs |-> saver.jobs]
  /\ saver.todo \cup DOMAIN saver.jobs \subseteq Made
  /\ saver.step = "list" => saver.jobs = <<>>
  /\ \A h \in DOMAIN saver.jobs : saver.jobs[h] \in Engines /\ saver.jobs[h].open = {}
  /\ IsFiniteSet(SaverNames) /\ Cardinality(SaverNames) <= MaxJobs

DiskNames == {names[h] : h \in DOMAIN disk.jobs}

DiskInv ==
  /\ DOMAIN disk.jobs \subseteq Made
  /\ \A h \in DOMAIN disk.jobs : disk.jobs[h] \in Engines /\ disk.jobs[h].open = {}
  /\ IsFiniteSet(DiskNames) /\ Cardinality(DiskNames) <= MaxJobs

\* Nothing but the state file outlives the process.
DownInv ==
  ~up => /\ live = <<>> /\ results = <<>> /\ saver = NoSave
         /\ closed = {} /\ gone = {} /\ known = {}
         /\ \A w \in Workers : req[w] = Idle

ShapeInv ==
  EngineInv /\ LiveInv /\ ListInv /\ RequestInv /\ SaverInv /\ DiskInv /\ DownInv

LEMMA ShapeInit == Init => ShapeInv
<1>. SUFFICES ASSUME Init PROVE ShapeInv
  OBVIOUS
<1>1. /\ names = <<>> /\ engine = <<>> /\ live = <<>> /\ results = <<>> /\ saver = NoSave
      /\ disk = [known |-> {}, jobs |-> <<>>] /\ closed = {} /\ up /\ calls = 0
      /\ req = [w \in Workers |-> Idle]
  BY DEF Init
<1>2. /\ DOMAIN <<>> = {} /\ Len(<<>>) = 0 /\ IsFiniteSet({}) /\ Cardinality({}) = 0
      /\ MaxJobs \in Nat /\ MaxHandles \in Nat /\ MaxCalls \in Nat /\ Made = {}
      /\ <<>> \in Seq(Names) /\ <<>> \in Seq(Engines)
  BY <1>1, FS_EmptySet, LimitsAssumption, BoundsAssumption DEF Made
<1>3. EngineInv /\ LiveInv /\ ListInv
  BY <1>1, <1>2 DEF EngineInv, LiveInv, ListInv
<1>4. RequestInv
  <2>1. /\ Idle \in Requests /\ Idle.todo = {} /\ Idle.out = {} /\ Idle.call = 0
        /\ Idle.step = "idle"
    BY <1>2 DEF Requests, StepNames, Idle
  <2>2. \A w \in Workers : req[w] = Idle
    BY <1>1
  <2>3. req \in [Workers -> Requests] /\ calls \in 0..MaxCalls
    BY <1>1, <1>2, <2>1
  <2>4. \A w \in Workers :
          /\ req[w].todo \subseteq Made /\ req[w].call <= calls
          /\ req[w].step = "idle" /\ req[w] = Idle
          /\ req[w].out = {} /\ IsFiniteSet(req[w].out)
    <3>. TAKE w \in Workers
    <3>1. req[w] = Idle
      BY <2>2
    <3>2. calls = 0 /\ IsFiniteSet({})
      BY <1>1, <1>2
    <3>. QED BY <2>1, <3>1, <3>2
  <2>. HIDE DEF Idle
  <2>. QED BY <2>3, <2>4 DEF RequestInv
<1>5. SaverInv
  <2>1. saver.todo = {} /\ DOMAIN saver.jobs = {} /\ SaverNames = {}
    BY <1>1, <1>2 DEF NoSave, SaverNames
  <2>. QED BY <1>1, <1>2, <2>1 DEF SaverInv, NoSave
<1>6. DiskInv
  <2>1. DOMAIN disk.jobs = {} /\ DiskNames = {}
    BY <1>1, <1>2 DEF DiskNames
  <2>. QED BY <1>2, <2>1 DEF DiskInv
<1>7. DownInv
  BY <1>1 DEF DownInv
<1>. QED BY <1>3, <1>4, <1>5, <1>6, <1>7 DEF ShapeInv

\* Names are kept: a registration adds a handle, and nothing else changes them.
LEMMA NamesKept ==
  ASSUME EngineInv, [Next]_vars
  PROVE  /\ names' \in Seq(Names) /\ Len(names') <= MaxHandles
         /\ Len(names) <= Len(names') /\ Len(names) \in Nat /\ Len(names') \in Nat
         /\ \A h \in Made : h \in Made' /\ names'[h] = names[h] /\ IsLog(h)' = IsLog(h)
<1>1. names \in Seq(Names) /\ Len(names) <= MaxHandles /\ Len(names) \in Nat
  BY LenProperties DEF EngineInv
<1>2. CASE names' = names
  BY <1>1, <1>2 DEF Made, IsLog
<1>3. ASSUME NEW n \in Names, Register(n)
      PROVE  /\ names' \in Seq(Names) /\ Len(names') <= MaxHandles
             /\ Len(names') = Len(names) + 1
             /\ \A h \in Made : names'[h] = names[h]
  <2>1. names' = Append(names, n) /\ Len(names) < MaxHandles
    BY <1>3 DEF Register
  <2>2. MaxHandles \in Nat
    BY BoundsAssumption
  <2>3. /\ Append(names, n) \in Seq(Names) /\ Len(Append(names, n)) = Len(names) + 1
        /\ \A i \in 1..Len(names) : Append(names, n)[i] = names[i]
    BY <1>1, AppendProperties
  <2>. QED BY <1>1, <2>1, <2>2, <2>3 DEF Made
<1>4. ASSUME NEW n \in Names, Register(n)
      PROVE  /\ Len(names) <= Len(names') /\ Len(names') \in Nat
             /\ \A h \in Made : h \in Made' /\ IsLog(h)' = IsLog(h)
  BY <1>1, <1>3, <1>4 DEF Made, IsLog
<1>5. names' = names \/ \E n \in Names : Register(n)
  BY ZenonT(60) DEF vars, jobs, process, history, Next, Request, Step, Save, Delete, Analyze, Begin,
     PointsRequest, IngestRequest, FlushRequest, IncidentsRequest, Push, Flush, Publish,
     Correlate, Reconcile, SnapshotTracker, SnapshotList, SnapshotJob, WriteState, Exit, Start
<1>. QED BY <1>1, <1>2, <1>3, <1>4, <1>5

LEMMA EngineNext ==
  ASSUME ShapeInv, [Next]_vars
  PROVE  EngineInv'
<1>1. /\ names' \in Seq(Names) /\ Len(names') <= MaxHandles
      /\ Len(names) <= Len(names') /\ Len(names) \in Nat /\ Len(names') \in Nat
      /\ \A h \in Made : h \in Made' /\ names'[h] = names[h] /\ IsLog(h)' = IsLog(h)
  BY NamesKept DEF ShapeInv
<1>2. /\ engine \in Seq(Engines) /\ Len(engine) = Len(names)
      /\ engine \in [Made -> Engines] /\ DOMAIN engine = Made
      /\ \A h \in Made : /\ IsFiniteSet(engine[h].open)
                         /\ ~IsLog(h) => engine[h].open \subseteq {engine[h].mark}
  BY LenProperties DEF ShapeInv, EngineInv, Made
<1>3. NewEngine \in Engines /\ IsFiniteSet({}) /\ NewEngine.open = {}
  BY FS_EmptySet DEF NewEngine, Engines
<1>4. ASSUME UNCHANGED <<names, engine>>
      PROVE  EngineInv'
  BY <1>1, <1>2, <1>4 DEF EngineInv, Made, IsLog
<1>5. ASSUME NEW n \in Names, Register(n)
      PROVE  EngineInv'
  <2>1. engine' = Append(engine, NewEngine) /\ names' = Append(names, n)
    BY <1>5 DEF Register
  <2>2. /\ engine' \in Seq(Engines) /\ Len(engine') = Len(names) + 1
        /\ Len(names') = Len(names) + 1
        /\ \A h \in Made : engine'[h] = engine[h]
        /\ engine'[Len(names) + 1] = NewEngine
    <3>1. names \in Seq(Names)
      BY DEF ShapeInv, EngineInv
    <3>. QED BY <1>2, <1>3, <2>1, <3>1, AppendProperties DEF Made
  <2>3. \A h \in Made' : h \in Made \/ h = Len(names) + 1
    BY <1>1, <2>2 DEF Made
  <2>4. \A h \in Made' : /\ IsFiniteSet(engine'[h].open)
                         /\ ~IsLog(h)' => engine'[h].open \subseteq {engine'[h].mark}
    BY <1>1, <1>2, <1>3, <2>2, <2>3
  <2>. QED BY <1>1, <2>2, <2>4 DEF EngineInv
\* One engine changes, to one in shape.
<1>6. ASSUME names' = names, NEW h \in Made, NEW e \in Engines,
             engine' = [engine EXCEPT ![h] = e], IsFiniteSet(e.open),
             ~IsLog(h) => e.open \subseteq {e.mark}
      PROVE  EngineInv'
  <2>1. engine' \in Seq(Engines) /\ Len(engine') = Len(engine)
    BY <1>2, <1>6, ExceptSeq DEF Made
  <2>2. \A k \in Made : engine'[k] = IF k = h THEN e ELSE engine[k]
    BY <1>2, <1>6
  <2>3. Made' = Made
    BY <1>6 DEF Made
  <2>. QED BY <1>1, <1>2, <1>6, <2>1, <2>2, <2>3 DEF EngineInv
<1>7. ASSUME NEW w \in Workers, NEW h \in req[w].todo, Push(w, h)
      PROVE  EngineInv'
  <2>. DEFINE a == After(h, req[w].batch)
  <2>1. h \in Made /\ req[w].batch \in Batches
    BY <1>7 DEF ShapeInv, RequestInv, Requests, Push
  <2>2. engine[h] \in Engines
    BY <1>2, <2>1
  <2>3. /\ a.mark \in Times /\ a.open \subseteq Times /\ IsFiniteSet(a.open)
        /\ ~IsLog(h) => a.open \subseteq {a.mark}
    BY <1>2, <2>1, <2>2, AfterIs
  <2>4. names' = names /\ engine' = [engine EXCEPT ![h] = [mark |-> a.mark, open |-> a.open]]
    BY <1>7 DEF Push
  <2>. HIDE DEF a
  <2>5. [mark |-> a.mark, open |-> a.open] \in Engines
    BY <2>3 DEF Engines
  <2>. QED BY <1>6, <2>1, <2>3, <2>4, <2>5
<1>8. ASSUME NEW w \in Workers, NEW h \in req[w].todo, Flush(w, h)
      PROVE  EngineInv'
  <2>1. h \in Made
    BY <1>8 DEF ShapeInv, RequestInv
  <2>2. engine[h] \in Engines
    BY <1>2, <2>1
  <2>3. names' = names /\ engine' = [engine EXCEPT ![h] = [engine[h] EXCEPT !.open = {}]]
    BY <1>8, <1>2, <2>1 DEF Flush
  <2>4. [engine[h] EXCEPT !.open = {}] \in Engines /\ [engine[h] EXCEPT !.open = {}].open = {}
    BY <2>2 DEF Engines
  <2>. QED BY <1>3, <1>6, <2>1, <2>3, <2>4
\* All engines are made anew.
<1>9. ASSUME names' = names, NEW E, E \in [Made -> Engines], engine' = E,
             \A h \in Made : E[h].open = {}
      PROVE  EngineInv'
  <2>1. engine' \in Seq(Engines)
    BY <1>1, <1>9, SeqDef DEF Made
  <2>2. Len(engine') = Len(names)
    BY <1>1, <1>9, <2>1, LenProperties DEF Made
  <2>3. Made' = Made
    BY <1>9 DEF Made
  <2>. QED BY <1>1, <1>3, <1>9, <2>1, <2>2, <2>3 DEF EngineInv
<1>10. ASSUME Exit
       PROVE  EngineInv'
  BY <1>2, <1>3, <1>9, <1>10 DEF Exit
<1>11. ASSUME Start
       PROVE  EngineInv'
  <2>. DEFINE E == [h \in Made |-> IF h \in DOMAIN disk.jobs THEN disk.jobs[h] ELSE NewEngine]
  <2>1. names' = names /\ engine' = E
    BY <1>2, <1>11 DEF Start
  <2>2. E \in [Made -> Engines] /\ \A h \in Made : E[h].open = {}
    BY <1>3 DEF ShapeInv, DiskInv
  <2>. HIDE DEF E
  <2>. QED BY <1>9, <2>1, <2>2
<1>. QED
  BY <1>4, <1>5, <1>7, <1>8, <1>10, <1>11
  DEF vars, jobs, process, history, Next, Request, Step, Save, Delete, Analyze, Begin,
     PointsRequest, IngestRequest, FlushRequest, IncidentsRequest, Publish,
     Correlate, Reconcile, SnapshotTracker, SnapshotList, SnapshotJob, WriteState

LEMMA LiveNext ==
  ASSUME ShapeInv, EngineInv', [Next]_vars
  PROVE  LiveInv'
<1>1. \A h \in Made : h \in Made' /\ names'[h] = names[h]
  BY NamesKept DEF ShapeInv
<1>2. /\ DOMAIN live \subseteq Names
      /\ IsFiniteSet(DOMAIN live) /\ Cardinality(DOMAIN live) <= MaxJobs
      /\ \A n \in DOMAIN live : live[n] \in Made /\ names[live[n]] = n
      /\ MaxJobs \in Nat
  BY LimitsAssumption DEF ShapeInv, LiveInv
<1>3. ASSUME live' = live
      PROVE  LiveInv'
  BY <1>1, <1>2, <1>3 DEF LiveInv
<1>4. ASSUME NEW n \in Names, Register(n)
      PROVE  LiveInv'
  <2>1. /\ live' = Put(live, n, Len(names) + 1) /\ names' = Append(names, n)
        /\ n \in DOMAIN live \/ Cardinality(DOMAIN live) < MaxJobs
    BY <1>4 DEF Register
  <2>2. /\ DOMAIN live' = DOMAIN live \cup {n}
        /\ \A m \in DOMAIN live' : live'[m] = IF m = n THEN Len(names) + 1 ELSE live[m]
    BY <2>1 DEF Put
  <2>3. /\ IsFiniteSet(DOMAIN live')
        /\ Cardinality(DOMAIN live') <= MaxJobs
    <3>1. /\ IsFiniteSet(DOMAIN live \cup {n})
          /\ Cardinality(DOMAIN live \cup {n}) =
               IF n \in DOMAIN live THEN Cardinality(DOMAIN live)
               ELSE Cardinality(DOMAIN live) + 1
      BY <1>2, FS_AddElement
    <3>2. Cardinality(DOMAIN live) \in Nat
      BY <1>2, FS_CardinalityType
    <3>. QED BY <1>2, <2>1, <2>2, <3>1, <3>2
  <2>4. Len(names) + 1 \in Made' /\ names'[Len(names) + 1] = n
    <3>1. names \in Seq(Names) /\ Len(names) \in Nat
      BY LenProperties DEF ShapeInv, EngineInv
    <3>2. Len(names') = Len(names) + 1 /\ names'[Len(names) + 1] = n
      BY <2>1, <3>1, AppendProperties
    <3>. QED BY <3>1, <3>2 DEF Made
  <2>. QED BY <1>1, <1>2, <2>2, <2>3, <2>4 DEF LiveInv
<1>5. ASSUME NEW n \in Names, Delete(n)
      PROVE  LiveInv'
  <2>1. DOMAIN live' = DOMAIN live \ {n} /\ \A m \in DOMAIN live' : live'[m] = live[m]
    BY <1>5 DEF Delete, Without
  <2>2. IsFiniteSet(DOMAIN live') /\ Cardinality(DOMAIN live') <= Cardinality(DOMAIN live)
    BY <1>2, <2>1, FS_Subset
  <2>3. Cardinality(DOMAIN live) \in Nat /\ Cardinality(DOMAIN live') \in Nat
    BY <1>2, <2>2, FS_CardinalityType
  <2>. QED BY <1>1, <1>2, <2>1, <2>2, <2>3 DEF LiveInv
<1>6. ASSUME Exit
      PROVE  LiveInv'
  <2>1. DOMAIN live' = {}
    BY <1>6 DEF Exit
  <2>. QED BY <1>2, <2>1, FS_EmptySet DEF LiveInv
<1>7. ASSUME Start
      PROVE  LiveInv'
  <2>1. /\ DOMAIN live' = DiskNames /\ names' = names
        /\ \A n \in DOMAIN live' : live'[n] = CHOOSE h \in DOMAIN disk.jobs : names[h] = n
    BY <1>7 DEF Start, DiskNames
  <2>2. \A n \in DOMAIN live' : live'[n] \in DOMAIN disk.jobs /\ names[live'[n]] = n
    BY <2>1 DEF DiskNames
  <2>3. /\ DOMAIN disk.jobs \subseteq Made
        /\ IsFiniteSet(DiskNames) /\ Cardinality(DiskNames) <= MaxJobs
    BY DEF ShapeInv, DiskInv
  <2>4. DiskNames \subseteq Names
    <3>1. \A h \in Made : names[h] \in Names
      BY LenProperties DEF ShapeInv, EngineInv, Made
    <3>. QED BY <2>3, <3>1 DEF DiskNames
  <2>5. Made' = Made
    BY <2>1 DEF Made
  <2>. QED BY <2>1, <2>2, <2>3, <2>4, <2>5 DEF LiveInv
<1>. QED
  BY ZenonT(60), <1>3, <1>4, <1>5, <1>6, <1>7
  DEF vars, jobs, process, history, Next, Request, Step, Save, Analyze, Begin,
     PointsRequest, IngestRequest, FlushRequest, IncidentsRequest, Push, Flush, Publish,
     Correlate, Reconcile, SnapshotTracker, SnapshotList, SnapshotJob, WriteState

\* The buckets that a request carries can be listed in order.
LEMMA CarriedIs ==
  ASSUME RequestInv, ListInv, NEW w \in Workers
  PROVE  /\ req[w].out \in SUBSET Buckets /\ OneStream(req[w].out)
         /\ \A b \in req[w].out : b.job \in Made
<1>1. /\ req[w].out \subseteq closed /\ IsFiniteSet(req[w].out) /\ closed \subseteq Buckets
      /\ \A a, b \in req[w].out : a.job = b.job /\ a.call = req[w].call
      /\ \A b \in closed : b.job \in Made
  BY DEF RequestInv, ListInv
<1>2. \A b \in Buckets : b.time \in Int
  <2>1. \A t \in Times : t \in Int
    BY TimesAssumption
  <2>. QED BY <2>1 DEF Buckets
<1>3. \A a, b \in Buckets : a.job = b.job /\ a.call = b.call /\ a.time = b.time => a = b
  BY DEF Buckets
<1>. QED BY <1>1, <1>2, <1>3 DEF OneStream

\* A request gets the buckets B back from an engine.
Gets(w, h, B) ==
  /\ IsFiniteSet(B) /\ closed' = closed \cup B
  /\ \A b \in B : b.job = h /\ b.call = req[w].call
  /\ req' = [req EXCEPT ![w] =
       IF B = {} THEN Rest(req[w], req[w].todo \ {h})
       ELSE [req[w] EXCEPT !.step = "publish", !.todo = req[w].todo \ {h}, !.out = B]]

LEMMA ReturnedIs ==
  ASSUME ShapeInv, NEW w \in Workers, NEW h \in Made, NEW shut, shut \subseteq Times,
         IsFiniteSet(shut), req[w].step = "push", Returned(w, h, shut)
  PROVE  \E B \in SUBSET Buckets :
           /\ B = {Bucket(h, t, req[w].call) : t \in shut \cap Loud}
           /\ \A b \in B : b.time \in shut
           /\ Gets(w, h, B)
<1>. DEFINE B == {Bucket(h, t, req[w].call) : t \in shut \cap Loud}
<1>1. B \in SUBSET Buckets
  <2>1. req[w].call \in 1..MaxCalls /\ h \in Handles
    <3>1. Len(names) <= MaxHandles /\ MaxHandles \in Nat /\ Len(names) \in Nat
      BY LenProperties, BoundsAssumption DEF ShapeInv, EngineInv
    <3>2. h \in Handles
      BY <3>1 DEF Handles, Made
    <3>3. req[w] \in Requests /\ req[w].call # 0
      BY DEF ShapeInv, RequestInv
    <3>4. MaxCalls \in Nat
      BY BoundsAssumption
    <3>. QED BY <3>2, <3>3, <3>4 DEF Requests
  <2>. QED BY <2>1 DEF Bucket, Buckets
<1>2. IsFiniteSet(B)
  <2>. DEFINE S == shut \cap Loud
              f == [t \in S |-> Bucket(h, t, req[w].call)]
  <2>1. IsFiniteSet(S)
    BY FS_Subset
  <2>2. f \in Surjection(S, B)
    BY DEF Surjection
  <2>. HIDE DEF S, B, f
  <2>. QED BY <2>1, <2>2, FS_Surjection
<1>3. \A b \in B : b.job = h /\ b.call = req[w].call /\ b.time \in shut
  BY DEF Bucket
<1>4. /\ closed' = closed \cup B
      /\ req' = [req EXCEPT ![w] =
           IF B = {} THEN Rest(req[w], req[w].todo \ {h})
           ELSE [req[w] EXCEPT !.step = "publish", !.todo = req[w].todo \ {h}, !.out = B]]
  <2>1. req \in [Workers -> Requests]
    BY DEF ShapeInv, RequestInv
  <2>. QED BY <2>1 DEF Returned
<1>5. B = {Bucket(h, t, req[w].call) : t \in shut \cap Loud}
  OBVIOUS
<1>. HIDE DEF B
<1>. QED BY <1>1, <1>2, <1>3, <1>4, <1>5 DEF Gets

LEMMA PushOrFlush ==
  ASSUME ShapeInv, NEW w \in Workers, NEW h \in req[w].todo, Push(w, h) \/ Flush(w, h)
  PROVE  /\ h \in Made /\ req[w].step = "push" /\ up
         /\ UNCHANGED <<live, names, results, known, process, calls, gone, restored>>
         /\ \E B \in SUBSET Buckets : Gets(w, h, B)
<1>1. h \in Made /\ req[w] \in Requests /\ up /\ req[w].step = "push"
  BY DEF ShapeInv, RequestInv, Push, Flush, At
<1>2. /\ engine[h] \in Engines /\ IsFiniteSet(engine[h].open)
      /\ ~IsLog(h) => engine[h].open \subseteq {engine[h].mark}
  BY <1>1, LenProperties DEF ShapeInv, EngineInv, Made
<1>3. CASE Push(w, h)
  <2>1. req[w].batch \in Batches /\ Returned(w, h, After(h, req[w].batch).shut)
    BY <1>1, <1>3 DEF Push, Requests
  <2>2. After(h, req[w].batch).shut \subseteq Times /\ IsFiniteSet(After(h, req[w].batch).shut)
    BY <1>2, <2>1, AfterIs
  <2>3. \E B \in SUBSET Buckets : Gets(w, h, B)
    BY <1>1, <2>1, <2>2, ReturnedIs
  <2>. QED BY <1>1, <1>3, <2>3 DEF Push
<1>4. CASE Flush(w, h)
  <2>1. Returned(w, h, engine[h].open)
    BY <1>4 DEF Flush
  <2>2. engine[h].open \subseteq Times
    BY <1>2 DEF Engines
  <2>3. \E B \in SUBSET Buckets : Gets(w, h, B)
    BY <1>1, <1>2, <2>1, <2>2, ReturnedIs
  <2>. QED BY <1>1, <1>4, <2>3 DEF Flush
<1>. QED BY <1>3, <1>4

\* A publication puts what the request carries on the list of its job.
LEMMA PublishIs ==
  ASSUME ShapeInv, NEW w \in Workers, Publish(w)
  PROVE  \E n \in Names, r \in Seq(Buckets) :
           /\ \A b \in req[w].out : names[b.job] = n
           /\ results' = Put(results, n, r)
           /\ Range(r) \subseteq Range(ResultsOf(n)) \cup req[w].out
           /\ Len(r) = MaxResults \/ Range(r) = Range(ResultsOf(n)) \cup req[w].out
           /\ Len(ResultsOf(n)) = MaxResults => Len(r) = MaxResults
<1>1. /\ req[w].out \in SUBSET Buckets /\ OneStream(req[w].out)
      /\ \A b \in req[w].out : b.job \in Made
  BY CarriedIs DEF ShapeInv
<1>2. PICK n \in {names[b.job] : b \in req[w].out} : PublishTo(n, req[w].out)
  BY DEF Publish
<1>3. n \in Names /\ \A b \in req[w].out : names[b.job] = n
  <2>1. PICK a \in req[w].out : n = names[a.job]
    BY <1>2
  <2>2. \A b \in req[w].out : b.job = a.job
    BY DEF ShapeInv, RequestInv
  <2>3. names[a.job] \in Names
    BY <1>1, LenProperties DEF ShapeInv, EngineInv, Made
  <2>. QED BY <2>1, <2>2, <2>3
<1>4. ResultsOf(n) \in Seq(Buckets)
  <2>1. n \in DOMAIN results => results[n] \in Seq(Buckets)
    BY DEF ShapeInv, ListInv
  <2>. QED BY <2>1, EmptySeq DEF ResultsOf
<1>. DEFINE r == Trimmed(ResultsOf(n) \o InOrder(req[w].out))
<1>5. results' = Put(results, n, r)
  BY <1>2 DEF PublishTo
<1>6. /\ r \in Seq(Buckets)
      /\ Range(r) \subseteq Range(ResultsOf(n)) \cup req[w].out
      /\ Len(r) = MaxResults \/ Range(r) = Range(ResultsOf(n)) \cup req[w].out
      /\ Len(ResultsOf(n)) = MaxResults => Len(r) = MaxResults
  BY <1>1, <1>4, ListGrows
<1>. HIDE DEF r
<1>. QED BY <1>3, <1>5, <1>6

LEMMA ListNext ==
  ASSUME ShapeInv, [Next]_vars
  PROVE  ListInv'
<1>1. /\ \A h \in Made : h \in Made' /\ names'[h] = names[h]
      /\ Batch \notin Made
  BY NamesKept DEF ShapeInv, Batch, Made
<1>2. /\ closed \subseteq Buckets /\ \A b \in closed : b.job \in Made
      /\ DOMAIN results \subseteq Names
      /\ \A n \in DOMAIN results :
           /\ results[n] \in Seq(Buckets)
           /\ \A b \in Range(results[n]) :
                b.job = Batch \/ (b \in closed /\ names[b.job] = n)
  BY DEF ShapeInv, ListInv
<1>3. ASSUME results' = results, closed' = closed
      PROVE  ListInv'
  BY <1>1, <1>2, <1>3 DEF ListInv
<1>4. ASSUME NEW n \in Names, Register(n)
      PROVE  ListInv'
  <2>1. /\ closed' = closed /\ DOMAIN results' \subseteq DOMAIN results
        /\ \A m \in DOMAIN results' : results'[m] = results[m]
    BY <1>4 DEF Register, Without
  <2>. QED BY <1>1, <1>2, <2>1 DEF ListInv
<1>5. ASSUME NEW n \in Names, NEW batch \in Batches, Analyze(n, batch)
      PROVE  ListInv'
  <2>1. calls \in 0..MaxCalls /\ MaxCalls \in Nat
    BY BoundsAssumption DEF ShapeInv, RequestInv
  <2>2. closed' = closed /\ calls' = calls + 1 /\ calls < MaxCalls /\ calls' \in 1..MaxCalls
    BY <1>5, <2>1 DEF Analyze, Call
  <2>. DEFINE B == {Bucket(Batch, t, calls') : t \in batch}
  <2>3. B \in SUBSET Buckets /\ \A b \in B : b.job = Batch
    <3>1. batch \subseteq Times
      BY TimesAssumption
    <3>. QED BY <2>2, <3>1 DEF Bucket, Buckets
  <2>4. OneStream(B)
    <3>1. IsFiniteSet(batch) /\ \A t \in batch : t \in Int
      BY TimesAssumption
    <3>. DEFINE f == [t \in batch |-> Bucket(Batch, t, calls')]
    <3>2. f \in Surjection(batch, B)
      BY DEF Surjection
    <3>3. \A b \in B : b.time \in Int
      BY <3>1 DEF Bucket
    <3>4. \A a, b \in B : a.time = b.time => a = b
      BY DEF Bucket
    <3>. HIDE DEF f, B
    <3>. QED BY <3>1, <3>2, <3>3, <3>4, FS_Surjection DEF OneStream
  <2>5. PICK kept \in SUBSET DOMAIN results :
          results' = Put([m \in kept |-> results[m]], n, InOrder(B))
    BY <1>5 DEF Analyze
  <2>. HIDE DEF B
  <2>6. InOrder(B) \in Seq(Buckets) /\ Range(InOrder(B)) = B
    BY <2>3, <2>4, ListingIs
  <2>7. /\ DOMAIN results' = kept \cup {n}
        /\ \A m \in DOMAIN results' : results'[m] = IF m = n THEN InOrder(B) ELSE results[m]
    BY <2>5 DEF Put
  <2>. QED BY <1>1, <1>2, <2>2, <2>3, <2>6, <2>7 DEF ListInv
<1>6. ASSUME NEW w \in Workers, NEW h \in req[w].todo, Push(w, h) \/ Flush(w, h)
      PROVE  ListInv'
  <2>1. PICK B \in SUBSET Buckets : Gets(w, h, B)
    BY <1>6, PushOrFlush
  <2>2. h \in Made /\ results' = results
    BY <1>6, PushOrFlush
  <2>3. closed' = closed \cup B /\ \A b \in B : b.job = h
    BY <2>1 DEF Gets
  <2>. QED BY <1>1, <1>2, <2>2, <2>3 DEF ListInv
<1>7. ASSUME NEW w \in Workers, Publish(w)
      PROVE  ListInv'
  <2>1. PICK n \in Names, r \in Seq(Buckets) :
          /\ \A b \in req[w].out : names[b.job] = n
          /\ results' = Put(results, n, r)
          /\ Range(r) \subseteq Range(ResultsOf(n)) \cup req[w].out
    BY <1>7, PublishIs
  <2>2. /\ DOMAIN results' = DOMAIN results \cup {n}
        /\ \A m \in DOMAIN results' : results'[m] = IF m = n THEN r ELSE results[m]
    BY <2>1 DEF Put
  <2>3. closed' = closed /\ req[w].out \subseteq closed
    BY <1>7 DEF Publish, history, ShapeInv, RequestInv
  <2>4. \A b \in Range(ResultsOf(n)) : n \in DOMAIN results /\ b \in Range(results[n])
    <3>1. Range(<<>>) = {}
      BY DEF Range
    <3>. QED BY <3>1 DEF ResultsOf
  <2>. QED BY <1>1, <1>2, <2>1, <2>2, <2>3, <2>4 DEF ListInv
<1>8. ASSUME Exit
      PROVE  ListInv'
  <2>1. DOMAIN results' = {} /\ closed' = {}
    BY <1>8 DEF Exit
  <2>. QED BY <2>1 DEF ListInv
<1>. QED
  BY <1>3, <1>4, <1>5, <1>6, <1>7, <1>8
  DEF vars, jobs, process, history, Next, Request, Step, Save, Delete, Begin,
     PointsRequest, IngestRequest, FlushRequest, IncidentsRequest,
     Correlate, Reconcile, SnapshotTracker, SnapshotList, SnapshotJob, WriteState, Start

\* One request moves on, in its call or in a new one.
Moves(w, r) ==
  /\ r \in Requests
  /\ r.todo \subseteq Made /\ r.call <= calls'
  /\ r.step = "idle" => r = Idle
  /\ r.step # "idle" =>
       /\ r.call # 0
       /\ (r.call = req[w].call /\ req[w].step # "idle") \/ (r.call = calls' /\ calls < calls')
  /\ r.step \in {"idle", "push"} => r.out = {}
  /\ r.out \subseteq closed' /\ IsFiniteSet(r.out)
  /\ \A a, b \in r.out : a.job = b.job /\ a.call = r.call

LEMMA OneMoves ==
  ASSUME ShapeInv, [Next]_vars, NEW w \in Workers, NEW r, Moves(w, r),
         req' = [req EXCEPT ![w] = r], calls' \in 0..MaxCalls, calls <= calls',
         closed \subseteq closed'
  PROVE  RequestInv'
<1>1. \A h \in Made : h \in Made'
  BY NamesKept DEF ShapeInv
<1>2. req' \in [Workers -> Requests] /\ \A v \in Workers : req'[v] = IF v = w THEN r ELSE req[v]
  BY DEF ShapeInv, RequestInv, Moves
<1>3. calls \in Int /\ calls' \in Int /\ \A v \in Workers : req[v].call \in Int
  <2>1. MaxCalls \in Nat /\ \A v \in Workers : req[v] \in Requests
    BY BoundsAssumption DEF ShapeInv, RequestInv
  <2>2. \A v \in Workers : req[v].call \in 0..MaxCalls
    BY <2>1 DEF Requests
  <2>. QED BY <2>1, <2>2 DEF ShapeInv, RequestInv
<1>4. ASSUME NEW v \in Workers
      PROVE  /\ req'[v].todo \subseteq Made' /\ req'[v].call <= calls'
             /\ req'[v].step = "idle" => req'[v] = Idle
             /\ req'[v].step # "idle" => req'[v].call # 0
             /\ req'[v].step \in {"idle", "push"} => req'[v].out = {}
             /\ req'[v].out \subseteq closed' /\ IsFiniteSet(req'[v].out)
             /\ \A a, b \in req'[v].out : a.job = b.job /\ a.call = req'[v].call
  <2>1. CASE v = w
    BY <1>1, <1>2, <2>1 DEF Moves
  <2>2. CASE v # w
    BY <1>1, <1>2, <1>3, <2>2 DEF ShapeInv, RequestInv
  <2>. QED BY <2>1, <2>2
<1>5. \A u, v \in Workers :
        u # v /\ req'[u].step # "idle" /\ req'[v].step # "idle" => req'[u].call # req'[v].call
  <2>1. \A v \in Workers : v # w /\ req[v].step # "idle" /\ r.step # "idle"
                             => req[v].call # r.call
    <3>1. \A v \in Workers : req[v].call <= calls
      BY DEF ShapeInv, RequestInv
    <3>. QED BY <1>3, <3>1 DEF Moves, ShapeInv, RequestInv
  <2>. QED BY <1>2, <2>1 DEF ShapeInv, RequestInv
<1>. QED BY <1>2, <1>4, <1>5 DEF RequestInv

\* What a request does when it has told its buckets, or had none to tell.
LEMMA RestMoves ==
  ASSUME ShapeInv, NEW w \in Workers, req[w].step # "idle", calls' = calls,
         NEW T \in SUBSET req[w].todo
  PROVE  Moves(w, Rest(req[w], T))
<1>1. /\ req[w] \in Requests /\ req[w].todo \subseteq Made /\ req[w].call <= calls
      /\ req[w].call # 0
  BY DEF ShapeInv, RequestInv
<1>2. CASE T = {}
  <2>1. Rest(req[w], T) = Idle
    BY <1>2 DEF Rest
  <2>2. Idle \in Requests /\ Idle.call <= calls
    <3>1. MaxCalls \in Nat /\ calls \in 0..MaxCalls
      BY BoundsAssumption DEF ShapeInv, RequestInv
    <3>. QED BY <3>1 DEF Idle, Requests, StepNames
  <2>3. Idle.todo = {} /\ Idle.out = {} /\ Idle.step = "idle"
    BY DEF Idle
  <2>. QED BY <2>1, <2>2, <2>3, FS_EmptySet DEF Moves
<1>3. CASE T # {}
  <2>. DEFINE r == [req[w] EXCEPT !.step = "push", !.todo = T, !.out = {}, !.view = {}]
  <2>1. Rest(req[w], T) = r
    BY <1>3 DEF Rest
  <2>2. /\ r \in Requests /\ r.step = "push" /\ r.todo = T /\ r.out = {}
        /\ r.call = req[w].call
    BY <1>1 DEF Requests, StepNames
  <2>. HIDE DEF r
  <2>. QED BY <1>1, <2>1, <2>2, FS_EmptySet DEF Moves
<1>. QED BY <1>2, <1>3

LEMMA RequestNext ==
  ASSUME ShapeInv, [Next]_vars
  PROVE  RequestInv'
<1>1. /\ calls \in 0..MaxCalls /\ MaxCalls \in Nat /\ calls \in Nat
      /\ req \in [Workers -> Requests]
      /\ \A w \in Workers :
           /\ req[w] \in Requests /\ req[w].todo \subseteq Made
           /\ req[w].out \subseteq closed /\ IsFiniteSet(req[w].out)
           /\ \A a, b \in req[w].out : a.job = b.job /\ a.call = req[w].call
  BY BoundsAssumption DEF ShapeInv, RequestInv
<1>2. \A h \in Made : h \in Made'
  BY NamesKept DEF ShapeInv
<1>3. ASSUME req' = req, calls' = calls, closed' = closed
      PROVE  RequestInv'
  BY <1>2, <1>3 DEF ShapeInv, RequestInv
<1>4. ASSUME NEW n \in Names, NEW batch \in Batches, Analyze(n, batch)
      PROVE  RequestInv'
  <2>1. /\ req' = req /\ closed' = closed /\ calls' = calls + 1 /\ calls + 1 \in 0..MaxCalls
        /\ \A w \in Workers : req[w].call <= calls
    BY <1>1, <1>4 DEF Analyze, Call, ShapeInv, RequestInv
  <2>2. \A w \in Workers : req[w].call \in Int
    BY <1>1 DEF Requests
  <2>3. \A w \in Workers : req[w].call <= calls + 1
    BY <1>1, <2>1, <2>2
  <2>. QED BY <1>2, <2>1, <2>3 DEF ShapeInv, RequestInv
<1>5. ASSUME NEW w \in Workers, NEW todo \in SUBSET Made, NEW batch \in Batches \cup {{}},
             Begin(w, todo, batch)
      PROVE  RequestInv'
  <2>. DEFINE r == [Idle EXCEPT !.step = "push", !.call = calls', !.todo = todo, !.batch = batch]
  <2>1. /\ calls' = calls + 1 /\ calls + 1 \in 0..MaxCalls /\ calls < calls' /\ calls' # 0
        /\ closed' = closed /\ req' = [req EXCEPT ![w] = r]
    BY <1>1, <1>5 DEF Begin, Call, history
  <2>2. /\ r \in Requests /\ r.step = "push" /\ r.call = calls' /\ r.todo = todo /\ r.out = {}
    <3>1. todo \in SUBSET Handles
      <4>1. Len(names) <= MaxHandles /\ MaxHandles \in Nat /\ Len(names) \in Nat
        BY LenProperties, BoundsAssumption DEF ShapeInv, EngineInv
      <4>. QED BY <4>1 DEF Handles, Made
    <3>. QED BY <1>1, <2>1, <3>1 DEF Requests, StepNames, Idle
  <2>. HIDE DEF r
  <2>3. Moves(w, r)
    BY <1>1, <2>1, <2>2, FS_EmptySet DEF Moves
  <2>. QED
    <3>1. calls' \in 0..MaxCalls /\ calls <= calls' /\ closed \subseteq closed'
      BY <1>1, <2>1, <2>3
    <3>. QED BY <2>1, <2>3, <3>1, OneMoves
<1>6. ASSUME NEW w \in Workers, IncidentsRequest(w)
      PROVE  RequestInv'
  <2>. DEFINE r == [Idle EXCEPT !.step = "correlate", !.call = calls']
  <2>1. /\ calls' = calls + 1 /\ calls + 1 \in 0..MaxCalls /\ calls < calls' /\ calls' # 0
        /\ closed' = closed /\ req[w] = Idle
    BY <1>1, <1>6 DEF IncidentsRequest, Call, history
  <2>2. req' = [req EXCEPT ![w] = r]
    <3>1. req' = [req EXCEPT ![w] = [req[w] EXCEPT !.step = "correlate", !.call = calls']]
      BY <1>1, <1>6 DEF IncidentsRequest, Requests
    <3>. QED BY <2>1, <3>1
  <2>3. /\ r \in Requests /\ r.step = "correlate" /\ r.call = calls' /\ r.todo = {}
        /\ r.out = {}
    BY <1>1, <2>1 DEF Requests, StepNames, Idle
  <2>. HIDE DEF r
  <2>4. Moves(w, r)
    BY <1>1, <2>1, <2>3, FS_EmptySet DEF Moves
  <2>. QED
    <3>1. calls' \in 0..MaxCalls /\ calls <= calls' /\ closed \subseteq closed'
      BY <1>1, <2>1, <2>2, <2>4
    <3>. QED BY <2>1, <2>2, <2>4, <3>1, OneMoves
<1>7. ASSUME NEW w \in Workers, NEW h \in req[w].todo, Push(w, h) \/ Flush(w, h)
      PROVE  RequestInv'
  <2>1. h \in Made /\ req[w].step = "push" /\ calls' = calls
    BY <1>7, PushOrFlush
  <2>2. PICK B \in SUBSET Buckets : Gets(w, h, B)
    BY <1>7, PushOrFlush
  <2>3. closed' = closed \cup B /\ IsFiniteSet(B)
        /\ \A b \in B : b.job = h /\ b.call = req[w].call
    BY <2>2 DEF Gets
  <2>4. CASE B = {}
    <3>1. req' = [req EXCEPT ![w] = Rest(req[w], req[w].todo \ {h})]
      BY <2>2, <2>4 DEF Gets
    <3>2. Moves(w, Rest(req[w], req[w].todo \ {h}))
      BY <2>1, RestMoves
    <3>. QED
      <4>1. calls' \in 0..MaxCalls /\ calls <= calls' /\ closed \subseteq closed'
        BY <1>1, <2>1, <2>3, <3>1, <3>2
      <4>. QED BY <2>1, <2>3, <3>1, <3>2, <4>1, OneMoves
  <2>5. CASE B # {}
    <3>. DEFINE r == [req[w] EXCEPT !.step = "publish", !.todo = req[w].todo \ {h}, !.out = B]
    <3>1. req' = [req EXCEPT ![w] = r]
      BY <2>2, <2>5 DEF Gets
    <3>2. /\ r \in Requests /\ r.step = "publish" /\ r.call = req[w].call
          /\ r.todo \subseteq req[w].todo /\ r.out = B
      BY <1>1 DEF Requests, StepNames
    <3>3. req[w].call # 0 /\ req[w].call <= calls
      BY <2>1 DEF ShapeInv, RequestInv
    <3>. HIDE DEF r
    <3>4. Moves(w, r)
      BY <1>1, <2>1, <2>3, <3>2, <3>3 DEF Moves
    <3>. QED
      <4>1. calls' \in 0..MaxCalls /\ calls <= calls' /\ closed \subseteq closed'
        BY <1>1, <2>1, <2>3, <3>1, <3>4
      <4>. QED BY <2>1, <2>3, <3>1, <3>4, <4>1, OneMoves
  <2>. QED BY <2>4, <2>5
\* Steps that leave the request in its call, with what it carries.
<1>8. ASSUME NEW w \in Workers, NEW r \in Requests, req' = [req EXCEPT ![w] = r],
             calls' = calls, closed' = closed, req[w].step # "idle",
             r.step \in {"correlate", "reconcile"}, r.out = req[w].out,
             r.todo = req[w].todo, r.call = req[w].call
      PROVE  RequestInv'
  <2>1. req[w].call # 0 /\ req[w].call <= calls
    BY <1>8 DEF ShapeInv, RequestInv
  <2>2. Moves(w, r)
    BY <1>1, <1>8, <2>1 DEF Moves
  <2>. QED
    <3>1. calls' \in 0..MaxCalls /\ calls <= calls' /\ closed \subseteq closed'
      BY <1>1, <1>8, <2>2
    <3>. QED BY <1>8, <2>2, <3>1, OneMoves
<1>9. ASSUME NEW w \in Workers, Publish(w)
      PROVE  RequestInv'
  <2>. DEFINE r == [req[w] EXCEPT !.step = "correlate"]
  <2>1. /\ req' = [req EXCEPT ![w] = r] /\ calls' = calls /\ closed' = closed
        /\ req[w].step = "publish"
    BY <1>1, <1>9 DEF Publish, At, history
  <2>2. /\ r \in Requests /\ r.step = "correlate" /\ r.out = req[w].out
        /\ r.todo = req[w].todo /\ r.call = req[w].call
    BY <1>1 DEF Requests, StepNames
  <2>. HIDE DEF r
  <2>. QED BY <1>8, <2>1, <2>2
<1>10. ASSUME NEW w \in Workers, Correlate(w)
       PROVE  RequestInv'
  <2>. DEFINE r == [req[w] EXCEPT !.step = "reconcile", !.view = Listed]
  <2>1. /\ req' = [req EXCEPT ![w] = r] /\ calls' = calls /\ closed' = closed
        /\ req[w].step = "correlate"
    BY <1>1, <1>10 DEF Correlate, At, history
  <2>2. Listed \subseteq Buckets
    <3>1. \A n \in DOMAIN results : Range(results[n]) \subseteq Buckets
      BY LenProperties DEF ShapeInv, ListInv, Range
    <3>. QED BY <3>1 DEF Listed
  <2>3. /\ r \in Requests /\ r.step = "reconcile" /\ r.out = req[w].out
        /\ r.todo = req[w].todo /\ r.call = req[w].call
    BY <1>1, <2>2 DEF Requests, StepNames
  <2>. HIDE DEF r
  <2>. QED BY <1>8, <2>1, <2>3
<1>11. ASSUME NEW w \in Workers, Reconcile(w)
       PROVE  RequestInv'
  <2>1. /\ req' = [req EXCEPT ![w] = Rest(req[w], req[w].todo)]
        /\ calls' = calls /\ closed' = closed /\ req[w].step = "reconcile"
    BY <1>1, <1>11 DEF Reconcile, At, history
  <2>2. Moves(w, Rest(req[w], req[w].todo))
    BY <2>1, RestMoves
  <2>. QED
    <3>1. calls' \in 0..MaxCalls /\ calls <= calls' /\ closed \subseteq closed'
      BY <1>1, <2>1, <2>2
    <3>. QED BY <2>1, <2>2, <3>1, OneMoves
<1>12. ASSUME Exit
       PROVE  RequestInv'
  <2>1. /\ calls' = calls /\ closed' = {} /\ \A w \in Workers : req'[w] = Idle
        /\ req' = [w \in Workers |-> Idle]
    BY <1>12 DEF Exit
  <2>2. /\ Idle \in Requests /\ Idle.todo = {} /\ Idle.out = {} /\ Idle.step = "idle"
        /\ Idle.call = 0
    BY <1>1 DEF Idle, Requests, StepNames
  <2>. HIDE DEF Idle
  <2>3. \A w \in Workers :
          /\ req'[w].todo = {} /\ req'[w].call <= calls' /\ req'[w].step = "idle"
          /\ req'[w] = Idle /\ req'[w].out = {} /\ IsFiniteSet(req'[w].out)
    <3>. TAKE w \in Workers
    <3>1. req'[w] = Idle /\ 0 <= calls' /\ IsFiniteSet({})
      BY <1>1, <2>1, FS_EmptySet
    <3>. QED BY <2>2, <3>1
  <2>4. req' \in [Workers -> Requests]
    BY <2>1, <2>2
  <2>. QED BY <1>1, <2>1, <2>3, <2>4 DEF RequestInv
<1>13. ASSUME NEW w \in Workers, Request(w)
       PROVE  RequestInv'
  <2>1. \A n \in DOMAIN live : live[n] \in Made
    BY DEF ShapeInv, LiveInv
  <2>2. \A n : Kind(n) \in SUBSET Made
    BY <2>1 DEF Kind
  <2>3. ASSUME NEW n \in Names, FlushRequest(w, n)
        PROVE  RequestInv'
    BY <1>5, <2>1, <2>3 DEF FlushRequest
  <2>4. ASSUME NEW n \in Names, NEW batch \in Batches,
               PointsRequest(w, n, batch) \/ IngestRequest(w, n, batch)
        PROVE  RequestInv'
    BY <1>5, <2>1, <2>2, <2>4 DEF PointsRequest, IngestRequest
  <2>. QED BY <1>6, <1>13, <2>3, <2>4 DEF Request
<1>. QED
  BY <1>3, <1>4, <1>7, <1>9, <1>10, <1>11, <1>12, <1>13
  DEF vars, jobs, process, history, Next, Step, Save, Register, Delete,
      SnapshotTracker, SnapshotList, SnapshotJob, WriteState, Start

LEMMA SaverNext ==
  ASSUME ShapeInv, [Next]_vars
  PROVE  SaverInv' /\ DiskInv'
<1>1. \A h \in Made : h \in Made' /\ names'[h] = names[h]
  BY NamesKept DEF ShapeInv
<1>2. /\ saver = [step |-> saver.step, known |-> saver.known,
                  todo |-> saver.todo, jobs |-> saver.jobs]
      /\ saver.todo \cup DOMAIN saver.jobs \subseteq Made
      /\ saver.step = "list" => saver.jobs = <<>>
      /\ \A h \in DOMAIN saver.jobs : saver.jobs[h] \in Engines /\ saver.jobs[h].open = {}
      /\ IsFiniteSet(SaverNames) /\ Cardinality(SaverNames) <= MaxJobs
  BY DEF ShapeInv, SaverInv
<1>3. /\ DOMAIN disk.jobs \subseteq Made
      /\ \A h \in DOMAIN disk.jobs : disk.jobs[h] \in Engines /\ disk.jobs[h].open = {}
      /\ IsFiniteSet(DiskNames) /\ Cardinality(DiskNames) <= MaxJobs
  BY DEF ShapeInv, DiskInv
<1>4. saver' = saver => SaverInv'
  <2>. SUFFICES ASSUME saver' = saver PROVE SaverInv'
    OBVIOUS
  <2>1. SaverNames' = SaverNames
    BY <1>1, <1>2 DEF SaverNames
  <2>. QED BY <1>1, <1>2, <2>1 DEF SaverInv
<1>5. disk' = disk => DiskInv'
  <2>. SUFFICES ASSUME disk' = disk PROVE DiskInv'
    OBVIOUS
  <2>1. DiskNames' = DiskNames
    BY <1>1, <1>3 DEF DiskNames
  <2>. QED BY <1>1, <1>3, <2>1 DEF DiskInv
<1>6. saver' = NoSave => SaverInv'
  <2>. SUFFICES ASSUME saver' = NoSave PROVE SaverInv'
    OBVIOUS
  <2>1. saver'.todo = {} /\ DOMAIN saver'.jobs = {} /\ saver'.jobs = <<>>
    BY DEF NoSave
  <2>2. SaverNames' = {} /\ MaxJobs \in Nat
    BY <2>1, LimitsAssumption DEF SaverNames
  <2>3. saver' = [step |-> saver'.step, known |-> saver'.known,
                  todo |-> saver'.todo, jobs |-> saver'.jobs]
    BY DEF NoSave
  <2>. QED BY <2>1, <2>2, <2>3, FS_EmptySet DEF SaverInv
<1>7. ASSUME SnapshotTracker
      PROVE  SaverInv' /\ DiskInv'
  <2>1. /\ saver' = [NoSave EXCEPT !.step = "list", !.known = known] /\ disk' = disk
    BY <1>7 DEF SnapshotTracker
  <2>2. saver'.todo = {} /\ DOMAIN saver'.jobs = {} /\ saver'.jobs = <<>>
    BY <2>1 DEF NoSave
  <2>3. SaverNames' = {} /\ MaxJobs \in Nat
    BY <2>2, LimitsAssumption DEF SaverNames
  <2>4. saver' = [step |-> saver'.step, known |-> saver'.known,
                  todo |-> saver'.todo, jobs |-> saver'.jobs]
    BY <2>1 DEF NoSave
  <2>. QED BY <1>5, <2>1, <2>2, <2>3, <2>4, FS_EmptySet DEF SaverInv
<1>8. ASSUME SnapshotList
      PROVE  SaverInv' /\ DiskInv'
  <2>1. /\ saver' = [saver EXCEPT !.step = "jobs", !.todo = Range(live)] /\ disk' = disk
        /\ names' = names
    BY <1>8 DEF SnapshotList, jobs
  <2>2. saver'.todo = Range(live) /\ saver'.jobs = saver.jobs /\ saver'.step = "jobs"
    BY <1>2, <2>1
  <2>3. saver' = [step |-> saver'.step, known |-> saver'.known,
                  todo |-> saver'.todo, jobs |-> saver'.jobs]
    BY <1>2, <2>1
  <2>4. /\ \A n \in DOMAIN live : live[n] \in Made /\ names[live[n]] = n
        /\ IsFiniteSet(DOMAIN live) /\ Cardinality(DOMAIN live) <= MaxJobs
    BY DEF ShapeInv, LiveInv
  <2>. QED
    <3>1. DOMAIN saver.jobs = {} 
      BY <1>8 DEF SnapshotList, ShapeInv, SaverInv
    <3>2. SaverNames' = DOMAIN live
      BY <2>1, <2>2, <2>4, <3>1 DEF SaverNames, Range
    <3>. QED BY <1>1, <1>2, <1>5, <2>1, <2>2, <2>3, <2>4, <3>2 DEF SaverInv, Range
<1>9. ASSUME NEW h \in saver.todo, SnapshotJob(h)
      PROVE  SaverInv' /\ DiskInv'
  <2>1. /\ saver' = [saver EXCEPT !.todo = saver.todo \ {h},
                                  !.jobs = Put(saver.jobs, h, SavedEngine(h))]
        /\ disk' = disk /\ names' = names
    BY <1>2, <1>9 DEF SnapshotJob, jobs
  <2>2. /\ saver'.todo = saver.todo \ {h} /\ saver'.jobs = Put(saver.jobs, h, SavedEngine(h))
        /\ saver'.step = saver.step /\ saver.step = "jobs"
        /\ saver' = [step |-> saver'.step, known |-> saver'.known,
                     todo |-> saver'.todo, jobs |-> saver'.jobs]
    BY <1>2, <1>9, <2>1 DEF SnapshotJob
  <2>3. /\ DOMAIN saver'.jobs = DOMAIN saver.jobs \cup {h}
        /\ \A k \in DOMAIN saver'.jobs :
             saver'.jobs[k] = IF k = h THEN SavedEngine(h) ELSE saver.jobs[k]
    BY <2>2 DEF Put
  <2>4. SavedEngine(h) \in Engines /\ SavedEngine(h).open = {}
    <3>1. engine[h] \in Engines
      BY <1>2, LenProperties DEF ShapeInv, EngineInv, Made
    <3>. QED BY <3>1 DEF SavedEngine, Engines
  <2>5. saver'.todo \cup DOMAIN saver'.jobs = saver.todo \cup DOMAIN saver.jobs
    BY <2>2, <2>3
  <2>6. SaverNames' = SaverNames
    BY <2>1, <2>5 DEF SaverNames
  <2>. QED BY <1>1, <1>2, <1>5, <2>1, <2>2, <2>3, <2>4, <2>5, <2>6 DEF SaverInv
<1>10. ASSUME NEW ok \in BOOLEAN, WriteState(ok)
       PROVE  SaverInv' /\ DiskInv'
  <2>1. saver' = NoSave /\ names' = names /\ saver.todo = {}
        /\ disk' = IF ok THEN [known |-> SavedKnown, jobs |-> saver.jobs] ELSE disk
    BY <1>10 DEF WriteState, jobs
  <2>2. CASE ok
    <3>1. disk'.jobs = saver.jobs
      BY <2>1, <2>2
    <3>2. DiskNames' = SaverNames
      BY <2>1, <3>1 DEF DiskNames, SaverNames
    <3>. QED BY <1>1, <1>2, <1>6, <2>1, <3>1, <3>2 DEF DiskInv
  <2>. QED BY <1>5, <1>6, <2>1, <2>2
<1>11. ASSUME Exit
       PROVE  SaverInv' /\ DiskInv'
  BY <1>5, <1>6, <1>11 DEF Exit
<1>. QED
  BY ZenonT(60), <1>4, <1>5, <1>7, <1>8, <1>9, <1>10, <1>11
  DEF vars, jobs, process, history, Next, Request, Step, Save, Register, Delete, Analyze,
      Begin, PointsRequest, IngestRequest, FlushRequest, IncidentsRequest, Push, Flush,
      Publish, Correlate, Reconcile, Start

LEMMA DownNext ==
  ASSUME ShapeInv, [Next]_vars
  PROVE  DownInv'
<1>1. CASE Exit
  BY <1>1 DEF Exit, DownInv
<1>2. CASE Start
  BY <1>2 DEF Start, DownInv
<1>3. CASE UNCHANGED vars
  BY <1>3 DEF vars, jobs, process, history, DownInv, ShapeInv
<1>4. (up /\ up' = up) \/ Exit \/ Start \/ UNCHANGED vars
  <2>1. \A w \in Workers : req[w].todo # {} => req[w].step # "idle"
    BY DEF ShapeInv, RequestInv, Idle
  <2>. QED
    BY ZenonT(60) DEF vars, jobs, process, history, Next, Request, Step, Save, Register, Delete,
      Analyze, Begin, PointsRequest, IngestRequest, FlushRequest, IncidentsRequest, Push,
      Flush, Publish, Correlate, Reconcile, At,
      SnapshotTracker, SnapshotList, SnapshotJob, WriteState
<1>. QED BY <1>1, <1>2, <1>3, <1>4 DEF DownInv

LEMMA ShapeNext ==
  ASSUME ShapeInv, [Next]_vars
  PROVE  ShapeInv'
<1>1. EngineInv'
  BY EngineNext
<1>2. LiveInv'
  BY <1>1, LiveNext
<1>3. ListInv' /\ RequestInv' /\ SaverInv' /\ DiskInv' /\ DownInv'
  BY ListNext, RequestNext, SaverNext, DownNext
<1>. QED BY <1>1, <1>2, <1>3 DEF ShapeInv

LEMMA ShapeOK == ShapeInv => TypeOK
<1>. SUFFICES ASSUME ShapeInv PROVE TypeOK
  OBVIOUS
<1>1. /\ names \in Seq(Names) /\ Len(names) <= MaxHandles /\ Len(names) \in Nat
      /\ engine \in Seq(Engines) /\ Len(engine) = Len(names) /\ DOMAIN engine = Made
      /\ \A h \in Made : ~IsLog(h) => engine[h].open \subseteq {engine[h].mark}
  BY LenProperties DEF ShapeInv, EngineInv, Made
<1>2. \A n \in DOMAIN results : Range(results[n]) \subseteq Buckets
  BY LenProperties DEF ShapeInv, ListInv, Range
<1>3. Listed \subseteq Buckets /\ DOMAIN results \subseteq Names
  BY <1>2 DEF Listed, ShapeInv, ListInv
<1>4. \A w \in Workers : req[w].out \subseteq closed /\ req[w].todo \subseteq Handles
  BY DEF ShapeInv, RequestInv, Requests
<1>5. /\ DOMAIN live \subseteq Names /\ Cardinality(DOMAIN live) <= MaxJobs
      /\ \A n \in DOMAIN live : names[live[n]] = n
  BY DEF ShapeInv, LiveInv
<1>. QED BY <1>1, <1>3, <1>4, <1>5 DEF TypeOK

-----------------------------------------------------------------------------
(* What was closed is listed, and then told to the tracker.                *)

\* The bucket is on its list, or its list is full.
Stands(b) == b \in Range(ResultsOf(names[b.job])) \/ Full(b)

\* What a request is about to hand to the tracker holds what it published.
ToldInv ==
  \A w \in Workers : req[w].step = "reconcile" =>
    \A b \in req[w].out : b \in req[w].view \cup gone \/ Full(b)

TrackedInv == ShapeInv /\ NothingUnlisted /\ ToldInv /\ AnomalyCorrelated

LEMMA OutsApart ==
  ASSUME ShapeInv, NEW v \in Workers, NEW w \in Workers, v # w
  PROVE  req[v].out \cap req[w].out = {}
<1>1. \A u \in Workers : /\ req[u].step = "idle" => req[u].out = {}
                         /\ \A b \in req[u].out : b.call = req[u].call
  BY DEF ShapeInv, RequestInv
<1>2. req[v].step # "idle" /\ req[w].step # "idle" => req[v].call # req[w].call
  BY DEF ShapeInv, RequestInv
<1>. QED BY <1>1, <1>2

\* A closed bucket can only be on the list of its own job.
LEMMA OwnList ==
  ASSUME ShapeInv, NEW b \in closed
  PROVE  b \in Listed <=> b \in Range(ResultsOf(names[b.job]))
<1>1. b.job \in Made /\ b.job # Batch
  BY DEF ShapeInv, ListInv, Made, Batch
<1>2. \A n \in DOMAIN results : b \in Range(results[n]) => names[b.job] = n
  BY <1>1 DEF ShapeInv, ListInv
<1>3. Range(<<>>) = {}
  BY DEF Range
<1>. QED BY <1>2, <1>3 DEF Listed, ResultsOf

\* What a step does to the requests and to what they carry.
Quiet == req' = req /\ closed' = closed /\ (known' = known \/ Start)

Receives(w) ==
  \E r : /\ req' = [req EXCEPT ![w] = r] /\ req[w].out = {}
         /\ r.step # "reconcile" /\ (r.step = "publish" \/ r.out = {})
         /\ closed' = closed \cup r.out
         /\ UNCHANGED <<results, known, gone, names>>

LEMMA StepKinds ==
  ASSUME ShapeInv, [Next]_vars
  PROVE  \/ Quiet \/ Exit
         \/ \E w \in Workers : Receives(w) \/ Publish(w) \/ Correlate(w) \/ Reconcile(w)
<1>1. req \in [Workers -> Requests] /\ Idle.out = {}
  BY DEF ShapeInv, RequestInv, Idle
<1>2. ASSUME NEW w \in Workers, Request(w)
      PROVE  Receives(w)
  <2>1. ASSUME NEW todo, NEW batch, Begin(w, todo, batch)
        PROVE  Receives(w)
    <3>. DEFINE r == [Idle EXCEPT !.step = "push", !.call = calls', !.todo = todo, !.batch = batch]
    <3>1. /\ req' = [req EXCEPT ![w] = r] /\ req[w] = Idle /\ closed' = closed
          /\ UNCHANGED <<results, known, gone, names>>
      BY <2>1 DEF Begin, jobs, history
    <3>2. r.step = "push" /\ r.out = {}
      BY DEF Idle
    <3>. HIDE DEF r
    <3>. QED BY <1>1, <3>1, <3>2 DEF Receives
  <2>2. ASSUME IncidentsRequest(w)
        PROVE  Receives(w)
    <3>. DEFINE r == [Idle EXCEPT !.step = "correlate", !.call = calls']
    <3>1. /\ req' = [req EXCEPT ![w] = [req[w] EXCEPT !.step = "correlate", !.call = calls']]
          /\ req[w] = Idle /\ closed' = closed
          /\ UNCHANGED <<results, known, gone, names>>
      BY <1>1, <2>2 DEF IncidentsRequest, jobs, history, Requests
    <3>2. r.step = "correlate" /\ r.out = {}
      BY DEF Idle
    <3>3. req' = [req EXCEPT ![w] = r]
      BY <3>1
    <3>. HIDE DEF r
    <3>. QED BY <1>1, <3>1, <3>2, <3>3 DEF Receives
  <2>. QED BY <1>2, <2>1, <2>2 DEF Request, FlushRequest, PointsRequest, IngestRequest
<1>3. ASSUME NEW w \in Workers, NEW h \in req[w].todo, Push(w, h) \/ Flush(w, h)
      PROVE  Receives(w)
  <2>1. /\ req[w].step = "push" /\ UNCHANGED <<results, known, gone, names>>
        /\ \E B \in SUBSET Buckets : Gets(w, h, B)
    BY <1>3, PushOrFlush
  <2>2. PICK B \in SUBSET Buckets : Gets(w, h, B)
    BY <2>1
  <2>3. req[w].out = {} /\ req[w] \in Requests
    BY <2>1 DEF ShapeInv, RequestInv
  <2>4. CASE B = {}
    <3>. DEFINE r == Rest(req[w], req[w].todo \ {h})
    <3>1. r.step # "reconcile" /\ r.out = {}
      BY <2>3 DEF Rest, Idle, Requests
    <3>2. req' = [req EXCEPT ![w] = r] /\ closed' = closed
      BY <2>2, <2>4 DEF Gets
    <3>. HIDE DEF r
    <3>. QED BY <2>1, <2>3, <3>1, <3>2 DEF Receives
  <2>5. CASE B # {}
    <3>. DEFINE r == [req[w] EXCEPT !.step = "publish", !.todo = req[w].todo \ {h}, !.out = B]
    <3>1. r.step = "publish" /\ r.out = B
      BY <2>3 DEF Requests
    <3>2. req' = [req EXCEPT ![w] = r] /\ closed' = closed \cup B
      BY <2>2, <2>5 DEF Gets
    <3>. HIDE DEF r
    <3>. QED BY <2>1, <2>3, <3>1, <3>2 DEF Receives
  <2>. QED BY <2>4, <2>5
<1>4. ASSUME NEW w \in Workers, Step(w)
      PROVE  Receives(w) \/ Publish(w) \/ Correlate(w) \/ Reconcile(w)
  BY <1>3, <1>4 DEF Step
<1>. QED
  BY <1>2, <1>4
  DEF vars, jobs, process, history, Next, Save, Register, Delete, Analyze, Quiet,
     SnapshotTracker, SnapshotList, SnapshotJob, WriteState, Start

\* Whatever happens to the lists, an anomaly that was on its list, or whose list
\* was full, stays so, or its list was deleted or replaced.
LEMMA ListsKept ==
  ASSUME ShapeInv, [Next]_vars, ~Exit, NEW b \in closed
  PROVE  /\ gone \subseteq gone'
         /\ b \notin Unpublished =>
              /\ Stands(b) => Stands(b)' \/ b \in gone'
              /\ Full(b) => Full(b)' \/ b \in gone'
<1>1. b.job \in Made /\ names'[b.job] = names[b.job]
  BY NamesKept DEF ShapeInv, ListInv
<1>. DEFINE n == names[b.job]
<1>2. ASSUME ResultsOf(n)' = ResultsOf(n), gone \subseteq gone'
      PROVE  /\ Stands(b) => Stands(b)'
             /\ Full(b) => Full(b)'
  <2>1. ResultsOf(names[b.job])' = ResultsOf(names[b.job])
    BY <1>1, <1>2 DEF ResultsOf
  <2>. QED BY <2>1 DEF Stands, Full
<1>3. CASE results' = results /\ gone' = gone
  <2>1. ResultsOf(n)' = IF n \in DOMAIN results' THEN results'[n] ELSE <<>>
    BY <1>1 DEF ResultsOf
  <2>2. ResultsOf(n)' = ResultsOf(n) /\ gone \subseteq gone'
    BY <1>3, <2>1 DEF ResultsOf
  <2>3. /\ Stands(b) => Stands(b)'
        /\ Full(b) => Full(b)'
    BY <1>2, <2>2
  <2>. QED BY <2>2, <2>3
<1>4. ASSUME NEW m \in Names, Register(m)
      PROVE  /\ gone \subseteq gone'
             /\ b \notin Unpublished => b \in gone' \/ ResultsOf(n)' = ResultsOf(n)
  <2>1. results' = Without(results, m) /\ gone' = gone \cup Published({m})
    BY <1>4 DEF Register
  <2>2. CASE n = m
    BY <2>1, <2>2 DEF Published
  <2>3. CASE n # m
    <3>1. ResultsOf(n)' = IF n \in DOMAIN results' THEN results'[n] ELSE <<>>
      BY <1>1 DEF ResultsOf
    <3>. QED BY <2>1, <2>3, <3>1 DEF ResultsOf, Without
  <2>. QED BY <2>2, <2>3
<1>5. ASSUME NEW m \in Names, NEW batch \in Batches, Analyze(m, batch)
      PROVE  /\ gone \subseteq gone'
             /\ b \notin Unpublished => b \in gone' \/ ResultsOf(n)' = ResultsOf(n)
  <2>0. PICK kept \in SUBSET DOMAIN results :
          /\ \E l : results' = Put([k \in kept |-> results[k]], m, l)
          /\ gone' = gone \cup Published((DOMAIN results \ kept) \cup {m})
    BY <1>5 DEF Analyze
  <2>1. PICK l : /\ results' = Put([k \in kept |-> results[k]], m, l)
                 /\ gone' = gone \cup Published((DOMAIN results \ kept) \cup {m})
    BY <2>0
  <2>2. CASE n = m \/ (n \in DOMAIN results /\ n \notin kept)
    BY <2>1, <2>2 DEF Published
  <2>3. CASE n # m /\ (n \notin DOMAIN results \/ n \in kept)
    <3>1. ResultsOf(n)' = IF n \in DOMAIN results' THEN results'[n] ELSE <<>>
      BY <1>1 DEF ResultsOf
    <3>. QED BY <2>1, <2>3, <3>1 DEF ResultsOf, Put
  <2>. QED BY <2>1, <2>2, <2>3
<1>6. ASSUME NEW w \in Workers, Publish(w)
      PROVE  /\ gone \subseteq gone' /\ (Stands(b) => Stands(b)') /\ (Full(b) => Full(b)')
  <2>1. PICK m \in Names, r \in Seq(Buckets) :
          /\ results' = Put(results, m, r)
          /\ Len(r) = MaxResults \/ Range(r) = Range(ResultsOf(m)) \cup req[w].out
          /\ Len(ResultsOf(m)) = MaxResults => Len(r) = MaxResults
    BY <1>6, PublishIs
  <2>2. gone' = gone
    BY <1>6 DEF Publish, history
  <2>3. ResultsOf(n)' = IF n \in DOMAIN results' THEN results'[n] ELSE <<>>
    BY <1>1 DEF ResultsOf
  <2>4. CASE n = m
    <3>1. ResultsOf(names[b.job])' = r
      BY <1>1, <2>1, <2>3, <2>4 DEF Put, ResultsOf
    <3>. QED BY <2>1, <2>2, <2>4, <3>1 DEF Stands, Full
  <2>5. CASE n # m
    <3>1. ResultsOf(n)' = ResultsOf(n)
      BY <2>1, <2>3, <2>5 DEF ResultsOf, Put
    <3>. QED BY <1>2, <2>2, <3>1
  <2>. QED BY <2>4, <2>5
<1>. HIDE DEF n
<1>7. \/ results' = results /\ gone' = gone
      \/ \E m \in Names : Register(m) \/ \E batch \in Batches : Analyze(m, batch)
      \/ \E w \in Workers : Publish(w)
  BY ZenonT(60) DEF vars, jobs, process, history, Next, Save, Delete, Request, Step, Begin,
     PointsRequest, IngestRequest, FlushRequest, IncidentsRequest, Push, Flush,
     Correlate, Reconcile, SnapshotTracker, SnapshotList, SnapshotJob, WriteState, Start
<1>. QED BY <1>2, <1>3, <1>4, <1>5, <1>6, <1>7

\* What a request has published, or is not yet about to publish, no other holds.
LEMMA Apart ==
  ASSUME ShapeInv, NEW w \in Workers, req[w].step # "publish", NEW b \in req[w].out
  PROVE  b \in closed /\ b \notin Unpublished
<1>1. \A v \in Workers : v # w => b \notin req[v].out
  BY OutsApart
<1>. QED BY <1>1 DEF Unpublished, ShapeInv, RequestInv

LEMMA PublishedStands ==
  ASSUME ShapeInv, NEW w \in Workers, Publish(w), NEW b \in req[w].out
  PROVE  Stands(b)'
<1>1. PICK n \in Names, r \in Seq(Buckets) :
        /\ names[b.job] = n
        /\ results' = Put(results, n, r)
        /\ Len(r) = MaxResults \/ Range(r) = Range(ResultsOf(n)) \cup req[w].out
  BY PublishIs
<1>2. names' = names
  BY DEF Publish, jobs
<1>3. ResultsOf(names[b.job])' = IF n \in DOMAIN results' THEN results'[n] ELSE <<>>
  BY <1>1, <1>2 DEF ResultsOf
<1>4. ResultsOf(names[b.job])' = r
  BY <1>1, <1>3 DEF Put
<1>. QED BY <1>1, <1>4 DEF Stands, Full

LEMMA UnlistedNext ==
  ASSUME ShapeInv, NothingUnlisted, [Next]_vars
  PROVE  NothingUnlisted'
<1>. SUFFICES ASSUME NEW b \in closed', b \notin Unpublished', b \notin gone'
              PROVE  b \in Listed' \/ Full(b)'
  BY DEF NothingUnlisted
<1>1. Stands(b)' => b \in Listed' \/ Full(b)'
  <2>1. Range(<<>>) = {}
    BY DEF Range
  <2>. QED BY <2>1 DEF Stands, ResultsOf, Listed
<1>2. CASE Exit
  BY <1>2 DEF Exit
<1>3. CASE ~Exit /\ b \in closed /\ b \notin Unpublished
  <2>1. gone \subseteq gone' /\ (Stands(b) => Stands(b)' \/ b \in gone')
    BY <1>3, ListsKept
  <2>2. b \in Listed \cup gone \/ Full(b)
    BY <1>3 DEF NothingUnlisted
  <2>3. b \in gone \/ Stands(b)
    BY <1>3, <2>2, OwnList DEF Stands
  <2>. QED BY <1>1, <2>1, <2>3
<1>4. CASE ~Exit /\ b \in closed /\ b \in Unpublished
  <2>1. PICK w \in Workers : req[w].step = "publish" /\ b \in req[w].out
    BY <1>4 DEF Unpublished
  <2>2. req \in [Workers -> Requests]
    BY DEF ShapeInv, RequestInv
  <2>3. ASSUME req'[w] = req[w]
        PROVE  FALSE
    BY <2>1, <2>3 DEF Unpublished
  <2>4. CASE Quiet
    BY <2>3, <2>4 DEF Quiet
  <2>5. ASSUME NEW v \in Workers, Receives(v)
        PROVE  FALSE
    BY <2>1, <2>2, <2>3, <2>5 DEF Receives
  <2>6. ASSUME NEW v \in Workers, Publish(v)
        PROVE  Stands(b)'
    <3>1. CASE v = w
      BY <2>1, <2>6, <3>1, PublishedStands
    <3>2. CASE v # w
      BY <2>2, <2>3, <2>6, <3>2 DEF Publish
    <3>. QED BY <3>1, <3>2
  <2>7. ASSUME NEW v \in Workers, Correlate(v) \/ Reconcile(v)
        PROVE  FALSE
    BY <2>1, <2>2, <2>3, <2>7 DEF Correlate, Reconcile, At
  <2>. QED BY <1>1, <1>4, <2>4, <2>5, <2>6, <2>7, StepKinds
<1>5. CASE b \notin closed
  <2>1. PICK w \in Workers : Receives(w)
    BY <1>5, StepKinds DEF Quiet, Exit, Publish, Correlate, Reconcile, history
  <2>2. req \in [Workers -> Requests]
    BY DEF ShapeInv, RequestInv
  <2>3. req'[w].step = "publish" /\ b \in req'[w].out
    BY <1>5, <2>1, <2>2 DEF Receives
  <2>. QED BY <2>3 DEF Unpublished
<1>. QED BY <1>2, <1>3, <1>4, <1>5

LEMMA ToldNext ==
  ASSUME TrackedInv, [Next]_vars
  PROVE  ToldInv'
<1>. SUFFICES ASSUME NEW w \in Workers, req'[w].step = "reconcile", NEW b \in req'[w].out
              PROVE  b \in req'[w].view \cup gone' \/ Full(b)'
  BY DEF ToldInv
<1>1. req \in [Workers -> Requests] /\ ShapeInv
  BY DEF TrackedInv, ShapeInv, RequestInv
<1>2. ~Exit
  BY DEF Exit, Idle
<1>3. ASSUME req'[w] = req[w]
      PROVE  b \in req'[w].view \cup gone' \/ Full(b)'
  <2>1. req[w].step = "reconcile" /\ b \in req[w].out
    BY <1>3
  <2>2. b \in req[w].view \cup gone \/ Full(b)
    BY <2>1 DEF TrackedInv, ToldInv
  <2>3. b \in closed /\ b \notin Unpublished
    BY <1>1, <2>1, Apart
  <2>. QED BY <1>1, <1>2, <1>3, <2>2, <2>3, ListsKept
<1>4. CASE Quiet
  BY <1>3, <1>4 DEF Quiet
<1>5. ASSUME NEW v \in Workers, Receives(v) \/ Publish(v) \/ Reconcile(v)
      PROVE  req'[w] = req[w]
  <2>1. ASSUME NEW r, req' = [req EXCEPT ![v] = r], r.step # "reconcile"
        PROVE  req'[w] = req[w]
    BY <1>1, <2>1
  <2>2. CASE Receives(v)
    BY <2>1, <2>2 DEF Receives
  <2>3. CASE Publish(v)
    BY <1>1, <2>3 DEF Publish, Requests
  <2>4. CASE Reconcile(v)
    <3>1. req' = [req EXCEPT ![v] = Rest(req[v], req[v].todo)]
      BY <1>1, <2>4 DEF Reconcile
    <3>2. Rest(req[v], req[v].todo).step # "reconcile"
      BY <1>1 DEF Rest, Idle, Requests
    <3>. QED BY <2>1, <3>1, <3>2
  <2>. QED BY <1>5, <2>2, <2>3, <2>4
<1>6. ASSUME NEW v \in Workers, Correlate(v), v # w
      PROVE  req'[w] = req[w]
  BY <1>1, <1>6 DEF Correlate
<1>7. CASE Correlate(w)
  <2>1. /\ req[w].step = "correlate" /\ b \in req[w].out /\ req'[w].view = Listed
        /\ UNCHANGED <<gone, results, names>>
    BY <1>1, <1>7 DEF Correlate, At, Requests, history, jobs
  <2>2. b \in closed /\ b \notin Unpublished
    BY <1>1, <2>1, Apart
  <2>3. b \in Listed \cup gone \/ Full(b)
    BY <2>2 DEF TrackedInv, NothingUnlisted
  <2>. QED BY <2>1, <2>3 DEF Full, ResultsOf
<1>. QED BY <1>1, <1>2, <1>3, <1>4, <1>5, <1>6, <1>7, StepKinds

LEMMA CorrelatedNext ==
  ASSUME TrackedInv, [Next]_vars
  PROVE  AnomalyCorrelated'
<1>. SUFFICES ASSUME NEW b \in closed', \A w \in Workers : b \notin req'[w].out
              PROVE  b \in known' \cup gone' \/ Full(b)'
  BY DEF AnomalyCorrelated
<1>1. req \in [Workers -> Requests] /\ ShapeInv
  BY DEF TrackedInv, ShapeInv, RequestInv
<1>2. ~Exit
  BY DEF Exit
<1>3. ASSUME NEW w \in Workers, Receives(w)
      PROVE  req[w].out = {} /\ b \in closed /\ known' = known
  BY <1>1, <1>3 DEF Receives
<1>4. ~Start
  BY <1>1 DEF Start, ShapeInv, DownInv, history
<1>5. b \in closed
  BY <1>1, <1>2, <1>3, StepKinds DEF Quiet, Publish, Correlate, Reconcile, history
<1>6. CASE \A w \in Workers : b \notin req[w].out
  <2>1. known \subseteq known'
    BY <1>1, <1>2, <1>3, <1>4, StepKinds DEF Quiet, Publish, Correlate, Reconcile
  <2>2. b \in known \cup gone \/ Full(b)
    BY <1>5, <1>6 DEF TrackedInv, AnomalyCorrelated
  <2>3. b \notin Unpublished
    BY <1>6 DEF Unpublished
  <2>. QED BY <1>1, <1>2, <1>5, <2>1, <2>2, <2>3, ListsKept
<1>7. ASSUME NEW w \in Workers, b \in req[w].out
      PROVE  b \in known' \cup gone' \/ Full(b)'
  <2>1. req'[w].out # req[w].out
    BY <1>7
  <2>2. Reconcile(w)
    <3>1. ~Quiet
      BY <2>1 DEF Quiet
    <3>2. \A v \in Workers : ~Receives(v)
      BY <1>1, <1>7, <2>1 DEF Receives
    <3>3. \A v \in Workers : ~Publish(v) /\ ~Correlate(v)
      BY <1>1, <2>1 DEF Publish, Correlate, Requests
    <3>4. \A v \in Workers : Reconcile(v) => v = w
      BY <1>1, <2>1 DEF Reconcile
    <3>. QED BY <1>1, <1>2, <3>1, <3>2, <3>3, <3>4, StepKinds
  <2>3. b \in req[w].view \cup gone \/ Full(b)
    BY <1>7, <2>2 DEF TrackedInv, ToldInv, Reconcile, At
  <2>. QED BY <2>2, <2>3 DEF Reconcile, history, jobs, Full, ResultsOf
<1>. QED BY <1>6, <1>7

LEMMA TrackedInit == Init => TrackedInv
<1>. SUFFICES ASSUME Init PROVE TrackedInv
  OBVIOUS
<1>1. closed = {} /\ \A w \in Workers : req[w].step = "idle"
  BY DEF Init, Idle
<1>. QED BY <1>1, ShapeInit DEF TrackedInv, NothingUnlisted, ToldInv, AnomalyCorrelated

LEMMA TrackedNext == TrackedInv /\ [Next]_vars => TrackedInv'
<1>. SUFFICES ASSUME TrackedInv, [Next]_vars PROVE TrackedInv'
  OBVIOUS
<1>1. ShapeInv /\ NothingUnlisted
  BY DEF TrackedInv
<1>2. ShapeInv'
  BY <1>1, ShapeNext
<1>3. NothingUnlisted'
  BY <1>1, UnlistedNext
<1>. QED BY <1>2, <1>3, ToldNext, CorrelatedNext DEF TrackedInv

LEMMA TrackedAlways == Spec => []TrackedInv
BY TrackedInit, TrackedNext, PTL DEF Spec

\* A list keeps to its name and its limit, an engine to its watermark, and no
\* anomaly that an engine returned is off every list, unless a list that was
\* full, deleted or replaced took it along (publish, RegisterJob, storeResults).
THEOREM ListsCorrect == Spec => []ListsStand
<1>1. TrackedInv => ListsStand
  BY ShapeOK DEF TrackedInv, ListsStand
<1>. QED BY <1>1, TrackedAlways, PTL

\* When its request is over, an anomaly is known to the tracker: the request
\* took its view of all lists after it had published (publish, correlateAll).
THEOREM CorrelatedCorrect == Spec => []AnomalyCorrelated
<1>1. TrackedInv => AnomalyCorrelated
  BY DEF TrackedInv
<1>. QED BY <1>1, TrackedAlways, PTL

-----------------------------------------------------------------------------
(* No bucket is reported again after a restart.                            *)

\* The jobs that a request or a save may still call.
Active == Range(live) \cup saver.todo \cup UNION {req[w].todo : w \in Workers}

Views == UNION {req[w].view : w \in Workers}

\* What the tracker was told, engines returned, in this life or before.
KnownInv ==
  /\ \A k \in known \cup saver.known \cup Views : k.job = Batch \/ k \in closed \cup restored
  /\ \A k \in restored \cup disk.known : k.job = Batch \/ (k \in Buckets /\ k.job \in Made)

\* A metric engine is past every bucket that was reported, or flushed it.
Past(k, mark) == IsLog(k.job) \/ k.time < mark \/ <<k.job, k.time>> \in flushed

PastInv ==
  /\ \A k \in closed \cup restored : k.job \in Active => Past(k, engine[k.job].mark)
  /\ \A k \in saver.known : k.job \in DOMAIN saver.jobs => Past(k, saver.jobs[k.job].mark)
  /\ \A k \in disk.known : k.job \in DOMAIN disk.jobs => Past(k, disk.jobs[k.job].mark)

RestartInv == ShapeInv /\ KnownInv /\ PastInv /\ NotRepeated

\* What engines, requests and saves do to what these formulas speak of.
LEMMA ActiveNext ==
  ASSUME ShapeInv, [Next]_vars, ~Start, NEW h \in Made, h \in Active'
  PROVE  h \in Active
<1>1. req \in [Workers -> Requests]
  BY DEF ShapeInv, RequestInv
<1>2. Range(live') \cap Made \subseteq Range(live)
  <2>1. CASE live' = live
    BY <2>1
  <2>2. ASSUME NEW n \in Names, Register(n)
        PROVE  Range(live') \cap Made \subseteq Range(live)
    <3>1. live' = Put(live, n, Len(names) + 1)
      BY <2>2 DEF Register
    <3>2. Len(names) + 1 \notin Made
      BY LenProperties DEF ShapeInv, EngineInv, Made
    <3>. QED BY <3>1, <3>2 DEF Put, Range
  <2>3. ASSUME NEW n \in Names, Delete(n)
        PROVE  Range(live') \cap Made \subseteq Range(live)
    BY <2>3 DEF Delete, Without, Range
  <2>4. CASE Exit
    BY <2>4 DEF Exit, Range
  <2>. QED
    BY ZenonT(60), <2>1, <2>2, <2>3, <2>4
    DEF vars, jobs, process, history, Next, Save, Analyze, Request, Step, Begin,
       PointsRequest, IngestRequest, FlushRequest, IncidentsRequest, Push, Flush, Publish,
       Correlate, Reconcile, SnapshotTracker, SnapshotList, SnapshotJob, WriteState
<1>3. \A w \in Workers : req'[w].todo \subseteq req[w].todo \cup Range(live)
  <2>1. ASSUME NEW w \in Workers, NEW r, req' = [req EXCEPT ![w] = r],
               r.todo \subseteq req[w].todo \cup Range(live)
        PROVE  \A v \in Workers : req'[v].todo \subseteq req[v].todo \cup Range(live)
    BY <1>1, <2>1
  <2>2. ASSUME NEW w \in Workers, NEW todo, NEW batch, Begin(w, todo, batch),
               todo \subseteq Range(live)
        PROVE  \A v \in Workers : req'[v].todo \subseteq req[v].todo \cup Range(live)
    <3>. DEFINE r == [Idle EXCEPT !.step = "push", !.call = calls', !.todo = todo, !.batch = batch]
    <3>1. req' = [req EXCEPT ![w] = r] /\ r.todo = todo
      BY <2>2 DEF Begin, Idle
    <3>. HIDE DEF r
    <3>. QED BY <2>1, <2>2, <3>1
  <2>3. ASSUME NEW w \in Workers, Request(w) \/ Correlate(w) \/ Publish(w)
        PROVE  \A v \in Workers : req'[v].todo \subseteq req[v].todo \cup Range(live)
    <3>1. ASSUME NEW n \in DOMAIN live
          PROVE  {live[n]} \subseteq Range(live) /\ Kind(n) \subseteq Range(live)
      BY DEF Range, Kind
    <3>2. CASE IncidentsRequest(w) \/ Correlate(w) \/ Publish(w)
      BY <1>1, <3>2 DEF IncidentsRequest, Correlate, Publish, Requests
    <3>3. CASE Request(w) /\ ~IncidentsRequest(w)
      BY <2>2, <3>1, <3>3 DEF Request, FlushRequest, PointsRequest, IngestRequest
    <3>. QED BY <2>3, <3>2, <3>3
  <2>4. ASSUME NEW w \in Workers, NEW g \in req[w].todo, Push(w, g) \/ Flush(w, g)
        PROVE  \A v \in Workers : req'[v].todo \subseteq req[v].todo \cup Range(live)
    <3>1. PICK B \in SUBSET Buckets : Gets(w, g, B)
      BY <2>4, PushOrFlush
    <3>2. \A T \in SUBSET req[w].todo :
            /\ Rest(req[w], T).todo \subseteq req[w].todo
            /\ [req[w] EXCEPT !.step = "publish", !.todo = T, !.out = B].todo
                 \subseteq req[w].todo
      BY <1>1 DEF Rest, Idle, Requests
    <3>. QED BY <2>1, <3>1, <3>2 DEF Gets
  <2>5. ASSUME NEW w \in Workers, Reconcile(w)
        PROVE  \A v \in Workers : req'[v].todo \subseteq req[v].todo \cup Range(live)
    <3>1. req' = [req EXCEPT ![w] = Rest(req[w], req[w].todo)]
      BY <1>1, <2>5 DEF Reconcile
    <3>2. Rest(req[w], req[w].todo).todo \subseteq req[w].todo
      BY <1>1 DEF Rest, Idle, Requests
    <3>. QED BY <2>1, <3>1, <3>2
  <2>6. CASE Exit
    BY <2>6 DEF Exit, Idle
  <2>7. CASE req' = req
    BY <2>7
  <2>. QED
    BY <2>3, <2>4, <2>5, <2>6, <2>7
    DEF vars, jobs, process, history, Next, Save, Step, Register, Delete, Analyze,
       SnapshotTracker, SnapshotList, SnapshotJob, WriteState
<1>4. saver'.todo \subseteq saver.todo \cup Range(live)
  <2>1. saver = [step |-> saver.step, known |-> saver.known,
                 todo |-> saver.todo, jobs |-> saver.jobs]
    BY DEF ShapeInv, SaverInv
  <2>2. CASE saver' = saver
    BY <2>2
  <2>3. CASE Save \/ Exit
    <3>1. CASE SnapshotTracker \/ Exit \/ \E ok \in BOOLEAN : WriteState(ok)
      <4>1. NoSave.todo = {} /\ \A K : [NoSave EXCEPT !.step = "list", !.known = K].todo = {}
        BY DEF NoSave
      <4>2. saver' = NoSave \/ saver' = [NoSave EXCEPT !.step = "list", !.known = known]
        BY <3>1 DEF SnapshotTracker, Exit, WriteState
      <4>. QED BY <4>1, <4>2
    <3>2. CASE SnapshotList
      BY <2>1, <3>2 DEF SnapshotList
    <3>3. ASSUME NEW g \in saver.todo, SnapshotJob(g)
          PROVE  saver'.todo \subseteq saver.todo
      BY <2>1, <3>3 DEF SnapshotJob
    <3>. QED BY <2>3, <3>1, <3>2, <3>3 DEF Save
  <2>. QED
    BY ZenonT(60), <2>2, <2>3
    DEF vars, jobs, process, history, Next, Register, Delete, Analyze, Request, Step,
       Begin, PointsRequest, IngestRequest, FlushRequest, IncidentsRequest, Push, Flush,
       Publish, Correlate, Reconcile
<1>5. h \in Range(live') \/ h \in saver'.todo \/ \E w \in Workers : h \in req'[w].todo
  BY DEF Active
<1>. QED BY <1>2, <1>3, <1>4, <1>5 DEF Active

\* Engines move on only, and the buckets they return lie between the two marks.
LEMMA EngineMoves ==
  ASSUME ShapeInv, NEW w \in Workers, NEW h \in req[w].todo, Push(w, h) \/ Flush(w, h)
  PROVE  /\ \A g \in Made : engine[g].mark <= engine'[g].mark
         /\ flushed \subseteq flushed' /\ closed \subseteq closed' /\ restored' = restored
         /\ \A b \in closed' : b \in closed \/
              /\ b.job = h
              /\ \/ IsLog(h) \/ <<h, b.time>> \in flushed'
                 \/ engine[h].mark <= b.time /\ b.time < engine'[h].mark
<1>1. h \in Made /\ req[w] \in Requests /\ req[w].step = "push" /\ restored' = restored
  BY PushOrFlush DEF ShapeInv, RequestInv
<1>2. /\ engine \in [Made -> Engines] /\ IsFiniteSet(engine[h].open)
      /\ ~IsLog(h) => engine[h].open \subseteq {engine[h].mark}
  BY <1>1, LenProperties DEF ShapeInv, EngineInv, Made
<1>3. \A g \in Made : engine[g].mark \in Int
  <2>1. \A t \in Times : t \in Int
    BY TimesAssumption
  <2>. QED BY <1>2, <2>1 DEF Engines, NoMark
<1>4. CASE Push(w, h)
  <2>. DEFINE a == After(h, req[w].batch)
  <2>1. req[w].batch \in Batches /\ Returned(w, h, a.shut) /\ flushed' = flushed
        /\ engine' = [engine EXCEPT ![h] = [mark |-> a.mark, open |-> a.open]]
    BY <1>1, <1>4 DEF Push, Requests
  <2>2. engine[h] \in Engines
    BY <1>1, <1>2
  <2>3. /\ a.shut \subseteq Times /\ IsFiniteSet(a.shut) /\ engine[h].mark <= a.mark
        /\ ~IsLog(h) => \A t \in a.shut : engine[h].mark <= t /\ t < a.mark
    BY <1>2, <2>1, <2>2, AfterIs
  <2>. HIDE DEF a
  <2>4. PICK B \in SUBSET Buckets : (\A b \in B : b.time \in a.shut) /\ Gets(w, h, B)
    BY <1>1, <2>1, <2>3, ReturnedIs
  <2>5. engine'[h].mark = a.mark /\ \A g \in Made : g # h => engine'[g] = engine[g]
    BY <1>1, <1>2, <2>1
  <2>6. \A g \in Made : engine[g].mark <= engine'[g].mark
    BY <1>3, <2>3, <2>5
  <2>. QED BY <1>1, <2>1, <2>3, <2>4, <2>5, <2>6 DEF Gets
<1>5. CASE Flush(w, h)
  <2>1. /\ Returned(w, h, engine[h].open)
        /\ engine' = [engine EXCEPT ![h].open = {}]
        /\ flushed' = flushed \cup {<<h, t>> : t \in engine[h].open}
    BY <1>5 DEF Flush
  <2>2. engine[h].open \subseteq Times
    BY <1>1, <1>2 DEF Engines
  <2>3. PICK B \in SUBSET Buckets : (\A b \in B : b.time \in engine[h].open) /\ Gets(w, h, B)
    BY <1>1, <1>2, <2>1, <2>2, ReturnedIs
  <2>4. \A g \in Made : engine'[g].mark = engine[g].mark
    BY <1>1, <1>2, <2>1 DEF Engines
  <2>. QED BY <1>1, <1>3, <2>1, <2>3, <2>4 DEF Gets
<1>. QED BY <1>4, <1>5

LEMMA MarksNext ==
  ASSUME ShapeInv, [Next]_vars, ~Exit, ~Start
  PROVE  /\ \A h \in Made : engine[h].mark <= engine'[h].mark
         /\ flushed \subseteq flushed' /\ closed \subseteq closed' /\ restored' = restored
         /\ \A b \in closed' : b \in closed \/
              /\ b.job \in Active
              /\ \/ IsLog(b.job) \/ <<b.job, b.time>> \in flushed'
                 \/ engine[b.job].mark <= b.time /\ b.time < engine'[b.job].mark
<1>1. engine \in [Made -> Engines] /\ \A h \in Made : engine[h].mark <= engine[h].mark
  <2>1. engine \in [Made -> Engines]
    BY LenProperties DEF ShapeInv, EngineInv, Made
  <2>2. \A t \in Times : t \in Int
    BY TimesAssumption
  <2>3. \A h \in Made : engine[h].mark \in Int
    BY <2>1, <2>2 DEF Engines, NoMark
  <2>. QED BY <2>1, <2>3
<1>2. ASSUME NEW w \in Workers, NEW h \in req[w].todo, Push(w, h) \/ Flush(w, h)
      PROVE  /\ \A g \in Made : engine[g].mark <= engine'[g].mark
             /\ flushed \subseteq flushed' /\ closed \subseteq closed' /\ restored' = restored
             /\ \A b \in closed' : b \in closed \/
                  /\ b.job \in Active
                  /\ \/ IsLog(b.job) \/ <<b.job, b.time>> \in flushed'
                     \/ engine[b.job].mark <= b.time /\ b.time < engine'[b.job].mark
  <2>1. h \in Active
    BY DEF Active
  <2>. QED BY <1>2, <2>1, EngineMoves
<1>3. \/ UNCHANGED <<engine, closed, restored, flushed>>
      \/ \E n \in Names : Register(n)
      \/ \E w \in Workers : \E h \in req[w].todo : Push(w, h) \/ Flush(w, h)
  BY ZenonT(60) DEF vars, jobs, process, history, Next, Save, Step, Request, Delete, Analyze, Begin,
     PointsRequest, IngestRequest, FlushRequest, IncidentsRequest, Publish, Correlate,
     Reconcile, SnapshotTracker, SnapshotList, SnapshotJob, WriteState
<1>4. ASSUME NEW n \in Names, Register(n)
      PROVE  UNCHANGED <<closed, restored, flushed>> /\ \A h \in Made : engine'[h] = engine[h]
  <2>1. engine \in Seq(Engines) /\ Len(engine) = Len(names)
    BY DEF ShapeInv, EngineInv
  <2>2. engine' = Append(engine, NewEngine) /\ UNCHANGED <<closed, restored, flushed>>
    BY <1>4 DEF Register
  <2>3. NewEngine \in Engines
    BY DEF NewEngine, Engines
  <2>. QED BY <2>1, <2>2, <2>3, AppendProperties DEF Made
<1>. QED BY <1>1, <1>2, <1>3, <1>4

\* Requests see what is listed, the tracker what requests see, a save the tracker.
LEMMA TellsNext ==
  ASSUME ShapeInv, [Next]_vars, ~Exit, ~Start
  PROVE  /\ known' \subseteq known \cup Views
         /\ Views' \subseteq Views \cup Listed
         /\ saver'.known \subseteq saver.known \cup known
         /\ disk'.known \subseteq disk.known \cup saver.known
<1>1. req \in [Workers -> Requests] /\ Idle.view = {}
  BY DEF ShapeInv, RequestInv, Idle
<1>2. CASE UNCHANGED <<known, req, saver, disk>>
  BY <1>2 DEF Views
<1>3. ASSUME NEW w \in Workers, NEW r, req' = [req EXCEPT ![w] = r],
             r.view \subseteq req[w].view \cup Listed
      PROVE  Views' \subseteq Views \cup Listed
  BY <1>1, <1>3 DEF Views
<1>4. ASSUME NEW w \in Workers, Request(w)
      PROVE  UNCHANGED <<known, saver, disk>> /\ Views' \subseteq Views \cup Listed
  <2>1. ASSUME NEW todo, NEW batch, Begin(w, todo, batch)
        PROVE  UNCHANGED <<known, saver, disk>> /\ Views' \subseteq Views \cup Listed
    <3>. DEFINE r == [Idle EXCEPT !.step = "push", !.call = calls', !.todo = todo, !.batch = batch]
    <3>1. req' = [req EXCEPT ![w] = r] /\ r.view = {}
      BY <2>1 DEF Begin, Idle
    <3>. HIDE DEF r
    <3>. QED BY <1>3, <2>1, <3>1 DEF Begin, process
  <2>2. CASE IncidentsRequest(w)
    <3>. DEFINE r == [req[w] EXCEPT !.step = "correlate", !.call = calls']
    <3>1. req' = [req EXCEPT ![w] = r] /\ r.view = req[w].view
      BY <1>1, <2>2 DEF IncidentsRequest, Requests
    <3>. HIDE DEF r
    <3>. QED BY <1>3, <2>2, <3>1 DEF IncidentsRequest, process
  <2>. QED BY <1>4, <2>1, <2>2 DEF Request, FlushRequest, PointsRequest, IngestRequest
<1>5. ASSUME NEW w \in Workers
      PROVE  \A T : Rest(req[w], T).view \subseteq req[w].view
  BY <1>1 DEF Rest, Requests
<1>6. ASSUME NEW w \in Workers, NEW h \in req[w].todo, Push(w, h) \/ Flush(w, h)
      PROVE  UNCHANGED <<known, saver, disk>> /\ Views' \subseteq Views \cup Listed
  <2>1. PICK B \in SUBSET Buckets : Gets(w, h, B)
    BY <1>6, PushOrFlush
  <2>2. \A T : [req[w] EXCEPT !.step = "publish", !.todo = T, !.out = B].view \subseteq req[w].view
    BY <1>1 DEF Requests
  <2>3. Views' \subseteq Views \cup Listed
    BY <1>3, <1>5, <2>1, <2>2 DEF Gets
  <2>. QED BY <1>6, <2>3 DEF Push, Flush, process
<1>7. ASSUME NEW w \in Workers, Publish(w)
      PROVE  UNCHANGED <<known, saver, disk>> /\ Views' \subseteq Views \cup Listed
  BY <1>1, <1>3, <1>7 DEF Publish, process, Requests
<1>8. ASSUME NEW w \in Workers, Correlate(w)
      PROVE  UNCHANGED <<known, saver, disk>> /\ Views' \subseteq Views \cup Listed
  <2>. DEFINE r == [req[w] EXCEPT !.step = "reconcile", !.view = Listed]
  <2>1. req' = [req EXCEPT ![w] = r] /\ r.view = Listed
    BY <1>1, <1>8 DEF Correlate, Requests
  <2>. HIDE DEF r
  <2>. QED BY <1>3, <1>8, <2>1 DEF Correlate, process
<1>9. ASSUME NEW w \in Workers, Reconcile(w)
      PROVE  /\ UNCHANGED <<saver, disk>> /\ known' \subseteq known \cup Views
             /\ Views' \subseteq Views \cup Listed
  <2>1. req' = [req EXCEPT ![w] = Rest(req[w], req[w].todo)] /\ known' = known \cup req[w].view
        /\ UNCHANGED <<saver, disk>>
    BY <1>1, <1>9 DEF Reconcile, process
  <2>. QED BY <1>3, <1>5, <2>1 DEF Views
<1>10. ASSUME Save
       PROVE  /\ UNCHANGED <<known, req>>
              /\ saver'.known \subseteq saver.known \cup known
              /\ disk'.known \subseteq disk.known \cup saver.known
  <2>1. saver = [step |-> saver.step, known |-> saver.known,
                 todo |-> saver.todo, jobs |-> saver.jobs]
    BY DEF ShapeInv, SaverInv
  <2>2. CASE SnapshotTracker
    <3>1. [NoSave EXCEPT !.step = "list", !.known = known].known = known
      BY DEF NoSave
    <3>. QED BY <2>2, <3>1 DEF SnapshotTracker
  <2>3. ASSUME SnapshotList \/ \E h \in saver.todo : SnapshotJob(h)
        PROVE  UNCHANGED <<known, req, disk>> /\ saver'.known = saver.known
    BY <2>1, <2>3 DEF SnapshotList, SnapshotJob
  <2>4. ASSUME NEW ok \in BOOLEAN, WriteState(ok)
        PROVE  UNCHANGED <<known, req>> /\ saver'.known = {}
               /\ disk'.known \subseteq disk.known \cup saver.known
    BY <2>4 DEF WriteState, NoSave, SavedKnown
  <2>. QED BY <1>10, <2>2, <2>3, <2>4 DEF Save
<1>11. \/ UNCHANGED <<known, req, saver, disk>> \/ Save
       \/ \E w \in Workers : \/ Request(w) \/ Publish(w) \/ Correlate(w) \/ Reconcile(w)
                             \/ \E h \in req[w].todo : Push(w, h) \/ Flush(w, h)
  BY DEF vars, process, Next, Step, Register, Delete, Analyze
<1>12. Views \subseteq Views \cup Listed
  OBVIOUS
<1>. QED BY <1>2, <1>4, <1>6, <1>7, <1>8, <1>9, <1>10, <1>11, <1>12 DEF Views

LEMMA KnownNext ==
  ASSUME ShapeInv, KnownInv, [Next]_vars
  PROVE  KnownInv'
<1>1. \A h \in Made : h \in Made'
  BY NamesKept DEF ShapeInv
<1>2. CASE Exit
  <2>1. /\ known' = {} /\ saver' = NoSave /\ \A w \in Workers : req'[w] = Idle
        /\ UNCHANGED <<restored, disk>>
    BY <1>2 DEF Exit
  <2>2. saver'.known = {} /\ Views' = {}
    BY <2>1 DEF NoSave, Idle, Views
  <2>. QED BY <1>1, <2>1, <2>2 DEF KnownInv
<1>3. CASE Start
  <2>1. /\ known' = disk.known /\ restored' = disk.known /\ saver' = NoSave
        /\ UNCHANGED disk /\ \A w \in Workers : req'[w] = Idle
    BY <1>3 DEF Start, ShapeInv, DownInv
  <2>2. saver'.known = {} /\ Views' = {}
    BY <2>1 DEF NoSave, Idle, Views
  <2>. QED BY <1>1, <2>1, <2>2 DEF KnownInv
<1>4. CASE ~Exit /\ ~Start
  <2>1. closed \subseteq closed' /\ restored' = restored
    BY <1>4, MarksNext
  <2>2. \A k \in Listed : k.job = Batch \/ k \in closed
    BY DEF Listed, ShapeInv, ListInv
  <2>3. \A k \in closed : k \in Buckets /\ k.job \in Made
    BY DEF ShapeInv, ListInv
  <2>4. \A k \in saver.known : k.job = Batch \/ (k \in Buckets /\ k.job \in Made)
    BY <2>3 DEF KnownInv
  <2>5. /\ known' \subseteq known \cup Views /\ Views' \subseteq Views \cup Listed
        /\ saver'.known \subseteq saver.known \cup known
        /\ disk'.known \subseteq disk.known \cup saver.known
    BY <1>4, TellsNext
  <2>6. \A k \in known' \cup saver'.known \cup Views' :
          k.job = Batch \/ k \in closed' \cup restored'
    BY <2>1, <2>2, <2>5 DEF KnownInv
  <2>7. \A k \in restored' \cup disk'.known : k.job = Batch \/ (k \in Buckets /\ k.job \in Made')
    BY <1>1, <2>1, <2>4, <2>5 DEF KnownInv
  <2>. QED BY <2>6, <2>7 DEF KnownInv
<1>. QED BY <1>2, <1>3, <1>4

LEMMA ActiveMade ==
  ASSUME ShapeInv, [Next]_vars
  PROVE  Active \subseteq Made /\ Active' \subseteq Made' /\ Batch \notin Made /\ Batch \notin Made'
<1>1. Active \subseteq Made
  BY DEF Active, Range, ShapeInv, LiveInv, RequestInv, SaverInv
<1>2. ShapeInv'
  BY ShapeNext
<1>3. Active' \subseteq Made'
  BY <1>2 DEF Active, Range, ShapeInv, LiveInv, RequestInv, SaverInv
<1>. QED BY <1>1, <1>3 DEF Made, Batch

LEMMA StartsFromDisk ==
  ASSUME ShapeInv, Start
  PROVE  /\ Active' \subseteq DOMAIN disk.jobs /\ closed' = {} /\ saver' = NoSave
         /\ restored' = disk.known /\ disk' = disk /\ flushed' = flushed /\ names' = names
         /\ \A h \in DOMAIN disk.jobs : engine'[h] = disk.jobs[h]
<1>1. /\ DOMAIN live' = {names[h] : h \in DOMAIN disk.jobs}
      /\ \A n \in DOMAIN live' : live'[n] = CHOOSE h \in DOMAIN disk.jobs : names[h] = n
  BY DEF Start
<1>2. Range(live') \subseteq DOMAIN disk.jobs
  BY <1>1 DEF Range
<1>3. closed = {} /\ saver = NoSave /\ \A w \in Workers : req[w] = Idle
  BY DEF Start, ShapeInv, DownInv
<1>4. /\ UNCHANGED <<names, req, saver, disk, closed, flushed>> /\ restored' = disk.known
      /\ engine' = [h \in DOMAIN engine |->
                      IF h \in DOMAIN disk.jobs THEN disk.jobs[h] ELSE NewEngine]
  BY DEF Start
<1>5. Active' \subseteq DOMAIN disk.jobs
  <2>1. saver'.todo = {} /\ \A w \in Workers : req'[w].todo = {}
    BY <1>3, <1>4 DEF NoSave, Idle
  <2>. QED BY <1>2, <2>1 DEF Active
<1>6. DOMAIN disk.jobs \subseteq DOMAIN engine
  BY LenProperties DEF ShapeInv, EngineInv, DiskInv, Made
<1>. QED BY <1>3, <1>4, <1>5, <1>6

\* What engines, the save and the file had behind them, they keep behind them.
LEMMA PastNext ==
  ASSUME ShapeInv, KnownInv, PastInv, [Next]_vars
  PROVE  PastInv'
<1>1. \A h \in Made : h \in Made' /\ IsLog(h)' = IsLog(h)
  BY NamesKept DEF ShapeInv
<1>2. \A k \in closed \cup restored \cup saver.known \cup disk.known :
        k.job = Batch \/ (k \in Buckets /\ k.job \in Made)
  BY DEF KnownInv, ShapeInv, ListInv
<1>3. /\ Batch \notin Made /\ DOMAIN saver.jobs \subseteq Made /\ DOMAIN disk.jobs \subseteq Made
      /\ saver = [step |-> saver.step, known |-> saver.known,
                  todo |-> saver.todo, jobs |-> saver.jobs]
  BY DEF Made, Batch, ShapeInv, SaverInv, DiskInv
<1>4. flushed \subseteq flushed'
  BY MarksNext DEF Exit, Start
<1>5. ASSUME NEW k, k.job \in Made, NEW m, Past(k, m)
      PROVE  Past(k, m)'
  <2>1. IsLog(k.job)' = IsLog(k.job)
    BY <1>1, <1>5
  <2>. QED BY <1>4, <1>5, <2>1 DEF Past
<1>6. ASSUME NEW k \in closed' \cup restored', k.job \in Active'
      PROVE  Past(k, engine[k.job].mark)'
  <2>1. k.job \in Made' /\ k.job # Batch /\ ~Exit
    <3>1. Exit => Active' = {}
      <4>1. Exit => live' = <<>> /\ saver' = NoSave /\ \A w \in Workers : req'[w] = Idle
        BY DEF Exit
      <4>. QED BY <4>1 DEF Active, Range, NoSave, Idle
    <3>. QED BY <1>6, <3>1, ActiveMade
  <2>2. CASE Start
    <3>1. /\ k \in disk.known /\ k.job \in DOMAIN disk.jobs
          /\ engine'[k.job] = disk.jobs[k.job]
      BY <1>6, <2>2, StartsFromDisk
    <3>2. Past(k, disk.jobs[k.job].mark)
      BY <3>1 DEF PastInv
    <3>3. k.job \in Made
      BY <1>3, <3>1
    <3>. DEFINE m == disk.jobs[k.job].mark
    <3>4. IsLog(k.job)' = IsLog(k.job) /\ engine'[k.job].mark = m
      BY <1>1, <3>1, <3>3
    <3>. QED BY <1>4, <3>2, <3>4 DEF Past
  <2>3. CASE ~Start
    <3>1. /\ \A h \in Made : engine[h].mark <= engine'[h].mark
          /\ restored' = restored
          /\ \A b \in closed' : b \in closed \/
               /\ b.job \in Active
               /\ \/ IsLog(b.job) \/ <<b.job, b.time>> \in flushed'
                  \/ engine[b.job].mark <= b.time /\ b.time < engine'[b.job].mark
      BY <2>1, <2>3, MarksNext
    <3>2. CASE k \in closed \cup restored
      <4>1. k \in Buckets /\ k.job \in Made
        BY <1>2, <2>1, <3>2
      <4>2. k.job \in Active
        BY <1>6, <2>3, <4>1, ActiveNext
      <4>3. Past(k, engine[k.job].mark)
        BY <3>2, <4>2 DEF PastInv
      <4>4. k.time \in Int /\ engine[k.job].mark \in Int /\ engine'[k.job].mark \in Int
        <5>1. \A t \in Times : t \in Int
          BY TimesAssumption
        <5>2. engine[k.job] \in Engines
          BY <4>1, LenProperties DEF ShapeInv, EngineInv, Made
        <5>3. engine'[k.job] \in Engines
          <6>1. EngineInv'
            BY EngineNext
          <6>. QED BY <1>1, <4>1, <6>1, LenProperties DEF EngineInv, Made
        <5>. QED BY <4>1, <5>1, <5>2, <5>3 DEF Buckets, Engines, NoMark
      <4>. QED BY <1>1, <1>4, <3>1, <4>1, <4>3, <4>4 DEF Past
    <3>3. CASE k \notin closed \cup restored
      <4>1. /\ k.job \in Active
            /\ \/ IsLog(k.job) \/ <<k.job, k.time>> \in flushed'
               \/ k.time < engine'[k.job].mark
        BY <1>6, <3>1, <3>3
      <4>2. IsLog(k.job)' = IsLog(k.job)
        BY <1>1, <4>1, ActiveMade
      <4>. QED BY <4>1, <4>2 DEF Past
    <3>. QED BY <3>2, <3>3
  <2>. QED BY <2>2, <2>3
<1>7. ASSUME NEW k \in saver'.known, k.job \in DOMAIN saver'.jobs
      PROVE  Past(k, saver.jobs[k.job].mark)'
  <2>1. CASE saver'.known = saver.known /\ saver'.jobs = saver.jobs
    <3>1. k.job \in Made /\ Past(k, saver.jobs[k.job].mark)
      BY <1>3, <1>7, <2>1 DEF PastInv
    <3>. QED BY <1>1, <1>4, <2>1, <3>1 DEF Past
  <2>2. CASE saver' = NoSave \/ SnapshotTracker
    <3>1. NoSave.jobs = <<>> /\ \A K : [NoSave EXCEPT !.step = "list", !.known = K].jobs = <<>>
      BY DEF NoSave
    <3>2. saver'.jobs = <<>>
      BY <2>2, <3>1 DEF SnapshotTracker
    <3>. QED BY <1>7, <3>2
  <2>3. ASSUME NEW h \in saver.todo, SnapshotJob(h)
        PROVE  Past(k, saver.jobs[k.job].mark)'
    <3>1. /\ saver'.known = saver.known /\ saver'.jobs = Put(saver.jobs, h, SavedEngine(h))
          /\ UNCHANGED <<names, flushed>>
      BY <1>3, <2>3 DEF SnapshotJob, jobs, history
    <3>2. IsLog(k.job)' = IsLog(k.job)
      BY <3>1 DEF IsLog
    <3>3. CASE k.job = h
      <4>1. h \in Active /\ h \in Made
        BY ActiveMade DEF Active
      <4>2. k \in closed \cup restored
        BY <1>3, <3>1, <3>3, <4>1 DEF KnownInv
      <4>3. Past(k, engine[h].mark)
        BY <3>3, <4>1, <4>2 DEF PastInv
      <4>4. saver'.jobs[k.job].mark = engine[h].mark
        BY <3>1, <3>3 DEF Put, SavedEngine
      <4>. QED BY <3>1, <3>2, <4>3, <4>4 DEF Past
    <3>4. CASE k.job # h
      <4>1. k.job \in DOMAIN saver.jobs /\ saver'.jobs[k.job] = saver.jobs[k.job]
        BY <1>7, <3>1, <3>4 DEF Put
      <4>2. Past(k, saver.jobs[k.job].mark)
        BY <1>7, <3>1, <4>1 DEF PastInv
      <4>. QED BY <3>1, <3>2, <4>1, <4>2 DEF Past
    <3>. QED BY <3>3, <3>4
  <2>4. CASE SnapshotList
    <3>1. saver'.known = saver.known /\ saver'.jobs = saver.jobs
      BY <1>3, <2>4 DEF SnapshotList
    <3>. QED BY <2>1, <3>1
  <2>5. \/ saver' = saver \/ saver' = NoSave \/ SnapshotTracker \/ SnapshotList
        \/ \E h \in saver.todo : SnapshotJob(h)
    BY ZenonT(60) DEF vars, jobs, process, history, Next, Save, Register, Delete, Analyze, Request, Step,
       Begin, PointsRequest, IngestRequest, FlushRequest, IncidentsRequest, Push, Flush,
       Publish, Correlate, Reconcile, WriteState, Exit, Start
  <2>. QED BY <2>1, <2>2, <2>3, <2>4, <2>5
<1>8. ASSUME NEW k \in disk'.known, k.job \in DOMAIN disk'.jobs
      PROVE  Past(k, disk.jobs[k.job].mark)'
  <2>1. CASE disk' = disk
    <3>1. k.job \in Made /\ Past(k, disk.jobs[k.job].mark)
      BY <1>3, <1>8, <2>1 DEF PastInv
    <3>. QED BY <1>1, <1>4, <2>1, <3>1 DEF Past
  <2>2. CASE disk' = [known |-> saver.known, jobs |-> saver.jobs]
    <3>1. k.job \in Made /\ Past(k, saver.jobs[k.job].mark)
      BY <1>3, <1>8, <2>2 DEF PastInv
    <3>2. IsLog(k.job)' = IsLog(k.job) /\ disk'.jobs[k.job].mark = saver.jobs[k.job].mark
      BY <1>1, <2>2, <3>1
    <3>. QED BY <1>4, <3>1, <3>2 DEF Past
  <2>3. disk' = disk \/ disk' = [known |-> saver.known, jobs |-> saver.jobs]
    BY ZenonT(60) DEF vars, jobs, process, history, Next, Save, Register, Delete, Analyze, Request, Step,
       Begin, PointsRequest, IngestRequest, FlushRequest, IncidentsRequest, Push, Flush,
       Publish, Correlate, Reconcile, SnapshotTracker, SnapshotList, SnapshotJob, WriteState,
       SavedKnown, Exit, Start
  <2>. QED BY <2>1, <2>2, <2>3
<1>. QED BY <1>6, <1>7, <1>8 DEF PastInv

LEMMA RepeatNext ==
  ASSUME RestartInv, [Next]_vars
  PROVE  NotRepeated'
<1>. SUFFICES ASSUME NEW b \in closed', NEW k \in restored', k.job = b.job, k.time = b.time
              PROVE  IsLog(b.job)' \/ <<b.job, b.time>> \in flushed'
  BY DEF NotRepeated
<1>1. ShapeInv /\ PastInv
  BY DEF RestartInv
<1>2. ~Exit /\ ~Start
  BY <1>1, StartsFromDisk DEF Exit
<1>3. /\ flushed \subseteq flushed' /\ restored' = restored
      /\ \A c \in closed' : c \in closed \/
           /\ c.job \in Active
           /\ \/ IsLog(c.job) \/ <<c.job, c.time>> \in flushed'
              \/ engine[c.job].mark <= c.time /\ c.time < engine'[c.job].mark
  BY <1>1, <1>2, MarksNext
<1>4. b.job \in Made /\ IsLog(b.job)' = IsLog(b.job)
  <2>1. b.job \in Made
    BY <1>1, <1>3, ActiveMade DEF ShapeInv, ListInv
  <2>. QED BY <1>1, <2>1, NamesKept DEF ShapeInv
<1>5. CASE b \in closed
  BY <1>3, <1>4, <1>5 DEF RestartInv, NotRepeated
<1>6. CASE b \notin closed
  <2>1. /\ b.job \in Active
        /\ \/ IsLog(b.job) \/ <<b.job, b.time>> \in flushed'
           \/ engine[b.job].mark <= b.time
    BY <1>3, <1>6
  <2>2. Past(k, engine[b.job].mark)
    BY <1>1, <1>3, <2>1 DEF PastInv
  <2>3. k.time \in Int /\ engine[b.job].mark \in Int
    <3>1. \A t \in Times : t \in Int
      BY TimesAssumption
    <3>2. k \in Buckets
      BY <1>3, <1>4, ActiveMade, <1>1 DEF RestartInv, KnownInv
    <3>3. engine[b.job] \in Engines
      BY <1>1, <1>4, LenProperties DEF ShapeInv, EngineInv, Made
    <3>. QED BY <3>1, <3>2, <3>3 DEF Buckets, Engines, NoMark
  <2>. QED BY <1>3, <1>4, <2>1, <2>2, <2>3 DEF Past
<1>. QED BY <1>5, <1>6

LEMMA RestartInit == Init => RestartInv
<1>. SUFFICES ASSUME Init PROVE RestartInv
  OBVIOUS
<1>1. /\ closed = {} /\ restored = {} /\ known = {}
      /\ saver.known = {} /\ disk.known = {} /\ \A w \in Workers : req[w].view = {}
  BY DEF Init, NoSave, Idle
<1>. QED BY <1>1, ShapeInit DEF RestartInv, KnownInv, Views, PastInv, NotRepeated

\* A restart reports no bucket of a metric job that the restored tracker has
\* already: the tracker is saved first, each engine later, and the watermark it
\* is saved with is past all that it had returned by then (SaveState, LoadState).
THEOREM RepeatCorrect == Spec => []NotRepeated
<1>1. Init => RestartInv
  BY RestartInit
<1>2. RestartInv /\ [Next]_vars => RestartInv'
  <2>. SUFFICES ASSUME RestartInv, [Next]_vars PROVE RestartInv'
    OBVIOUS
  <2>1. ShapeInv /\ KnownInv /\ PastInv
    BY DEF RestartInv
  <2>. QED BY <2>1, ShapeNext, KnownNext, PastNext, RepeatNext DEF RestartInv
<1>3. RestartInv => NotRepeated
  BY DEF RestartInv
<1>. QED BY <1>1, <1>2, <1>3, PTL DEF Spec

=============================================================================
