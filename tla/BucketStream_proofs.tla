------------------------- MODULE BucketStream_proofs -------------------------
(***************************************************************************)
(* Theorems about BucketStream, for every bucket span, grace period, gap   *)
(* limit and length of the stream.                                         *)
(***************************************************************************)
EXTENDS BucketStream, FiniteSetTheorems, TLAPS

-----------------------------------------------------------------------------
(* The largest and the smallest element of a bounded set of integers, from *)
(* the well-foundedness of strict inclusion.                               *)

LEMMA MaxExists ==
  ASSUME NEW a \in Int, NEW m \in Int, NEW S, S \subseteq a..m, S # {}
  PROVE  Max(S) \in S /\ \A y \in S : y <= Max(S)
<1>. DEFINE T == {s..m : s \in S}
<1>1. T # {}
  OBVIOUS
<1>2. T \subseteq FiniteSubsetsOf(a..m)
  <2>1. \A s \in S : s..m \in SUBSET (a..m)
    OBVIOUS
  <2>2. IsFiniteSet(a..m)
    BY FS_Interval
  <2>. QED BY <2>1, <2>2, FS_FiniteSubsetsOfFinite
<1>3. IsWellFoundedOn(StrictSubsetOrdering(a..m), FiniteSubsetsOf(a..m))
  BY FS_StrictSubsetOrderingWellFounded
<1>4. PICK U \in T : \A V \in T : ~(<<V, U>> \in StrictSubsetOrdering(a..m))
  BY <1>1, <1>2, <1>3, WFMin
<1>5. PICK x \in S : U = x..m
  OBVIOUS
<1>6. \A y \in S : y <= x
  <2>. SUFFICES ASSUME NEW y \in S, y > x PROVE FALSE
    OBVIOUS
  <2>1. y..m \in T /\ y..m \subseteq x..m /\ x \in x..m /\ x \notin y..m
    OBVIOUS
  <2>2. y..m \in SUBSET (a..m) /\ x..m \in SUBSET (a..m)
    OBVIOUS
  <2>3. <<y..m, x..m>> \in StrictSubsetOrdering(a..m)
    BY <2>1, <2>2 DEF StrictSubsetOrdering
  <2>. QED BY <1>4, <1>5, <2>1, <2>3
<1>. QED BY <1>6 DEF Max

LEMMA MinExists ==
  ASSUME NEW a \in Int, NEW m \in Int, NEW S, S \subseteq a..m, S # {}
  PROVE  Min(S) \in S /\ \A y \in S : Min(S) <= y
<1>. DEFINE T == {0 - s : s \in S}
<1>1. T \subseteq (0 - m)..(0 - a) /\ T # {}
  <2>1. T # {}
    OBVIOUS
  <2>2. \A s \in S : 0 - s \in (0 - m)..(0 - a)
    OBVIOUS
  <2>. QED BY <2>1, <2>2
<1>2. \A s \in S : 0 - s \in T
  OBVIOUS
<1>3. Max(T) \in T /\ \A z \in T : z <= Max(T)
  <2>. HIDE DEF T
  <2>1. 0 - m \in Int /\ 0 - a \in Int
    OBVIOUS
  <2>. QED BY <1>1, <2>1, MaxExists
<1>4. PICK x \in S : 0 - x = Max(T)
  BY <1>3
<1>5. \A y \in S : x <= y
  <2>. TAKE y \in S
  <2>1. 0 - y <= 0 - x
    BY <1>2, <1>3, <1>4
  <2>2. x \in Int /\ y \in Int
    OBVIOUS
  <2>. QED BY <2>1, <2>2
<1>. QED BY <1>5 DEF Min

-----------------------------------------------------------------------------
(* Which buckets closeBefore closes.                                       *)

\* Nothing is closed when nothing is due; what is closed lies between the
\* oldest bucket due and the newest time given.
LEMMA ClosingRange ==
  ASSUME NEW a \in Int, NEW m \in Int, NEW D, NEW U,
         D \subseteq a..m, U \subseteq a..m, D # {}
  PROVE  /\ Min(D) \in D
         /\ \A t \in D : Min(D) <= t
         /\ \A t \in Closing(D, U) : t \in Int /\ Min(D) <= t /\ t <= m
         /\ LastTime(D, U) \in a..m
         /\ \A t \in D : t <= LastTime(D, U)
<1>1. Min(D) \in D /\ \A t \in D : Min(D) <= t
  BY MinExists
<1>2. LastTime(D, U) \in D \cup U /\ \A t \in D \cup U : t <= LastTime(D, U)
  <2>1. D \cup U \subseteq a..m /\ D \cup U # {}
    OBVIOUS
  <2>. QED BY <2>1, MaxExists DEF LastTime
<1>3. Min(D) \in a..m /\ LastTime(D, U) \in a..m
  BY <1>1, <1>2
<1>4. Min(D) <= LastTime(D, U)
  BY <1>1, <1>2
<1>5. ASSUME NEW t \in Closing(D, U)
      PROVE  t \in Int /\ Min(D) <= t /\ t <= m
  <2>1. CASE GapFill
    <3>1. t \in FillGaps(Min(D), LastTime(D, U))
      BY <2>1, <1>5 DEF Closing
    <3>2. t \in Min(D)..LastTime(D, U)
      BY <3>1, <1>3, <1>4 DEF FillGaps, Steps
    <3>. QED BY <3>2, <1>3
  <2>2. CASE ~GapFill
    <3>1. t \in D
      BY <2>2, <1>5 DEF Closing
    <3>. QED BY <3>1, <1>1
  <2>. QED BY <2>1, <2>2
<1>. QED BY <1>1, <1>2, <1>3, <1>5

LEMMA ClosingNothing ==
  ASSUME NEW U
  PROVE  Closing({}, U) = {}
BY DEF Closing

\* When the run is not too long to fill, or one bucket is due, every bucket
\* due is closed.
LEMMA ClosingAll ==
  ASSUME NEW a \in Int, NEW m \in Int, NEW D, NEW U,
         D \subseteq BucketTimes, D \subseteq a..m, U \subseteq a..m, D # {},
         \/ GapFill => ~TooLong(Min(D), LastTime(D, U))
         \/ \A s, t \in D : s = t
  PROVE  D \subseteq Closing(D, U)
<1>. SUFFICES ASSUME NEW t \in D PROVE t \in Closing(D, U)
  OBVIOUS
<1>1. /\ Min(D) \in D /\ Min(D) <= t
      /\ LastTime(D, U) \in a..m /\ t <= LastTime(D, U)
  BY ClosingRange
<1>2. CASE ~GapFill
  BY <1>2 DEF Closing
<1>3. CASE GapFill /\ ~TooLong(Min(D), LastTime(D, U))
  <2>1. Closing(D, U) = Steps(Min(D), LastTime(D, U))
    BY <1>3 DEF Closing, FillGaps
  <2>2. (t - Min(D)) % Span = 0
    BY <1>1, BucketAssumption
  <2>. QED BY <2>1, <2>2, <1>1 DEF Steps
<1>4. CASE GapFill /\ TooLong(Min(D), LastTime(D, U)) /\ \A s, u \in D : s = u
  BY <1>1, <1>4 DEF Closing, FillGaps
<1>. QED BY <1>2, <1>3, <1>4

-----------------------------------------------------------------------------
(* Types.                                                                  *)

\* The counters stay natural numbers.
LEMMA CloseStatsType ==
  ASSUME TypeOK, NEW a \in Int, NEW m \in Int, NEW D, NEW U,
         D \subseteq a..m, U \subseteq a..m
  PROVE  CloseStats(D, U) \in StatsType
<1>1. CASE D = {} \/ ~GapFill
  BY <1>1 DEF CloseStats, TypeOK
<1>2. CASE D # {} /\ GapFill
  <2>. DEFINE first == Min(D)
              last  == LastTime(D, U)
  <2>1. first \in Int /\ last \in Int
    <3>1. Min(D) \in a..m /\ LastTime(D, U) \in a..m
      BY <1>2, ClosingRange
    <3>2. \A x \in a..m : x \in Int
      OBVIOUS
    <3>. QED BY <3>1, <3>2
  <2>2. RunLength(first, last) \in Int
    BY <2>1, SpanAssumption DEF RunLength
  <2>3. Cardinality(Steps(first, last) \ Open) \in Nat
    <3>1. IsFiniteSet(first..last)
      BY <2>1, FS_Interval
    <3>2. Steps(first, last) \ Open \subseteq first..last
      BY DEF Steps
    <3>3. IsFiniteSet(Steps(first, last) \ Open)
      BY <3>1, <3>2, FS_Subset
    <3>. QED BY <3>3, FS_CardinalityType
  <2>4. CASE TooLong(first, last)
    <3>1. RunLength(first, last) - 2 \in Nat
      BY <2>2, <2>4, GapAssumption DEF TooLong
    <3>2. CloseStats(D, U) =
            [stats EXCEPT !.skipped = @ + RunLength(first, last) - 2]
      BY <1>2, <2>4 DEF CloseStats
    <3>3. stats \in StatsType
      BY DEF TypeOK
    <3>4. stats.skipped + RunLength(first, last) - 2 \in Nat
      BY <3>1, <3>3, <2>2 DEF StatsType
    <3>. QED BY <3>2, <3>3, <3>4 DEF StatsType
  <2>5. CASE ~TooLong(first, last)
    <3>1. CloseStats(D, U) =
            [stats EXCEPT !.filled = @ + Cardinality(Steps(first, last) \ Open)]
      BY <1>2, <2>5 DEF CloseStats
    <3>2. stats \in StatsType
      BY DEF TypeOK
    <3>. QED BY <3>1, <3>2, <2>3 DEF StatsType
  <2>. QED BY <2>4, <2>5
<1>. QED BY <1>1, <1>2

\* What a call returns has the type of the results, and what it leaves
\* pending the type of the map.
LEMMA ReturnType ==
  ASSUME TypeOK, NEW D, NEW U, NEW a \in Int, NEW m \in Int,
         D \subseteq a..m, U \subseteq a..m, NEW c \in 1..MaxCalls
  PROVE  /\ Return(Closing(D, U), c) \subseteq ResultType
         /\ Forget(Closing(D, U)) \in [BucketTimes -> SUBSET (1..MaxCalls)]
<1>1. Closing(D, U) \subseteq Int
  <2>1. CASE D = {}
    BY <2>1, ClosingNothing
  <2>2. CASE D # {}
    BY <2>2, ClosingRange
  <2>. QED BY <2>1, <2>2
<1>2. \A t : HeldIn(t) \in SUBSET (1..MaxCalls)
  BY DEF HeldIn, TypeOK
<1>3. ASSUME NEW t \in Closing(D, U)
      PROVE  [time |-> t, pts |-> HeldIn(t), call |-> c] \in ResultType
  BY <1>1, <1>2 DEF ResultType
<1>4. Return(Closing(D, U), c) \subseteq ResultType
  <2>. HIDE DEF ResultType
  <2>. QED BY <1>3 DEF Return, TypeOK
<1>5. Forget(Closing(D, U)) \in [BucketTimes -> SUBSET (1..MaxCalls)]
  BY DEF Forget, TypeOK
<1>. QED BY <1>4, <1>5

\* No bucket is open ahead of the watermark, and none before the first push.
Behind == \A t \in Open : t <= watermark /\ hasMark

LEMMA OpenRange ==
  ASSUME TypeOK, Behind
  PROVE  Open \subseteq 0..watermark
<1>1. watermark \in Nat
  BY BucketAssumption DEF TypeOK
<1>2. \A t \in Open : t \in Nat /\ t <= watermark
  BY BucketAssumption DEF Open, Behind
<1>. QED BY <1>1, <1>2

\* The buckets due to a push, and the end of its gap run, are bounded.
LEMMA AdvanceRange ==
  ASSUME NEW bt \in BucketTimes, NEW D, D \subseteq {t \in Open : t < bt - Grace}
  PROVE  /\ bt - Grace \in Int /\ bt - Grace - Span \in Int
         /\ 0 - Grace - Span \in Int /\ bt - Grace - 1 \in Int
         /\ D \subseteq (0 - Grace - Span)..(bt - Grace - 1)
         /\ {bt - Grace - Span} \subseteq (0 - Grace - Span)..(bt - Grace - 1)
<1>1. bt \in Nat /\ Grace \in Nat /\ Span \in Nat /\ Span > 0
  BY BucketAssumption, GraceAssumption, SpanAssumption
<1>2. \A t \in D : t \in Nat /\ t < bt - Grace
  BY BucketAssumption DEF Open
<1>. QED BY <1>1, <1>2

TypeInv == TypeOK /\ Behind

LEMMA TypeInit == Init => TypeInv
<1>. SUFFICES ASSUME Init PROVE TypeInv
  OBVIOUS
<1>1. TypeOK
  <2>1. calls \in 0..MaxCalls
    BY BoundAssumption DEF Init
  <2>2. stats \in StatsType
    BY DEF Init, StatsType
  <2>3. pending \in [BucketTimes -> SUBSET (1..MaxCalls)]
    BY DEF Init
  <2>4. arrived \in [1..MaxCalls -> BucketTimes \cup {NoPoint}]
    BY DEF Init
  <2>. QED BY <2>1, <2>2, <2>3, <2>4, BucketAssumption DEF Init, TypeOK
<1>2. Behind
  BY DEF Init, Behind, Open
<1>. QED BY <1>1, <1>2 DEF TypeInv

LEMMA TypeNext == TypeInv /\ [Next]_vars => TypeInv'
<1>. SUFFICES ASSUME TypeInv, [Next]_vars PROVE TypeInv'
  OBVIOUS
<1>. USE DEF TypeInv
<1>1. ASSUME NEW bt \in BucketTimes, Arrive(bt)
      PROVE  /\ calls \in 0..MaxCalls /\ calls' \in 0..MaxCalls
             /\ calls + 1 \in 1..MaxCalls
             /\ arrived' \in [1..MaxCalls -> BucketTimes \cup {NoPoint}]
             /\ flushedAt' \subseteq BucketTimes
  BY <1>1, BoundAssumption DEF Arrive, TypeOK
<1>2. \A bt \in BucketTimes : Mark(bt) \in BucketTimes
  BY DEF Mark, TypeOK
<1>3. ASSUME NEW bt \in BucketTimes, DropLate(bt)
      PROVE  TypeInv'
  <2>1. Arrive(bt)
    BY <1>3 DEF DropLate
  <2>2. stats' \in StatsType
    BY <1>3 DEF DropLate, TypeOK, StatsType
  <2>3. TypeOK'
    BY <1>1, <1>3, <2>1, <2>2 DEF DropLate, TypeOK
  <2>4. Behind'
    BY <1>3 DEF DropLate, Behind, Open
  <2>. QED BY <2>3, <2>4
<1>4. ASSUME NEW bt \in BucketTimes, Join(bt)
      PROVE  TypeInv'
  <2>1. Arrive(bt)
    BY <1>4 DEF Join
  <2>2. stats' \in StatsType
    BY <1>4 DEF Join, TypeOK, StatsType
  <2>3. pending' \in [BucketTimes -> SUBSET (1..MaxCalls)]
    BY <1>1, <1>4, <2>1 DEF Join, TypeOK
  <2>4. TypeOK'
    BY <1>1, <1>2, <1>4, <2>1, <2>2, <2>3 DEF Join, TypeOK
  <2>5. \A t \in BucketTimes : t \in Open' => t \in Open \/ t = bt
    BY <1>4 DEF Join, Open, TypeOK
  <2>6. bt <= Mark(bt)
    BY <1>2, <1>4, BucketAssumption DEF Join
  <2>7. Behind'
    BY <1>4, <2>5, <2>6 DEF Join, Behind, Open, Mark
  <2>. QED BY <2>4, <2>7
<1>5. ASSUME NEW bt \in BucketTimes, Advance(bt)
      PROVE  TypeInv'
  <2>. DEFINE D == {t \in Open : t < bt - Grace}
              U == {bt - Grace - Span}
  <2>1. Arrive(bt) /\ bt > Mark(bt) /\ watermark' = bt /\ hasMark' = hasMark
    BY <1>5 DEF Advance, AdvanceWith
  <2>2. /\ results' = Return(Closing(D, U), calls + 1)
        /\ stats' = CloseStats(D, U)
        /\ pending' = [Forget(Closing(D, U)) EXCEPT ![bt] = @ \cup {calls + 1}]
    BY <1>5 DEF Advance, AdvanceWith
  <2>range. \E a, m \in Int : D \subseteq a..m /\ U \subseteq a..m
    BY AdvanceRange
  <2>3. /\ Return(Closing(D, U), calls + 1) \subseteq ResultType
        /\ Forget(Closing(D, U)) \in [BucketTimes -> SUBSET (1..MaxCalls)]
    <3>1. calls + 1 \in 1..MaxCalls
      BY <1>1, <2>1
    <3>. HIDE DEF D, U
    <3>. QED BY <2>range, <3>1, ReturnType
  <2>4. CloseStats(D, U) \in StatsType
    <3>. HIDE DEF D, U
    <3>. QED BY <2>range, CloseStatsType
  <2>. HIDE DEF D, U
  <2>5. pending' \in [BucketTimes -> SUBSET (1..MaxCalls)]
    BY <1>1, <2>1, <2>2, <2>3
  <2>6. TypeOK'
    BY <1>1, <2>1, <2>2, <2>3, <2>4, <2>5 DEF TypeOK
  <2>7. hasMark
    BY <1>2, <2>1, BucketAssumption DEF Mark
  <2>8. \A t \in BucketTimes : t \in Open' => t \in Open \/ t = bt
    BY <2>2, <2>3 DEF Open, Forget
  <2>9. Behind'
    BY SMTT(30), <2>1, <2>7, <2>8, BucketAssumption DEF Behind, Open, Mark, TypeOK
  <2>. QED BY <2>6, <2>9
<1>6. ASSUME Flush
      PROVE  TypeInv'
  <2>. DEFINE T == Closing(Open, {})
  <2>1. /\ results' = Return(T, calls + 1) /\ stats' = CloseStats(Open, {})
        /\ pending' = Forget(T) /\ UNCHANGED <<watermark, hasMark, arrived>>
    BY <1>6 DEF Flush
  <2>2. calls' \in 0..MaxCalls /\ calls + 1 \in 1..MaxCalls
    BY <1>6, BoundAssumption DEF Flush, TypeOK
  <2>3. flushedAt' \subseteq BucketTimes
    BY <1>6 DEF Flush, TypeOK
  <2>4. 0 \in Int /\ watermark \in Int /\ Open \subseteq 0..watermark
    BY OpenRange, BucketAssumption DEF TypeOK
  <2>5. /\ Return(T, calls + 1) \subseteq ResultType
        /\ Forget(T) \in [BucketTimes -> SUBSET (1..MaxCalls)]
    BY <2>2, <2>4, ReturnType
  <2>6. CloseStats(Open, {}) \in StatsType
    BY <2>4, CloseStatsType
  <2>. HIDE DEF T
  <2>7. TypeOK'
    BY <2>1, <2>2, <2>3, <2>5, <2>6 DEF TypeOK
  <2>8. \A t \in BucketTimes : t \in Open' => t \in Open
    BY <2>1 DEF Open, Forget
  <2>9. Behind'
    BY <2>1, <2>8 DEF Behind, Open
  <2>. QED BY <2>7, <2>9
<1>7. ASSUME UNCHANGED vars
      PROVE  TypeInv'
  BY <1>7 DEF vars, TypeOK, Behind, Open
<1>. QED BY <1>3, <1>4, <1>5, <1>6, <1>7 DEF Next, Push

\* The variables of the streaming engine keep their types, whatever is pushed
\* and whenever Flush is called.
THEOREM TypeCorrect == Spec => []TypeOK
<1>1. TypeInv => TypeOK
  BY DEF TypeInv
<1>. QED BY TypeInit, TypeNext, <1>1, PTL DEF Spec

-----------------------------------------------------------------------------
(* No point is lost or scored twice.                                       *)

Unpushed == \A i \in 1..MaxCalls : i > calls => arrived[i] = NoPoint

ConsInv == TypeInv /\ Conservation /\ Unpushed

LEMMA ConsInit == Init => ConsInv
<1>. SUFFICES ASSUME Init PROVE ConsInv
  OBVIOUS
<1>1. TypeInv
  BY TypeInit
<1>2. Pushed = {} /\ \A t \in BucketTimes : pending[t] = {}
  BY BoundAssumption DEF Init, Pushed
<1>3. Cardinality(Lost) = stats.dropped
  <2>1. Lost = {}
    BY <1>2 DEF Lost
  <2>. QED BY <2>1, FS_EmptySet DEF Init
<1>4. Conservation
  BY <1>2, <1>3 DEF Init, Conservation
<1>5. Unpushed
  BY DEF Init, Unpushed
<1>. QED BY <1>1, <1>4, <1>5 DEF ConsInv

\* The call reports the buckets T and holds the points N (its own, or none)
\* in bucket bt.
ReportsAndHolds(T, bt, N) ==
  /\ calls < MaxCalls /\ calls' = calls + 1
  /\ N \in SUBSET {calls + 1}
  /\ arrived' = [i \in 1..MaxCalls |-> IF i \in N THEN bt ELSE arrived[i]]
  /\ \A t \in BucketTimes :
       pending'[t] = (IF t \in T THEN {} ELSE pending[t])
                       \cup (IF t = bt THEN N ELSE {})
  /\ results' = Return(T, calls + 1)
  /\ stats'.dropped = stats.dropped

\* Such a call keeps every point accounted for.
LEMMA ReportConserves ==
  ASSUME ConsInv, TypeInv', NEW T, NEW bt \in BucketTimes, NEW N,
         ReportsAndHolds(T, bt, N)
  PROVE  Conservation' /\ Unpushed' /\ Lost' = Lost
<1>. USE DEF ReportsAndHolds
<1>. USE DEF ConsInv, TypeInv
<1>1. calls \in Nat /\ calls + 1 \in 1..MaxCalls /\ MaxCalls \in Nat
  BY BoundAssumption DEF TypeOK
<1>2. Pushed \subseteq 1..calls /\ calls + 1 \notin Pushed
  BY <1>1 DEF Pushed
<1>3. NoPoint \notin BucketTimes
  BY BucketAssumption DEF NoPoint
<1>4. Pushed' = Pushed \cup N
  <2>1. \A i \in 1..MaxCalls : arrived'[i] = IF i \in N THEN bt ELSE arrived[i]
    OBVIOUS
  <2>2. arrived[calls + 1] = NoPoint
    BY <1>1 DEF Unpushed
  <2>3. \A i \in 1..calls' : i \in 1..calls \/ i = calls + 1
    BY <1>1
  <2>4. \A i \in 1..calls : i \in 1..calls' /\ i \in 1..MaxCalls /\ i # calls + 1
    BY <1>1
  <2>5. calls + 1 \in 1..calls'
    BY <1>1
  <2>. QED BY <2>1, <2>2, <2>3, <2>4, <2>5, <1>1, <1>3 DEF Pushed
<1>5. \A i \in Pushed : i \notin N /\ arrived'[i] = arrived[i]
  BY <1>1, <1>2
<1>6. \A i \in N : arrived'[i] = bt
  BY <1>1
<1>7. \A t \in BucketTimes : \A i \in pending[t] : i \in Pushed /\ arrived[i] = t
  BY DEF Conservation
<1>8. \A r \in results : \A i \in r.pts :
        i \in Pushed /\ arrived[i] = r.time /\ i \notin HeldIn(r.time)
  BY DEF Conservation
<1>9. \A r \in results' : r \in results \/
        \E t \in T : r = [time |-> t, pts |-> HeldIn(t), call |-> calls + 1]
  BY DEF Return
<1>10. \A t \in BucketTimes : \A i \in pending'[t] : i \in Pushed' /\ arrived'[i] = t
  <2>. SUFFICES ASSUME NEW t \in BucketTimes, NEW i \in pending'[t]
                PROVE  i \in Pushed' /\ arrived'[i] = t
    OBVIOUS
  <2>1. i \in pending[t] \/ (i \in N /\ t = bt)
    OBVIOUS
  <2>. QED BY <2>1, <1>4, <1>5, <1>6, <1>7
<1>11. \A r \in results' : \A i \in r.pts :
         i \in Pushed' /\ arrived'[i] = r.time /\ i \notin HeldIn(r.time)'
  <2>. SUFFICES ASSUME NEW r \in results', NEW i \in r.pts
                PROVE  i \in Pushed' /\ arrived'[i] = r.time /\ i \notin HeldIn(r.time)'
    OBVIOUS
  <2>1. CASE r \in results
    BY <2>1, <1>4, <1>5, <1>8 DEF HeldIn
  <2>2. CASE \E t \in T : r = [time |-> t, pts |-> HeldIn(t), call |-> calls + 1]
    <3>1. PICK t \in T : r = [time |-> t, pts |-> HeldIn(t), call |-> calls + 1]
      BY <2>2
    <3>2. t \in BucketTimes /\ i \in pending[t]
      BY <3>1 DEF HeldIn
    <3>. QED BY <3>1, <3>2, <1>4, <1>5, <1>7 DEF HeldIn
  <2>. QED BY <2>1, <2>2, <1>9
<1>12. \A r, s \in results' : r # s => r.pts \cap s.pts = {}
  <2>. SUFFICES ASSUME NEW r \in results', NEW s \in results', r # s,
                       NEW i \in r.pts, i \in s.pts
                PROVE  FALSE
    OBVIOUS
  <2>1. CASE r \in results /\ s \in results
    BY <2>1 DEF Conservation
  <2>2. CASE r \notin results /\ s \notin results
    <3>1. PICK t \in T, u \in T :
            /\ r = [time |-> t, pts |-> HeldIn(t), call |-> calls + 1]
            /\ s = [time |-> u, pts |-> HeldIn(u), call |-> calls + 1]
      BY <2>2, <1>9
    <3>2. t = u
      BY <3>1, <1>7 DEF HeldIn
    <3>. QED BY <3>1, <3>2
  <2>3. CASE r \in results /\ s \notin results
    <3>1. PICK t \in T : s = [time |-> t, pts |-> HeldIn(t), call |-> calls + 1]
      BY <2>3, <1>9
    <3>. QED BY <2>3, <3>1, <1>7, <1>8 DEF HeldIn
  <2>4. CASE r \notin results /\ s \in results
    <3>1. PICK t \in T : r = [time |-> t, pts |-> HeldIn(t), call |-> calls + 1]
      BY <2>4, <1>9
    <3>. QED BY <2>4, <3>1, <1>7, <1>8 DEF HeldIn
  <2>. QED BY <2>1, <2>2, <2>3, <2>4
<1>13. Lost' = Lost
  <2>1. \A i \in N : i \in HeldIn(arrived[i])'
    BY <1>6 DEF HeldIn
  <2>2. \A i \in Pushed : arrived[i] \in BucketTimes
    <3>1. \A i \in Pushed : i \in 1..MaxCalls /\ arrived[i] # NoPoint
      BY <1>1 DEF Pushed
    <3>. QED BY <3>1 DEF TypeOK
  <2>3. ASSUME NEW i \in Pushed
        PROVE  (i \notin HeldIn(arrived[i])' /\ Reported(i)' = {})
                 <=> (i \notin HeldIn(arrived[i]) /\ Reported(i) = {})
    <3>1. CASE i \in HeldIn(arrived[i]) /\ arrived[i] \in T
      <4>. DEFINE r == [time |-> arrived[i], pts |-> HeldIn(arrived[i]), call |-> calls + 1]
      <4>1. r \in results' /\ i \in r.pts
        BY <3>1 DEF Return
      <4>. QED BY <4>1, <3>1 DEF Reported
    <3>2. CASE i \in HeldIn(arrived[i]) /\ arrived[i] \notin T
      <4>1. HeldIn(arrived[i])' = pending'[arrived[i]]
        BY <2>2, <1>5 DEF HeldIn
      <4>2. pending[arrived[i]] \subseteq pending'[arrived[i]]
        BY <3>2, <2>2
      <4>. QED BY <3>2, <4>1, <4>2, <2>2 DEF HeldIn
    <3>3. CASE i \notin HeldIn(arrived[i])
      <4>1. i \notin HeldIn(arrived[i])'
        <5>1. HeldIn(arrived[i])' = pending'[arrived[i]]
          BY <2>2, <1>5 DEF HeldIn
        <5>2. i \notin pending[arrived[i]] /\ i \notin N
          BY <3>3, <2>2, <1>5 DEF HeldIn
        <5>. QED BY <5>1, <5>2, <2>2
      <4>2. results \subseteq results'
        BY DEF Return
      <4>3. ASSUME NEW r \in results', i \in r.pts PROVE r \in results
        <5>1. CASE \E t \in T : r = [time |-> t, pts |-> HeldIn(t), call |-> calls + 1]
          BY <5>1, <4>3, <3>3, <1>7 DEF HeldIn
        <5>. QED BY <5>1, <1>9
      <4>. QED BY <4>1, <4>2, <4>3, <3>3 DEF Reported
    <3>. QED BY <3>1, <3>2, <3>3
  <2>4. Lost' = {i \in Pushed' : i \notin HeldIn(arrived[i])' /\ Reported(i)' = {}}
    BY DEF Lost
  <2>. QED BY <2>1, <2>3, <2>4, <1>4 DEF Lost
<1>14. Conservation'
  <2>1. Cardinality(Lost') = stats'.dropped
    BY <1>13 DEF Conservation
  <2>. QED BY <1>10, <1>11, <1>12, <2>1 DEF Conservation
<1>15. Unpushed'
  BY <1>1 DEF Unpushed
<1>. QED BY <1>13, <1>14, <1>15

\* A refused point is the one more point that LateDropped counts.
LEMMA DropConserves ==
  ASSUME ConsInv, TypeInv', NEW bt \in BucketTimes, DropLate(bt)
  PROVE  Conservation' /\ Unpushed' /\ Lost' = Lost \cup {calls + 1}
<1>. USE DEF ConsInv, TypeInv
<1>n. PICK n : n = calls + 1
  OBVIOUS
<1>1. /\ calls < MaxCalls /\ calls' = n
      /\ arrived' = [arrived EXCEPT ![n] = bt]
      /\ stats' = [stats EXCEPT !.dropped = @ + 1]
      /\ bt \notin Open
      /\ UNCHANGED <<pending, results>>
  BY <1>n DEF DropLate, Arrive
<1>2. /\ calls \in Nat /\ n = calls + 1 /\ n \in 1..MaxCalls /\ MaxCalls \in Nat
      /\ NoPoint \notin BucketTimes
  BY <1>n, <1>1, BoundAssumption, BucketAssumption DEF TypeOK, NoPoint
<1>3. Pushed \subseteq 1..calls /\ n \notin Pushed /\ n \notin 1..calls
  BY <1>2 DEF Pushed
<1>4. /\ arrived'[n] = bt
      /\ \A i \in 1..MaxCalls : i # n => arrived'[i] = arrived[i]
  BY <1>1, <1>2 DEF TypeOK
<1>5. Pushed' = Pushed \cup {n}
  <2>1. 1..calls' = (1..calls) \cup {n}
    BY <1>1, <1>2
  <2>2. \A i \in 1..calls : i \in 1..MaxCalls /\ i # n
    BY <1>1, <1>2
  <2>. QED BY <2>1, <2>2, <1>2, <1>4 DEF Pushed
<1>6. \A i \in Pushed : arrived'[i] = arrived[i] /\ arrived[i] \in BucketTimes
  <2>1. \A i \in Pushed : i \in 1..MaxCalls /\ i # n /\ arrived[i] # NoPoint
    BY <1>2, <1>3 DEF Pushed
  <2>. QED BY <2>1, <1>4 DEF TypeOK
<1>7. \A t : HeldIn(t)' = HeldIn(t)
  BY <1>1 DEF HeldIn
<1>8. Lost' = Lost \cup {n} /\ n \notin Lost
  <2>1. n \notin Lost
    BY <1>3 DEF Lost
  <2>2. HeldIn(arrived[n])' = {}
    BY <1>1, <1>4 DEF HeldIn, Open
  <2>3. Reported(n)' = {}
    <3>1. \A r \in results : \A i \in r.pts : i \in Pushed
      BY DEF Conservation
    <3>. QED BY <3>1, <1>1, <1>3 DEF Reported
  <2>4. ASSUME NEW i \in Pushed
        PROVE  /\ HeldIn(arrived[i])' = HeldIn(arrived[i])
               /\ Reported(i)' = Reported(i)
    BY <1>1, <1>6 DEF HeldIn, Reported
  <2>5. Lost' = {i \in Pushed' : i \notin HeldIn(arrived[i])' /\ Reported(i)' = {}}
    BY DEF Lost
  <2>. QED BY <2>1, <2>2, <2>3, <2>4, <2>5, <1>5 DEF Lost
<1>9. Cardinality(Lost') = stats'.dropped
  <2>1. IsFiniteSet(1..calls)
    BY <1>2, FS_Interval
  <2>. Lost \subseteq 1..calls
    BY <1>3 DEF Lost
  <2>2. IsFiniteSet(Lost)
    BY <2>1, FS_Subset
  <2>3. Cardinality(Lost \cup {n}) = Cardinality(Lost) + 1
    BY <2>2, <1>8, FS_AddElement
  <2>4. stats'.dropped = stats.dropped + 1
    BY <1>1 DEF TypeOK, StatsType
  <2>. QED BY <2>3, <2>4, <1>8 DEF Conservation
<1>10. \A t \in BucketTimes : \A i \in pending'[t] : i \in Pushed' /\ arrived'[i] = t
  BY <1>1, <1>5, <1>6 DEF Conservation
<1>11. \A r \in results' : \A i \in r.pts :
         i \in Pushed' /\ arrived'[i] = r.time /\ i \notin HeldIn(r.time)'
  BY <1>1, <1>5, <1>6, <1>7 DEF Conservation
<1>12. \A r, s \in results' : r # s => r.pts \cap s.pts = {}
  BY <1>1 DEF Conservation
<1>13. Conservation'
  BY <1>9, <1>10, <1>11, <1>12 DEF Conservation
<1>14. Unpushed'
  BY <1>1, <1>2, <1>4 DEF Unpushed
<1>. QED BY <1>n, <1>8, <1>13, <1>14

LEMMA ConsNext == ConsInv /\ [Next]_vars => ConsInv'
<1>. SUFFICES ASSUME ConsInv, [Next]_vars PROVE ConsInv'
  OBVIOUS
<1>1. TypeInv /\ TypeInv'
  BY TypeNext DEF ConsInv
<1>2. /\ calls \in Nat /\ stats \in StatsType
      /\ arrived \in [1..MaxCalls -> BucketTimes \cup {NoPoint}]
      /\ pending \in [BucketTimes -> SUBSET (1..MaxCalls)]
  BY <1>1 DEF TypeInv, TypeOK
<1>3. ASSUME NEW bt \in BucketTimes, DropLate(bt)
      PROVE  ConsInv'
  BY <1>1, <1>3, DropConserves DEF ConsInv
<1>4. ASSUME NEW bt \in BucketTimes, Join(bt)
      PROVE  ConsInv'
  <2>n. PICK n : n = calls + 1
    OBVIOUS
  <2>. DEFINE N == {n}
  <2>1. /\ N \in SUBSET {calls + 1} /\ calls < MaxCalls /\ calls' = calls + 1
        /\ arrived' = [i \in 1..MaxCalls |-> IF i \in N THEN bt ELSE arrived[i]]
    BY <2>n, <1>2, <1>4 DEF Join, Arrive
  <2>2. results' = Return({}, calls + 1)
    BY <1>4 DEF Join, Return
  <2>3. \A t \in BucketTimes :
          pending'[t] = (IF t \in {} THEN {} ELSE pending[t])
                          \cup (IF t = bt THEN N ELSE {})
    BY <2>n, <1>2, <1>4 DEF Join
  <2>4. stats'.dropped = stats.dropped
    BY <1>2, <1>4 DEF Join, StatsType
  <2>. HIDE DEF N
  <2>5. Conservation' /\ Unpushed'
    <3>1. ReportsAndHolds({}, bt, N)
      BY <2>1, <2>2, <2>3, <2>4 DEF ReportsAndHolds
    <3>. QED BY <1>1, <3>1, ReportConserves
  <2>. QED BY <1>1, <2>5 DEF ConsInv
<1>5. \A D, U : CloseStats(D, U).dropped = stats.dropped
  BY <1>2 DEF CloseStats, StatsType
<1>6. ASSUME NEW bt \in BucketTimes, Advance(bt)
      PROVE  ConsInv'
  <2>n. PICK n : n = calls + 1
    OBVIOUS
  <2>. DEFINE N == {n}
              T == Closing({t \in Open : t < bt - Grace}, {bt - Grace - Span})
  <2>1. /\ N \in SUBSET {calls + 1} /\ calls < MaxCalls /\ calls' = calls + 1
        /\ arrived' = [i \in 1..MaxCalls |-> IF i \in N THEN bt ELSE arrived[i]]
    BY <2>n, <1>2, <1>6 DEF Advance, AdvanceWith, Arrive
  <2>2. results' = Return(T, calls + 1)
    BY <1>6 DEF Advance, AdvanceWith
  <2>3. pending' = [Forget(T) EXCEPT ![bt] = @ \cup N]
    BY <2>n, <1>6 DEF Advance, AdvanceWith
  <2>4. stats'.dropped = stats.dropped
    BY <1>5, <1>6 DEF Advance, AdvanceWith
  <2>. HIDE DEF T
  <2>5. \A t \in BucketTimes :
          pending'[t] = (IF t \in T THEN {} ELSE pending[t])
                          \cup (IF t = bt THEN N ELSE {})
    BY <2>3 DEF Forget
  <2>. HIDE DEF N
  <2>6. Conservation' /\ Unpushed'
    <3>1. ReportsAndHolds(T, bt, N)
      BY <2>1, <2>2, <2>4, <2>5 DEF ReportsAndHolds
    <3>. QED BY <1>1, <3>1, ReportConserves
  <2>. QED BY <1>1, <2>6 DEF ConsInv
<1>7. ASSUME Flush
      PROVE  ConsInv'
  <2>. DEFINE T == Closing(Open, {})
  <2>1. /\ calls < MaxCalls /\ calls' = calls + 1
        /\ arrived' = [i \in 1..MaxCalls |-> IF i \in {} THEN 0 ELSE arrived[i]]
    BY <1>2, <1>7 DEF Flush
  <2>2. results' = Return(T, calls + 1) /\ pending' = Forget(T)
    BY <1>7 DEF Flush
  <2>3. stats'.dropped = stats.dropped
    BY <1>5, <1>7 DEF Flush
  <2>. HIDE DEF T
  <2>4. \A t \in BucketTimes :
          pending'[t] = (IF t \in T THEN {} ELSE pending[t])
                          \cup (IF t = 0 THEN {} ELSE {})
    BY <2>2 DEF Forget
  <2>5. 0 \in BucketTimes
    BY BucketAssumption
  <2>6. Conservation' /\ Unpushed'
    <3>1. ReportsAndHolds(T, 0, {})
      BY <2>1, <2>2, <2>3, <2>4 DEF ReportsAndHolds
    <3>. QED BY <1>1, <2>5, <3>1, ReportConserves
  <2>. QED BY <1>1, <2>6 DEF ConsInv
<1>8. ASSUME UNCHANGED vars
      PROVE  ConsInv'
  <2>1. Pushed' = Pushed /\ Lost' = Lost
    BY <1>8 DEF vars, Pushed, Lost, HeldIn, Reported
  <2>2. Conservation'
    BY <1>8, <2>1 DEF vars, ConsInv, Conservation, HeldIn
  <2>3. Unpushed'
    BY <1>8 DEF vars, ConsInv, Unpushed
  <2>. QED BY <1>1, <2>2, <2>3 DEF ConsInv
<1>. QED BY <1>3, <1>4, <1>6, <1>7, <1>8 DEF Next, Push

\* Whatever is pushed and whenever Flush is called, every point is held in its
\* bucket, or reported once and in its bucket, or counted as dropped.
THEOREM ConservationCorrect == Spec => []Conservation
<1>1. ConsInv => Conservation
  BY DEF ConsInv
<1>. QED BY ConsInit, ConsNext, <1>1, PTL DEF Spec

-----------------------------------------------------------------------------
(* The order of the results, for streams that are OrderSafe.               *)

LEMMA RunLengthMonotone ==
  ASSUME NEW f \in Int, NEW l \in Int, NEW n \in Int, l <= n, ~TooLong(f, n)
  PROVE  ~TooLong(f, l)
<1>1. Span \in Nat \ {0} /\ MaxGapFill \in Int
  BY SpanAssumption, GapAssumption
<1>2. l - f \in Int /\ n - f \in Int /\ l - f <= n - f
  OBVIOUS
<1>3. (l - f) \div Span <= (n - f) \div Span
  BY <1>1, <1>2
<1>4. (l - f) \div Span \in Int /\ (n - f) \div Span \in Int
  BY <1>1, <1>2
<1>. QED BY <1>1, <1>3, <1>4 DEF TooLong, RunLength

\* Two open buckets are the same one unless the grace period spans a bucket.
LEMMA OneOpen ==
  ASSUME TypeInv, OrderInv, Grace < Span, NEW s \in Open, NEW t \in Open, s <= t
  PROVE  s = t
<1>1. s \in Nat /\ t \in Nat /\ s \in BucketTimes /\ t \in BucketTimes
  BY BucketAssumption DEF Open
<1>2. watermark \in Nat /\ Grace \in Nat /\ Span \in Nat \ {0}
  BY BucketAssumption, GraceAssumption, SpanAssumption DEF TypeInv, TypeOK
<1>3. watermark - Grace <= s /\ t <= watermark
  BY DEF OrderInv
<1>4. t - s \in Nat /\ t - s < Span
  BY <1>1, <1>2, <1>3
<1>5. (t - s) % Span = t - s
  BY <1>2, <1>4
<1>6. (t - s) % Span = 0
  BY <1>1, BucketAssumption
<1>. QED BY <1>1, <1>5, <1>6

\* Under OrderSafe, closing leaves none of the buckets due behind.
LEMMA DueClosed ==
  ASSUME TypeInv, OrderInv, OrderSafe, NEW D \in SUBSET Open, NEW U, D # {},
         NEW a \in Int, NEW m \in Int, D \subseteq a..m, U \subseteq a..m,
         NEW bt \in BucketTimes, m <= bt
  PROVE  D \subseteq Closing(D, U)
<1>1. D \subseteq BucketTimes
  BY DEF Open
<1>2. CASE Grace < Span
  <2>1. \A s, t \in D : s \in Nat /\ t \in Nat
    BY <1>1, BucketAssumption
  <2>2. ASSUME NEW s \in D, NEW t \in D PROVE s = t
    <3>1. s <= t \/ t <= s
      BY <2>1
    <3>. QED BY <3>1, <1>2, OneOpen
  <2>. QED BY <1>1, <2>2, ClosingAll
<1>3. CASE GapFill /\ ~(Grace < Span)
  <2>1. Min(D) \in D /\ LastTime(D, U) \in a..m
    BY ClosingRange
  <2>2. /\ Min(D) \in BucketTimes /\ Min(D) \in Int /\ bt \in Int
        /\ LastTime(D, U) \in Int /\ LastTime(D, U) <= bt /\ Min(D) <= bt
    <3>1. \A x \in BucketTimes : x \in Int
      BY BucketAssumption
    <3>2. \A x \in a..m : x \in Int /\ x <= bt
      BY <3>1
    <3>3. Min(D) \in BucketTimes /\ Min(D) \in a..m
      BY <2>1, <1>1
    <3>. QED BY <2>1, <3>1, <3>2, <3>3
  <2>3. Grace >= Span
    BY <1>3, GraceAssumption, SpanAssumption
  <2>4. ~TooLong(Min(D), bt)
    BY <1>3, <2>2, <2>3 DEF OrderSafe
  <2>5. ~TooLong(Min(D), LastTime(D, U))
    BY <2>2, <2>4, RunLengthMonotone
  <2>. QED BY <1>1, <2>5, ClosingAll
<1>4. CASE ~GapFill
  BY <1>4 DEF Closing
<1>. QED BY <1>2, <1>3, <1>4

OrderAll == TypeInv /\ OrderInv /\ ReportedInOrder /\ ReopenedOnlyByFlush

\* What a call reports comes after what was reported before it, and is a
\* bucket reported before only where Flush had closed it.
LEMMA ReportOrder ==
  ASSUME OrderAll, TypeInv', NEW T, NEW D \in SUBSET Open,
         D = {} => T = {},
         D # {} => Min(D) \in D /\ \A t \in T : t \in Int /\ Min(D) <= t,
         results' = Return(T, calls + 1), flushedAt \subseteq flushedAt'
  PROVE  /\ ReportedInOrder' /\ ReopenedOnlyByFlush'
         /\ \A r \in results, t \in T : r.time <= t
         /\ \A r \in results' : r \in results \/ (r.time \in T /\ r.call = calls + 1)
<1>1. calls \in Int /\ \A r \in results : r.time \in Int /\ r.call \in Int /\ r.call <= calls
  BY DEF OrderAll, TypeInv, TypeOK, ResultType, OrderInv
<1>2. ASSUME NEW r \in results, NEW t \in T
      PROVE  r.time <= t /\ (r.time = t => t \in flushedAt)
  <2>1. D # {} /\ Min(D) \in Open /\ t \in Int /\ Min(D) <= t
    BY <1>2
  <2>2. r.time <= Min(D) /\ (r.time = Min(D) => Min(D) \in flushedAt)
    BY <2>1 DEF OrderAll, OrderInv
  <2>3. Min(D) \in Int
    <3>1. \A x \in Open : x \in Int
      BY BucketAssumption DEF Open
    <3>. QED BY <2>1, <3>1
  <2>. QED BY <1>1, <2>1, <2>2, <2>3
<1>3. \A r \in results' : r \in results \/
        \E t \in T : r = [time |-> t, pts |-> HeldIn(t), call |-> calls + 1]
  BY DEF Return
<1>4. \A r \in results' : r \in results \/ (r.time \in T /\ r.call = calls + 1)
  BY <1>3
<1>5. ASSUME NEW r \in results', NEW s \in results', r.call < s.call
      PROVE  r.time <= s.time
  <2>1. CASE r \in results /\ s \in results
    BY <1>5, <2>1 DEF OrderAll, ReportedInOrder
  <2>2. CASE r \in results /\ s \notin results
    BY <2>2, <1>2, <1>4
  <2>3. CASE r \notin results
    <3>1. r.call = calls + 1
      BY <2>3, <1>4
    <3>2. s.call = calls + 1 \/ (s.call \in Int /\ s.call <= calls)
      BY <1>1, <1>4
    <3>. QED BY <3>1, <3>2, <1>1, <1>5
  <2>. QED BY <2>1, <2>2, <2>3
<1>6. ASSUME NEW r \in results', NEW s \in results', r # s, r.time = s.time
      PROVE  r.time \in flushedAt'
  <2>1. CASE r \in results /\ s \in results
    BY <1>6, <2>1 DEF OrderAll, ReopenedOnlyByFlush
  <2>2. CASE r \in results /\ s \notin results
    BY <1>6, <2>2, <1>2, <1>4
  <2>3. CASE r \notin results /\ s \in results
    BY <1>6, <2>3, <1>2, <1>4
  <2>4. CASE r \notin results /\ s \notin results
    BY <1>6, <2>4, <1>3
  <2>. QED BY <2>1, <2>2, <2>3, <2>4
<1>7. ReportedInOrder' /\ ReopenedOnlyByFlush'
  BY <1>5, <1>6 DEF ReportedInOrder, ReopenedOnlyByFlush
<1>. QED BY <1>2, <1>4, <1>7

LEMMA OrderInit == Init => OrderAll
<1>. SUFFICES ASSUME Init PROVE OrderAll
  OBVIOUS
<1>1. TypeInv
  BY TypeInit
<1>2. OrderInv
  BY DEF Init, OrderInv, Open
<1>3. ReportedInOrder /\ ReopenedOnlyByFlush
  BY DEF Init, ReportedInOrder, ReopenedOnlyByFlush
<1>. QED BY <1>1, <1>2, <1>3 DEF OrderAll

LEMMA OrderNext == OrderSafe /\ OrderAll /\ [Next]_vars => OrderAll'
<1>. SUFFICES ASSUME OrderSafe, OrderAll, [Next]_vars PROVE OrderAll'
  OBVIOUS
<1>1. TypeInv /\ TypeInv' /\ OrderInv
  BY TypeNext DEF OrderAll
<1>2. /\ calls \in Int /\ watermark \in BucketTimes /\ hasMark \in BOOLEAN
      /\ pending \in [BucketTimes -> SUBSET (1..MaxCalls)]
      /\ \A r \in results : r.time \in Int /\ r.call \in Int
      /\ \A t \in BucketTimes : t \in Int
      /\ Grace \in Int /\ Grace >= 0
  BY <1>1, BucketAssumption, GraceAssumption DEF TypeInv, TypeOK, ResultType
<1>3. ASSUME NEW bt \in BucketTimes, DropLate(bt)
      PROVE  OrderAll'
  <2>1. /\ UNCHANGED <<pending, watermark, hasMark, results, flushedAt>>
        /\ calls' = calls + 1
    BY <1>3 DEF DropLate, Arrive
  <2>2. Open' = Open
    BY <2>1 DEF Open
  <2>3. OrderInv'
    BY <1>1, <1>2, <2>1, <2>2 DEF OrderInv
  <2>4. ReportedInOrder' /\ ReopenedOnlyByFlush'
    BY <2>1 DEF OrderAll, ReportedInOrder, ReopenedOnlyByFlush
  <2>. QED BY <1>1, <2>3, <2>4 DEF OrderAll
<1>4. ASSUME NEW bt \in BucketTimes, Join(bt)
      PROVE  OrderAll'
  <2>1. /\ UNCHANGED <<results, flushedAt>> /\ calls' = calls + 1
        /\ watermark' = Mark(bt) /\ hasMark' = TRUE
        /\ bt = Mark(bt) \/ bt \in Open
    BY <1>4 DEF Join, Arrive
  <2>2. \A t \in Open' : t \in BucketTimes /\ (t \in Open \/ t = bt)
    BY <1>2, <1>4 DEF Join, Open
  <2>3. CASE hasMark
    <3>1. watermark' = watermark
      BY <2>1, <2>3 DEF Mark
    <3>2. \A t \in Open' : t \in Open \/ t = watermark
      BY <2>1, <2>2, <2>3 DEF Mark
    <3>3. \A t \in Open' : watermark' - Grace <= t /\ t <= watermark'
      BY <1>1, <1>2, <3>1, <3>2 DEF OrderInv
    <3>4. \A r \in results', t \in Open' :
            r.time <= t /\ (r.time = t => t \in flushedAt')
      BY <1>1, <2>1, <3>2 DEF OrderInv
    <3>5. \A r \in results' : r.time <= watermark' /\ r.call <= calls'
      BY <1>1, <1>2, <2>1, <3>1 DEF OrderInv
    <3>. QED BY <1>1, <2>1, <3>1, <3>3, <3>4, <3>5 DEF OrderInv, OrderAll,
               ReportedInOrder, ReopenedOnlyByFlush
  <2>4. CASE ~hasMark
    <3>1. results' = {} /\ Open = {} /\ watermark' = bt
      BY <1>1, <2>1, <2>4 DEF OrderInv, Mark
    <3>2. \A t \in Open' : t = bt
      BY <2>2, <3>1
    <3>. QED BY <1>1, <1>2, <2>1, <3>1, <3>2 DEF OrderInv, OrderAll,
               ReportedInOrder, ReopenedOnlyByFlush
  <2>. QED BY <1>2, <2>3, <2>4
<1>5. ASSUME NEW bt \in BucketTimes, Advance(bt)
      PROVE  OrderAll'
  <2>. DEFINE D == {t \in Open : t < bt - Grace}
              U == {bt - Grace - Span}
              T == Closing(D, U)
  <2>1. /\ bt > Mark(bt) /\ watermark' = bt /\ hasMark' = hasMark
        /\ calls' = calls + 1 /\ flushedAt' = flushedAt
        /\ results' = Return(T, calls + 1)
    BY <1>5 DEF Advance, AdvanceWith, Arrive
  <2>2. pending' = [Forget(T) EXCEPT ![bt] = @ \cup {calls + 1}]
    BY <1>5 DEF Advance, AdvanceWith
  <2>3. hasMark /\ watermark < bt
    BY <1>2, <2>1 DEF Mark
  <2>4. PICK a \in Int, m \in Int :
          D \subseteq a..m /\ U \subseteq a..m /\ m = bt - Grace - 1
    BY AdvanceRange
  <2>5. D \in SUBSET Open /\ \A t \in Open : t \in D <=> t < bt - Grace
    OBVIOUS
  <2>. HIDE DEF D, U
  <2>6. m <= bt
    BY <1>2, <2>4
  <2>7. D = {} => T = {}
    BY ClosingNothing
  <2>8. D # {} => /\ Min(D) \in D
                  /\ \A t \in T : t \in Int /\ Min(D) <= t /\ t <= m
                  /\ D \subseteq T
    <3>. SUFFICES ASSUME D # {}
                  PROVE  /\ Min(D) \in D
                         /\ \A t \in T : t \in Int /\ Min(D) <= t /\ t <= m
                         /\ D \subseteq T
      OBVIOUS
    <3>1. D \subseteq T
      BY <1>1, <2>4, <2>5, <2>6, DueClosed
    <3>2. D \subseteq a..m /\ U \subseteq a..m
      BY <2>4
    <3>3. /\ Min(D) \in D
          /\ \A t \in Closing(D, U) : t \in Int /\ Min(D) <= t /\ t <= m
      BY <3>2, ClosingRange
    <3>. QED BY <3>1, <3>3
  <2>. HIDE DEF T
  <2>9. /\ ReportedInOrder' /\ ReopenedOnlyByFlush'
        /\ \A r \in results' : r \in results \/ (r.time \in T /\ r.call = calls + 1)
    BY <1>1, <2>1, <2>5, <2>7, <2>8, ReportOrder
  <2>10. \A t \in T : t \in Int /\ t < bt - Grace
    BY <1>2, <2>4, <2>7, <2>8
  <2>11. \A t \in Open' : t \in BucketTimes /\ (t = bt \/ (t \in Open /\ t >= bt - Grace))
    <3>1. \A t \in Open' : t \in BucketTimes /\ (t = bt \/ (t \in Open /\ t \notin T))
      BY <1>2, <2>2 DEF Open, Forget
    <3>2. \A t \in Open : t \notin T => t >= bt - Grace
      <4>1. \A t \in Open : t \in Int
        BY <1>2 DEF Open
      <4>. QED BY <1>2, <2>5, <2>8, <4>1
    <3>. QED BY <3>1, <3>2
  <2>12. \A r \in results' : r.time \in Int /\ r.time < bt /\ r.call <= calls'
    BY <1>1, <1>2, <2>1, <2>3, <2>9, <2>10 DEF OrderInv
  <2>13. \A t \in Open' : watermark' - Grace <= t /\ t <= watermark'
    BY <1>1, <1>2, <2>1, <2>3, <2>11 DEF OrderInv
  <2>14. ASSUME NEW r \in results', NEW t \in Open'
         PROVE  r.time <= t /\ (r.time = t => t \in flushedAt')
    <3>1. CASE t = bt
      BY <3>1, <1>2, <2>12
    <3>2. CASE t \in Open /\ t >= bt - Grace /\ r \in results
      BY <3>2, <1>1, <2>1 DEF OrderInv
    <3>3. CASE t \in Open /\ t >= bt - Grace /\ r.time \in T
      BY <3>3, <1>2, <2>10, <2>11
    <3>. QED BY <3>1, <3>2, <3>3, <2>9, <2>11
  <2>15. OrderInv'
    BY <1>2, <2>1, <2>3, <2>12, <2>13, <2>14 DEF OrderInv
  <2>. QED BY <1>1, <2>9, <2>15 DEF OrderAll
<1>6. ASSUME Flush
      PROVE  OrderAll'
  <2>. DEFINE T == Closing(Open, {})
  <2>1. /\ calls' = calls + 1 /\ results' = Return(T, calls + 1)
        /\ pending' = Forget(T) /\ UNCHANGED <<watermark, hasMark>>
        /\ flushedAt' = IF hasMark THEN flushedAt \cup {watermark} ELSE flushedAt
    BY <1>6 DEF Flush
  <2>2. Open \subseteq 0..watermark
    BY <1>1, OpenRange DEF TypeInv
  <2>3. Open = {} => T = {}
    BY ClosingNothing
  <2>4. Open # {} => /\ Min(Open) \in Open
                     /\ \A t \in T : t \in Int /\ Min(Open) <= t /\ t <= watermark
                     /\ Open \subseteq T
    <3>. SUFFICES ASSUME Open # {}
                  PROVE  /\ Min(Open) \in Open
                         /\ \A t \in T : t \in Int /\ Min(Open) <= t /\ t <= watermark
                         /\ Open \subseteq T
      OBVIOUS
    <3>n. PICK m \in Int : m = watermark
      BY <1>2
    <3>1. m \in Int /\ m \in BucketTimes /\ m <= m /\ 0 \in Int /\ Open \subseteq 0..m
      BY <1>2, <2>2, <3>n
    <3>2. Open \subseteq T
      BY <1>1, <3>1, DueClosed
    <3>3. /\ Min(Open) \in Open
          /\ \A t \in T : t \in Int /\ Min(Open) <= t /\ t <= m
      BY <3>1, ClosingRange
    <3>. QED BY <3>n, <3>2, <3>3
  <2>. HIDE DEF T
  <2>5. /\ ReportedInOrder' /\ ReopenedOnlyByFlush'
        /\ \A r \in results' : r \in results \/ (r.time \in T /\ r.call = calls + 1)
    BY <1>1, <2>1, <2>3, <2>4, ReportOrder
  <2>6. Open' = {}
    <3>1. \A t \in BucketTimes : t \in Open' => t \in Open /\ t \notin T
      BY <2>1 DEF Open, Forget
    <3>. QED BY <3>1, <2>4 DEF Open
  <2>7. ~hasMark => results' = {}
    <3>1. ~hasMark => results = {} /\ T = {}
      BY <1>1, <2>3 DEF OrderInv
    <3>. QED BY <3>1, <2>1 DEF Return
  <2>8. \A r \in results' : r.time \in Int /\ r.time <= watermark /\ r.call <= calls'
    BY <1>1, <1>2, <2>1, <2>3, <2>4, <2>5 DEF OrderInv
  <2>9. \A r \in results' : r.time = watermark => watermark \in flushedAt'
    BY <1>2, <2>1, <2>7
  <2>10. OrderInv'
    BY <2>1, <2>6, <2>7, <2>8, <2>9 DEF OrderInv
  <2>. QED BY <1>1, <2>5, <2>10 DEF OrderAll
<1>7. ASSUME UNCHANGED vars
      PROVE  OrderAll'
  BY <1>1, <1>7 DEF vars, OrderAll, OrderInv, Open, ReportedInOrder, ReopenedOnlyByFlush
<1>. QED BY <1>3, <1>4, <1>5, <1>6, <1>7 DEF Next, Push

\* The watermark, the open buckets and the reported ones stand in the relation
\* that makes late points droppable, in every reachable state.
THEOREM WindowCorrect == OrderSafe /\ Spec => []OrderInv
<1>. SUFFICES ASSUME OrderSafe PROVE Spec => []OrderInv
  OBVIOUS
<1>1. OrderAll /\ [Next]_vars => OrderAll'
  BY OrderNext
<1>2. OrderAll => OrderInv
  BY DEF OrderAll
<1>. QED BY OrderInit, <1>1, <1>2, PTL DEF Spec

\* Results come back in bucket order across calls of Push and Flush.
THEOREM OrderCorrect == OrderSafe /\ Spec => []ReportedInOrder
<1>. SUFFICES ASSUME OrderSafe PROVE Spec => []ReportedInOrder
  OBVIOUS
<1>1. OrderAll /\ [Next]_vars => OrderAll'
  BY OrderNext
<1>2. OrderAll => ReportedInOrder
  BY DEF OrderAll
<1>. QED BY OrderInit, <1>1, <1>2, PTL DEF Spec

\* No push reopens a bucket that was reported: only Flush can have a bucket
\* reported twice, the one that was the watermark's.
THEOREM ReopenCorrect == OrderSafe /\ Spec => []ReopenedOnlyByFlush
<1>. SUFFICES ASSUME OrderSafe PROVE Spec => []ReopenedOnlyByFlush
  OBVIOUS
<1>1. OrderAll /\ [Next]_vars => OrderAll'
  BY OrderNext
<1>2. OrderAll => ReopenedOnlyByFlush
  BY DEF OrderAll
<1>. QED BY OrderInit, <1>1, <1>2, PTL DEF Spec

-----------------------------------------------------------------------------
(* The stream implements the ledger.                                       *)

LedgerInv == OrderAll /\ ConsInv

\* The points the ledger knows are those pushed so far.
LEMMA KnownPushed ==
  ASSUME ConsInv
  PROVE  /\ HeldPoints \subseteq Pushed /\ ReportedPoints \subseteq Pushed
         /\ Lost \subseteq Pushed /\ Pushed \subseteq 1..calls
         /\ calls + 1 \notin HeldPoints \cup ReportedPoints \cup Lost
<1>1. HeldPoints \subseteq Pushed
  BY DEF ConsInv, Conservation, HeldPoints
<1>2. ReportedPoints \subseteq Pushed
  BY DEF ConsInv, Conservation, ReportedPoints
<1>3. Lost \subseteq Pushed
  BY DEF Lost
<1>4. Pushed \subseteq 1..calls
  BY DEF Pushed
<1>5. calls + 1 \notin 1..calls
  BY DEF ConsInv, TypeInv, TypeOK
<1>. QED BY <1>1, <1>2, <1>3, <1>4, <1>5

\* Closing the buckets T moves exactly their points from held to reported.
LEMMA ReportMoves ==
  ASSUME ConsInv, NEW T, NEW bt \in BucketTimes, NEW N,
         ReportsAndHolds(T, bt, N)
  PROVE  /\ \A i : i \in HeldPoints' <=>
                   (i \in HeldPoints /\ arrived[i] \notin T) \/ i \in N
         /\ \A i : i \in ReportedPoints' <=>
                   i \in ReportedPoints \/ (i \in HeldPoints /\ arrived[i] \in T)
<1>. USE DEF ReportsAndHolds
<1>1. \A i : i \in HeldPoints => arrived[i] \in BucketTimes /\ i \in pending[arrived[i]]
  BY DEF HeldPoints, ConsInv, Conservation
<1>2. \A t \in BucketTimes : \A i \in pending[t] : i \in HeldPoints /\ arrived[i] = t
  BY DEF HeldPoints, ConsInv, Conservation
<1>3. ASSUME NEW i
      PROVE  i \in HeldPoints' <=> (i \in HeldPoints /\ arrived[i] \notin T) \/ i \in N
  <2>1. i \in HeldPoints' <=> \E t \in BucketTimes : i \in pending'[t]
    BY DEF HeldPoints
  <2>2. i \in HeldPoints /\ arrived[i] \notin T => i \in HeldPoints'
    BY <1>1, <2>1
  <2>3. i \in N => i \in HeldPoints'
    BY <2>1
  <2>4. i \in HeldPoints' => (i \in HeldPoints /\ arrived[i] \notin T) \/ i \in N
    BY <1>2, <2>1
  <2>. QED BY <2>2, <2>3, <2>4
<1>4. ASSUME NEW i
      PROVE  i \in ReportedPoints' <=>
               i \in ReportedPoints \/ (i \in HeldPoints /\ arrived[i] \in T)
  <2>1. i \in ReportedPoints' <=>
          i \in ReportedPoints \/ \E t \in T : i \in HeldIn(t)
    <3>1. i \in ReportedPoints' <=> \E r \in results' : i \in r.pts
      BY DEF ReportedPoints
    <3>2. i \in ReportedPoints <=> \E r \in results : i \in r.pts
      BY DEF ReportedPoints
    <3>3. (\E r \in results' : i \in r.pts) <=>
            (\E r \in results : i \in r.pts) \/ \E t \in T : i \in HeldIn(t)
      <4>1. ASSUME NEW t \in T, i \in HeldIn(t)
            PROVE  \E r \in results' : i \in r.pts
        <5>. DEFINE r == [time |-> t, pts |-> HeldIn(t), call |-> calls + 1]
        <5>1. r \in results' /\ i \in r.pts
          BY <4>1 DEF Return
        <5>. QED BY <5>1
      <4>. QED BY <4>1 DEF Return
    <3>. QED BY <3>1, <3>2, <3>3
  <2>2. (\E t \in T : i \in HeldIn(t)) <=> i \in HeldPoints /\ arrived[i] \in T
    BY <1>1, <1>2 DEF HeldIn
  <2>. QED BY <2>1, <2>2
<1>. QED BY <1>3, <1>4

LEMMA LedgerInit == Init => Ledger!Init
<1>. SUFFICES ASSUME Init PROVE Ledger!Init
  OBVIOUS
<1>1. arrived \in [1..MaxCalls -> {-1}]
  BY DEF Init, NoPoint
<1>2. HeldPoints = {} /\ ReportedPoints = {}
  BY DEF Init, HeldPoints, ReportedPoints
<1>3. Lost = {}
  BY BoundAssumption DEF Init, Lost, Pushed
<1>. QED BY <1>1, <1>2, <1>3 DEF Ledger!Init

\* A push that is not refused takes its point in.
LEMMA LedgerTake ==
  ASSUME LedgerInv, OrderAll', TypeInv', NEW bt \in BucketTimes, NEW T,
         NEW n, n = calls + 1, ReportsAndHolds(T, bt, {n}),
         \A s \in Open \cap T, t \in Open \ T : s < t
  PROVE  n \in 1..MaxCalls /\ Ledger!Take(n, bt)
<1>. DEFINE R == {i \in HeldPoints : arrived[i] \in T}
<1>1. ConsInv /\ arrived \in [1..MaxCalls -> BucketTimes \cup {NoPoint}]
  BY DEF LedgerInv, ConsInv, TypeInv, TypeOK
<1>2. /\ HeldPoints' = (HeldPoints \ R) \cup {n}
      /\ ReportedPoints' = ReportedPoints \cup R
  <2>1. /\ \A i : i \in HeldPoints' <=>
                  (i \in HeldPoints /\ arrived[i] \notin T) \/ i \in {n}
        /\ \A i : i \in ReportedPoints' <=>
                  i \in ReportedPoints \/ (i \in HeldPoints /\ arrived[i] \in T)
    <3>. HIDE DEF R
    <3>. QED BY <1>1, ReportMoves
  <2>. QED BY <2>1
<1>n. /\ n \in 1..MaxCalls /\ arrived' = [arrived EXCEPT ![n] = bt]
      /\ results' = Return(T, calls + 1)
  <2>1. calls \in Nat /\ MaxCalls \in Nat
    BY <1>1, BoundAssumption DEF ConsInv, TypeInv, TypeOK
  <2>2. calls < MaxCalls /\ results' = Return(T, calls + 1)
    BY DEF ReportsAndHolds
  <2>3. n \in 1..MaxCalls
    BY <2>1, <2>2
  <2>4. arrived' = [i \in 1..MaxCalls |-> IF i \in {n} THEN bt ELSE arrived[i]]
    BY DEF ReportsAndHolds
  <2>5. arrived' = [arrived EXCEPT ![n] = bt]
    BY <1>1, <2>4
  <2>. QED BY <2>2, <2>3, <2>5
<1>o. bt \in Open'
  BY DEF ReportsAndHolds, Open
<1>l. Lost' = Lost
  BY <1>1, ReportConserves
<1>3. n \notin HeldPoints \cup ReportedPoints \cup Lost
  BY <1>1, KnownPushed
<1>4. \A i \in HeldPoints : arrived[i] \in Open
  BY <1>1 DEF HeldPoints, Open, ConsInv, Conservation
<1>5. \A j \in R, k \in HeldPoints \ R : arrived[j] < arrived[k]
  BY <1>4
<1>6. \A j \in ReportedPoints' : arrived'[j] <= bt /\ arrived'[j] = arrived[j]
  <2>. SUFFICES ASSUME NEW j \in ReportedPoints'
                PROVE  arrived'[j] <= bt /\ arrived'[j] = arrived[j]
    OBVIOUS
  <2>1. j \in Pushed /\ j \in 1..calls
    BY <1>1, <1>2, KnownPushed
  <2>2. j \in 1..MaxCalls /\ j # n
    <3>1. calls \in Nat /\ MaxCalls \in Nat /\ calls <= MaxCalls
      BY <1>1, BoundAssumption DEF ConsInv, TypeInv, TypeOK
    <3>. QED BY <2>1, <3>1
  <2>3. arrived'[j] = arrived[j]
    BY <1>1, <1>n, <2>2
  <2>4. CASE j \in ReportedPoints
    <3>1. PICK r \in results : j \in r.pts
      BY <2>4 DEF ReportedPoints
    <3>2. r.time = arrived[j] /\ r \in results'
      BY <1>1, <1>n, <3>1 DEF ConsInv, Conservation, Return
    <3>3. r.time <= bt
      BY <1>o, <3>2 DEF OrderAll, OrderInv
    <3>. QED BY <2>3, <3>2, <3>3
  <2>5. CASE j \in R
    <3>1. arrived[j] \in T /\ j \in HeldIn(arrived[j])
      BY <2>5, <1>1 DEF HeldPoints, HeldIn, ConsInv, Conservation
    <3>. DEFINE r == [time |-> arrived[j], pts |-> HeldIn(arrived[j]), call |-> calls + 1]
    <3>2. r \in results' /\ r.time = arrived[j]
      BY <1>n, <3>1 DEF Return
    <3>3. r.time <= bt
      BY <1>o, <3>2 DEF OrderAll, OrderInv
    <3>. QED BY <2>3, <3>2, <3>3
  <2>. QED BY <1>2, <2>4, <2>5
<1>7. R \in SUBSET HeldPoints
  OBVIOUS
<1>. HIDE DEF R
<1>8. \A j \in ReportedPoints' : arrived'[j] <= bt
  BY <1>6
<1>. QED BY <1>2, <1>3, <1>5, <1>7, <1>8, <1>n, <1>l
         DEF Ledger!Take, Ledger!Known, Ledger!Oldest

LEMMA LedgerNext ==
  OrderSafe /\ LedgerInv /\ [Next]_vars => [Ledger!Next]_(Ledger!vars)
<1>. SUFFICES ASSUME OrderSafe, LedgerInv, [Next]_vars
              PROVE  [Ledger!Next]_(Ledger!vars)
  OBVIOUS
<1>1. /\ ConsInv /\ OrderAll /\ OrderAll' /\ TypeInv /\ TypeInv' /\ OrderInv
  BY OrderNext DEF LedgerInv, OrderAll
<1>2. /\ calls \in Nat /\ MaxCalls \in Nat /\ watermark \in BucketTimes
      /\ arrived \in [1..MaxCalls -> BucketTimes \cup {NoPoint}]
      /\ pending \in [BucketTimes -> SUBSET (1..MaxCalls)]
      /\ \A t \in BucketTimes : t \in Int
      /\ stats \in StatsType
  BY <1>1, BoundAssumption, BucketAssumption DEF TypeInv, TypeOK
<1>n. PICK n : n = calls + 1
  OBVIOUS
<1>3. ASSUME calls < MaxCalls PROVE n \in 1..MaxCalls
  BY <1>2, <1>3, <1>n
<1>4. n \notin HeldPoints \cup ReportedPoints \cup Lost
  BY <1>1, <1>n, KnownPushed
<1>5. ASSUME NEW bt \in BucketTimes, DropLate(bt)
      PROVE  Ledger!Next
  <2>1. n \in 1..MaxCalls
    BY <1>3, <1>5 DEF DropLate, Arrive
  <2>2. Lost' = Lost \cup {n}
    BY <1>1, <1>5, <1>n, DropConserves
  <2>3. HeldPoints' = HeldPoints /\ ReportedPoints' = ReportedPoints
    BY <1>5 DEF DropLate, HeldPoints, ReportedPoints
  <2>4. arrived' = [arrived EXCEPT ![n] = bt]
    BY <1>5, <1>n DEF DropLate, Arrive
  <2>5. Ledger!Refuse(n, bt)
    BY <1>4, <2>2, <2>3, <2>4 DEF Ledger!Refuse, Ledger!Known
  <2>. QED BY <2>1, <2>5 DEF Ledger!Next
<1>6. ASSUME NEW bt \in BucketTimes, NEW T, Arrive(bt),
             stats'.dropped = stats.dropped,
             \A t \in BucketTimes :
               pending'[t] = (IF t \in T THEN {} ELSE pending[t])
                               \cup (IF t = bt THEN {n} ELSE {}),
             results' = Return(T, calls + 1),
             \A s \in Open \cap T, t \in Open \ T : s < t
      PROVE  Ledger!Next
  <2>1. /\ calls < MaxCalls /\ calls' = calls + 1 /\ {n} \in SUBSET {calls + 1}
        /\ arrived' = [i \in 1..MaxCalls |-> IF i \in {n} THEN bt ELSE arrived[i]]
    BY <1>2, <1>6, <1>n DEF Arrive
  <2>2. ReportsAndHolds(T, bt, {n})
    BY <1>6, <2>1 DEF ReportsAndHolds
  <2>3. n \in 1..MaxCalls /\ Ledger!Take(n, bt)
    BY <1>1, <1>6, <1>n, <2>2, LedgerTake
  <2>. QED BY <2>3 DEF Ledger!Next
<1>7. ASSUME NEW bt \in BucketTimes, Join(bt)
      PROVE  Ledger!Next
  <2>1. Arrive(bt) /\ stats'.dropped = stats.dropped
    BY <1>2, <1>7 DEF Join, StatsType
  <2>2. \A t \in BucketTimes :
          pending'[t] = (IF t \in {} THEN {} ELSE pending[t])
                          \cup (IF t = bt THEN {n} ELSE {})
    BY <1>2, <1>7, <1>n DEF Join
  <2>3. results' = Return({}, calls + 1)
    BY <1>7 DEF Join, Return
  <2>. QED BY <1>6, <2>1, <2>2, <2>3
<1>8. \A D, U : CloseStats(D, U).dropped = stats.dropped
  BY <1>2 DEF CloseStats, StatsType
<1>9. ASSUME NEW bt \in BucketTimes, Advance(bt)
      PROVE  Ledger!Next
  <2>. DEFINE D == {t \in Open : t < bt - Grace}
              U == {bt - Grace - Span}
              T == Closing(D, U)
  <2>1. Arrive(bt) /\ stats'.dropped = stats.dropped
    BY <1>8, <1>9 DEF Advance, AdvanceWith
  <2>2. results' = Return(T, calls + 1)
    BY <1>9 DEF Advance, AdvanceWith
  <2>3. pending' = [Forget(T) EXCEPT ![bt] = @ \cup {n}]
    BY <1>9, <1>n DEF Advance, AdvanceWith
  <2>4. PICK a \in Int, m \in Int :
          D \subseteq a..m /\ U \subseteq a..m /\ m = bt - Grace - 1
    BY AdvanceRange
  <2>5. D \in SUBSET Open /\ \A t \in Open : t \in D <=> t < bt - Grace
    OBVIOUS
  <2>. HIDE DEF D, U
  <2>6. D \subseteq T
    <3>1. m <= bt /\ D \subseteq a..m /\ U \subseteq a..m
      BY <1>2, <2>4, GraceAssumption
    <3>2. D # {} => D \subseteq T
      BY <1>1, <2>5, <3>1, DueClosed
    <3>. QED BY <3>2
  <2>7. \A t \in T : t < bt - Grace /\ t \in Int
    <3>1. D \subseteq a..m /\ U \subseteq a..m
      BY <2>4
    <3>2. D # {} => \A t \in T : t \in Int /\ t <= m
      BY <3>1, ClosingRange
    <3>3. D = {} => T = {}
      BY ClosingNothing
    <3>. HIDE DEF T
    <3>. QED BY <1>2, <2>4, <3>2, <3>3, GraceAssumption
  <2>. HIDE DEF T
  <2>8. \A t \in BucketTimes :
          pending'[t] = (IF t \in T THEN {} ELSE pending[t])
                          \cup (IF t = bt THEN {n} ELSE {})
    BY <2>3 DEF Forget
  <2>9. \A s \in Open \cap T, t \in Open \ T : s < t
    <3>1. \A t \in Open : t \in Int
      BY <1>2 DEF Open
    <3>. QED BY <1>2, <2>5, <2>6, <2>7, <3>1, GraceAssumption
  <2>. QED BY <1>6, <2>1, <2>2, <2>8, <2>9
<1>10. ASSUME Flush
       PROVE  Ledger!Next
  <2>. DEFINE T == Closing(Open, {})
  <2>1. /\ calls < MaxCalls /\ calls' = calls + 1 /\ results' = Return(T, calls + 1)
        /\ pending' = Forget(T) /\ arrived' = arrived
        /\ stats'.dropped = stats.dropped
    BY <1>8, <1>10 DEF Flush
  <2>2. Open \subseteq T
    <3>m. PICK m \in Int : m = watermark
      BY <1>2
    <3>1. m \in BucketTimes /\ m <= m /\ 0 \in Int /\ Open \subseteq 0..m
      BY <1>1, <1>2, <3>m, OpenRange DEF TypeInv
    <3>2. Open # {} => Open \subseteq T
      BY <1>1, <3>1, DueClosed
    <3>. QED BY <3>2
  <2>. HIDE DEF T
  <2>3. /\ arrived' = [i \in 1..MaxCalls |-> IF i \in {} THEN 0 ELSE arrived[i]]
        /\ 0 \in BucketTimes
    BY <1>2, <2>1, BucketAssumption
  <2>4. \A t \in BucketTimes :
          pending'[t] = (IF t \in T THEN {} ELSE pending[t])
                          \cup (IF t = 0 THEN {} ELSE {})
    BY <2>1 DEF Forget
  <2>r. ReportsAndHolds(T, 0, {})
    BY <2>1, <2>3, <2>4 DEF ReportsAndHolds
  <2>5. Lost' = Lost
    BY <1>1, <2>3, <2>r, ReportConserves
  <2>6. /\ \A i : i \in HeldPoints' <=>
                  (i \in HeldPoints /\ arrived[i] \notin T) \/ i \in {}
        /\ \A i : i \in ReportedPoints' <=>
                  i \in ReportedPoints \/ (i \in HeldPoints /\ arrived[i] \in T)
    BY <1>1, <2>3, <2>r, ReportMoves
  <2>7. \A i \in HeldPoints : arrived[i] \in T
    BY <1>1, <2>2 DEF HeldPoints, Open, ConsInv, Conservation
  <2>8. HeldPoints' = {} /\ ReportedPoints' = ReportedPoints \cup HeldPoints
    BY <2>6, <2>7
  <2>. QED BY <2>1, <2>5, <2>8 DEF Ledger!Next, Ledger!ReportAll
<1>11. ASSUME UNCHANGED vars
       PROVE  UNCHANGED Ledger!vars
  BY <1>11 DEF vars, Ledger!vars, HeldPoints, ReportedPoints, Lost, Pushed,
               HeldIn, Reported
<1>. QED BY <1>5, <1>7, <1>9, <1>10, <1>11 DEF Next, Push

\* Push and Flush implement the ledger: a point is refused or taken in on
\* arrival, whole buckets are reported oldest first, and no point older than a
\* reported one is taken in.
THEOREM LedgerCorrect == OrderSafe /\ Spec => LedgerSpec
<1>. SUFFICES ASSUME OrderSafe PROVE Spec => LedgerSpec
  OBVIOUS
<1>1. Init => LedgerInv
  BY OrderInit, ConsInit DEF LedgerInv
<1>2. LedgerInv /\ [Next]_vars => LedgerInv'
  BY OrderNext, ConsNext DEF LedgerInv
<1>3. LedgerInv /\ [Next]_vars => [Ledger!Next]_(Ledger!vars)
  BY LedgerNext
<1>. QED BY <1>1, <1>2, <1>3, LedgerInit, PTL DEF Spec, LedgerSpec, Ledger!Spec

-----------------------------------------------------------------------------
(* Silent buckets, for streams that wait for no late point.                *)

\* Multiples of the span: the next one, and the room between two of them.
LEMMA MultipleIs ==
  ASSUME NEW x \in Int, x % Span = 0
  PROVE  \E k \in Int : x = Span * k
<1>1. Span \in Nat \ {0}
  BY SpanAssumption
<1>2. x \div Span \in Int /\ x = Span * (x \div Span)
  BY <1>1
<1>. QED BY <1>2, Zenon

LEMMA MultipleOf ==
  ASSUME NEW k \in Int
  PROVE  (Span * k) % Span = 0
<1>1. Span \in Nat \ {0}
  BY SpanAssumption
<1>. QED BY <1>1

LEMMA NextMultiple ==
  ASSUME NEW x \in Int, x % Span = 0
  PROVE  /\ (x + Span) % Span = 0 /\ (x - Span) % Span = 0
         /\ x > 0 => x >= Span
<1>1. Span \in Nat \ {0}
  BY SpanAssumption
<1>2. PICK k \in Int : x = Span * k
  BY MultipleIs
<1>3. x + Span = Span * (k + 1) /\ x - Span = Span * (k - 1)
  BY <1>1, <1>2
<1>4. (x + Span) % Span = 0 /\ (x - Span) % Span = 0
  <2>1. k + 1 \in Int /\ k - 1 \in Int
    OBVIOUS
  <2>2. (Span * (k + 1)) % Span = 0 /\ (Span * (k - 1)) % Span = 0
    BY <2>1, MultipleOf
  <2>. QED BY <1>3, <2>2, Zenon
<1>5. ASSUME x > 0
      PROVE  x >= Span
  <2>1. k >= 1
    BY <1>1, <1>2, <1>5
  <2>. QED BY <1>1, <1>2, <2>1
<1>. QED BY <1>4, <1>5

\* After a bucket of a run comes the next one, unless it is the last.
LEMMA StepsContinue ==
  ASSUME NEW f \in Int, NEW l \in Int, (l - f) % Span = 0, NEW t \in Steps(f, l)
  PROVE  t = l \/ (t + Span \in Steps(f, l) /\ t + Span <= l)
<1>1. t \in Int /\ f <= t /\ t <= l /\ (t - f) % Span = 0 /\ Span \in Nat \ {0}
  BY SpanAssumption DEF Steps
<1>2. (t + Span - f) % Span = 0
  <2>0. t - f \in Int /\ t - f + Span = t + Span - f
    BY <1>1
  <2>1. ((t - f) + Span) % Span = 0 /\ (t - f) + Span = t + Span - f
    BY <1>1, <2>0, NextMultiple
  <2>. QED BY <2>1
<1>3. (l - t) % Span = 0
  <2>1. t - f \in Int /\ l - f \in Int
    BY <1>1
  <2>2. PICK j \in Int : t - f = Span * j
    BY <1>1, <2>1, MultipleIs
  <2>3. PICK k \in Int : l - f = Span * k
    BY <1>1, <2>1, MultipleIs
  <2>4. l - t = Span * (k - j) /\ k - j \in Int
    BY <1>1, <2>2, <2>3
  <2>. QED BY <2>4, MultipleOf
<1>4. l - t > 0 => l - t >= Span
  BY <1>1, <1>3, NextMultiple
<1>. QED BY <1>1, <1>2, <1>4 DEF Steps

\* What makes NoSilentHole inductive.  After a reported bucket the next one has
\* been reported, or Flush emptied the engine there, or the next one is the
\* watermark's and open; an engine that holds nothing has been flushed; and
\* nothing reported lies less than a span behind the watermark.
GapInv ==
  GapFill /\ stats.skipped = 0 =>
    /\ \A r \in results :
         \/ \E s \in results : s.time = r.time + Span
         \/ r.time \in flushedAt
         \/ r.time + Span = watermark /\ watermark \in Open
    /\ hasMark /\ watermark \notin Open =>
         watermark \in flushedAt /\ \E s \in results : s.time = watermark
    /\ \A r \in results : r.time = watermark \/ r.time + Span <= watermark

\* The empty results are as many as GapsFilled says.
Empties == {r \in results : r.pts = {}}

TallyInv ==
  stats.skipped = 0 => IsFiniteSet(Empties) /\ Cardinality(Empties) = stats.filled

HoleInv == OrderAll /\ GapInv /\ TallyInv

LEMMA HoleInit == Init => HoleInv
<1>. SUFFICES ASSUME Init PROVE HoleInv
  OBVIOUS
<1>1. GapInv
  BY DEF Init, GapInv
<1>2. Empties = {} /\ stats.filled = 0
  BY DEF Init, Empties
<1>3. TallyInv
  BY <1>2, FS_EmptySet DEF TallyInv
<1>. QED BY <1>1, <1>3, OrderInit DEF HoleInv

\* Without a grace period the one open bucket is the watermark's.
LEMMA OnlyMarkOpen ==
  ASSUME OrderAll, Grace = 0, NEW t \in Open
  PROVE  t = watermark
<1>1. watermark \in Nat /\ t \in Nat
  BY BucketAssumption DEF OrderAll, TypeInv, TypeOK, Open
<1>2. watermark - Grace <= t /\ t <= watermark
  BY DEF OrderAll, OrderInv
<1>. QED BY <1>1, <1>2

\* A call that closes the buckets T adds as many empty results as T has buckets
\* without points.
LEMMA EmptiesGrow ==
  ASSUME OrderAll, NEW T, IsFiniteSet({t \in T : HeldIn(t) = {}}),
         results' = Return(T, calls + 1), IsFiniteSet(Empties)
  PROVE  /\ IsFiniteSet(Empties')
         /\ Cardinality(Empties') =
              Cardinality(Empties) + Cardinality({t \in T : HeldIn(t) = {}})
<1>. DEFINE E == {t \in T : HeldIn(t) = {}}
            r(t) == [time |-> t, pts |-> {}, call |-> calls + 1]
            R == {r(t) : t \in E}
            f == [t \in E |-> r(t)]
<1>1. Empties' = Empties \cup R
  BY DEF Empties, Return
<1>2. Empties \cap R = {}
  <2>1. \A s \in results : s.call <= calls
    BY DEF OrderAll, OrderInv
  <2>2. calls \in Nat
    BY BoundAssumption DEF OrderAll, TypeInv, TypeOK
  <2>. QED BY <2>1, <2>2 DEF Empties
<1>3. ExistsBijection(E, R)
  <2>1. f \in Bijection(E, R)
    <3>1. f \in [E -> R]
      OBVIOUS
    <3>2. \A s, t \in E : f[s] = f[t] => s = t
      OBVIOUS
    <3>3. \A x \in R : \E t \in E : f[t] = x
      OBVIOUS
    <3>. HIDE DEF E, R, f
    <3>. QED BY <3>1, <3>2, <3>3 DEF Bijection, Injection, Surjection, IsInjective
  <2>. QED BY <2>1 DEF ExistsBijection
<1>4. IsFiniteSet(R) /\ Cardinality(R) = Cardinality(E)
  <2>. HIDE DEF R, E
  <2>1. IsFiniteSet(E)
    BY DEF E
  <2>. QED BY <1>3, <2>1, FS_Bijection
<1>. HIDE DEF R, E
<1>5. /\ IsFiniteSet(Empties \cup R)
      /\ Cardinality(Empties \cup R) =
           Cardinality(Empties) + Cardinality(R) - Cardinality(Empties \cap R)
  BY <1>4, FS_Union
<1>6. Cardinality(Empties \cap R) = 0 /\ Cardinality(Empties) \in Nat /\ Cardinality(R) \in Nat
  BY <1>2, <1>4, FS_EmptySet, FS_CardinalityType
<1>. QED BY <1>1, <1>4, <1>5, <1>6 DEF E

\* A call that closes what is due, if anything is: its counters tell the empty
\* buckets among those it closes, unless the run was too long.
LEMMA TallyNext ==
  ASSUME OrderAll, OrderAll', TallyInv, MaxGapFill > 1, NEW D \in SUBSET Open, NEW U,
         NEW a \in Int, NEW m \in Int, D \subseteq a..m, U \subseteq a..m,
         results' = Return(Closing(D, U), calls + 1), stats' = CloseStats(D, U)
  PROVE  /\ TallyInv'
         /\ stats'.skipped = 0 =>
              /\ stats.skipped = 0
              /\ D # {} /\ GapFill => ~TooLong(Min(D), LastTime(D, U))
<1>. DEFINE T == Closing(D, U)
            E == {t \in T : HeldIn(t) = {}}
<1>1. stats \in StatsType /\ stats' \in StatsType
  BY DEF OrderAll, TypeInv, TypeOK
<1>2. \A t \in D : HeldIn(t) # {} /\ t \in Open
  BY DEF HeldIn, Open
<1>3. CASE D = {} \/ ~GapFill
  <2>1. stats' = stats /\ E = {}
    BY <1>2, <1>3 DEF CloseStats, Closing
  <2>2. TallyInv'
    <3>. SUFFICES ASSUME stats.skipped = 0
                  PROVE  IsFiniteSet(Empties') /\ Cardinality(Empties') = stats.filled
      BY <2>1 DEF TallyInv
    <3>1. IsFiniteSet(Empties) /\ Cardinality(Empties) = stats.filled
      BY DEF TallyInv
    <3>2. IsFiniteSet({}) /\ Cardinality({}) = 0
      BY FS_EmptySet
    <3>3. /\ IsFiniteSet(Empties')
          /\ Cardinality(Empties') = Cardinality(Empties) + Cardinality(E)
      <4>. HIDE DEF T
      <4>1. results' = Return(T, calls + 1)
        BY DEF T
      <4>2. IsFiniteSet({t \in T : HeldIn(t) = {}})
        BY <2>1, <3>2
      <4>. QED BY <3>1, <4>1, <4>2, EmptiesGrow
    <3>4. stats.filled \in Nat
      BY <1>1 DEF StatsType
    <3>. QED BY <2>1, <3>1, <3>2, <3>3, <3>4
  <2>. QED BY <1>3, <2>1, <2>2
<1>4. CASE D # {} /\ GapFill
  <2>. DEFINE first == Min(D)
              last  == LastTime(D, U)
  <2>1. first \in Int /\ last \in Int
    <3>1. Min(D) \in D /\ LastTime(D, U) \in a..m
      BY <1>4, ClosingRange
    <3>2. \A t \in a..m : t \in Int
      OBVIOUS
    <3>. QED BY <3>1, <3>2
  <2>2. CASE TooLong(first, last)
    <3>1. stats'.skipped = stats.skipped + RunLength(first, last) - 2
      BY <1>1, <1>4, <2>2 DEF CloseStats, StatsType
    <3>2. RunLength(first, last) \in Int /\ RunLength(first, last) > 2
      <4>1. RunLength(first, last) \in Int
        BY <2>1, SpanAssumption DEF RunLength
      <4>. QED BY <2>2, <4>1, GapAssumption DEF TooLong
    <3>3. stats'.skipped # 0
      <4>1. stats.skipped \in Nat
        BY <1>1 DEF StatsType
      <4>. QED BY <3>1, <3>2, <4>1
    <3>. QED BY <3>3 DEF TallyInv
  <2>3. CASE ~TooLong(first, last)
    <3>1. T = Steps(first, last)
      BY <1>4, <2>3 DEF Closing, FillGaps
    <3>2. /\ stats'.skipped = stats.skipped
          /\ stats'.filled = stats.filled + Cardinality(Steps(first, last) \ Open)
      BY <1>1, <1>4, <2>3 DEF CloseStats, StatsType
    <3>3. E = Steps(first, last) \ Open
      BY <3>1 DEF HeldIn, Open
    <3>4. IsFiniteSet(E)
      <4>1. IsFiniteSet(first..last)
        BY <2>1, FS_Interval
      <4>2. E \subseteq first..last
        BY <3>3 DEF Steps
      <4>. QED BY <4>1, <4>2, FS_Subset
    <3>5. TallyInv'
      <4>. SUFFICES ASSUME stats.skipped = 0
                    PROVE  IsFiniteSet(Empties') /\ Cardinality(Empties') = stats'.filled
        BY <3>2 DEF TallyInv
      <4>1. IsFiniteSet(Empties) /\ Cardinality(Empties) = stats.filled
        BY DEF TallyInv
      <4>2. /\ IsFiniteSet(Empties')
            /\ Cardinality(Empties') = Cardinality(Empties) + Cardinality(E)
        <5>1. results' = Return(T, calls + 1) /\ IsFiniteSet({t \in T : HeldIn(t) = {}})
          BY <3>4
        <5>. HIDE DEF T
        <5>. QED BY <4>1, <5>1, EmptiesGrow
      <4>. QED BY <3>2, <3>3, <4>1, <4>2
    <3>. QED BY <2>3, <3>2, <3>5
  <2>. QED BY <2>2, <2>3
<1>. QED BY <1>3, <1>4


\* The run of buckets that a push past the watermark closes, if it is closed in
\* full: from the watermark to the bucket before the new one.
LEMMA AdvanceCloses ==
  ASSUME OrderAll, Grace = 0, GapFill, NEW bt \in BucketTimes, watermark < bt,
         NEW D, D = {t \in Open : t < bt - Grace}, NEW U, U = {bt - Grace - Span},
         D # {} => ~TooLong(Min(D), LastTime(D, U))
  PROVE  /\ watermark + Span <= bt /\ (bt - Span - watermark) % Span = 0
         /\ watermark \notin Open => Closing(D, U) = {}
         /\ watermark \in Open => Closing(D, U) = Steps(watermark, bt - Span)
<1>1. /\ watermark \in BucketTimes /\ watermark \in Nat /\ bt \in Nat
      /\ Span \in Nat \ {0}
  BY BucketAssumption, SpanAssumption DEF OrderAll, TypeInv, TypeOK
<1>2. (bt - watermark) % Span = 0
  BY <1>1, BucketAssumption
<1>3. watermark + Span <= bt /\ (bt - Span - watermark) % Span = 0
  <2>1. bt - watermark \in Int /\ bt - watermark > 0
    BY <1>1
  <2>2. bt - watermark >= Span /\ ((bt - watermark) - Span) % Span = 0
    BY <1>2, <2>1, NextMultiple
  <2>3. (bt - watermark) - Span = bt - Span - watermark
    BY <1>1
  <2>. QED BY <1>1, <2>2, <2>3
<1>4. ASSUME watermark \notin Open
      PROVE  Closing(D, U) = {}
  <2>1. D = {}
    BY <1>4, OnlyMarkOpen
  <2>. QED BY <2>1, ClosingNothing
<1>5. ASSUME watermark \in Open
      PROVE  Closing(D, U) = Steps(watermark, bt - Span)
  <2>1. D = {watermark} /\ U = {bt - Span}
    <3>1. bt - Grace = bt
      BY <1>1
    <3>2. D \subseteq {watermark}
      BY OnlyMarkOpen
    <3>. QED BY <1>1, <1>5, <3>1, <3>2
  <2>2. Min(D) = watermark /\ LastTime(D, U) = bt - Span
    <3>1. watermark \in Int /\ bt \in Int /\ D \subseteq watermark..bt /\ D # {}
          /\ D \cup U \subseteq watermark..bt /\ D \cup U # {}
      BY <1>1, <1>3, <2>1
    <3>2. Min(D) \in D
      BY <3>1, MinExists
    <3>3. Max(D \cup U) \in D \cup U /\ \A y \in D \cup U : y <= Max(D \cup U)
      BY <3>1, MaxExists
    <3>4. Max(D \cup U) = bt - Span
      BY <1>1, <1>3, <2>1, <3>3
    <3>. QED BY <2>1, <3>2, <3>4 DEF LastTime
  <2>3. ~TooLong(watermark, bt - Span)
    BY <2>1, <2>2
  <2>. QED BY <2>1, <2>2, <2>3 DEF Closing, FillGaps
<1>. QED BY <1>3, <1>4, <1>5

LEMMA Reports ==
  ASSUME NEW T, NEW c, results' = Return(T, c), NEW t \in T
  PROVE  \E r \in results' : r.time = t
<1>1. [time |-> t, pts |-> HeldIn(t), call |-> c] \in results'
  BY DEF Return
<1>. QED BY <1>1

\* A push past the watermark leaves no hole behind it.
LEMMA GapAdvance ==
  ASSUME OrderAll, OrderAll', GapInv, Grace = 0, GapFill, stats.skipped = 0,
         NEW bt \in BucketTimes, watermark < bt, watermark' = bt, hasMark,
         flushedAt' = flushedAt, bt \in Open', NEW T,
         watermark + Span <= bt /\ (bt - Span - watermark) % Span = 0,
         watermark \notin Open => T = {},
         watermark \in Open => T = Steps(watermark, bt - Span),
         results' = Return(T, calls + 1)
  PROVE  GapInv'
<1>1. /\ watermark \in Int /\ bt \in Int /\ Span \in Int /\ Span > 0
      /\ \A r \in results : r.time \in Int
  BY BucketAssumption, SpanAssumption DEF OrderAll, TypeInv, TypeOK, ResultType
<1>2. \A r \in results : r \in results'
  BY DEF Return
<1>3. \A t \in T : \E r \in results' : r.time = t
  BY Reports
<1>4. \A r \in results' : r \in results \/ r.time \in T
  BY DEF Return
<1>5. \A t \in T : watermark \in Open /\ t \in Int /\ watermark <= t /\ t <= bt - Span
  BY <1>1 DEF Steps
<1>6. watermark \in Open => watermark \in T
  <2>1. 0 % Span = 0
    BY <1>1
  <2>. QED BY <1>1, <2>1 DEF Steps
<1>7. ASSUME NEW r \in results'
      PROVE  \/ \E s \in results' : s.time = r.time + Span
             \/ r.time \in flushedAt'
             \/ r.time + Span = bt
  <2>1. CASE r.time \in T
    <3>1. r.time = bt - Span \/ r.time + Span \in T
      <4>1. bt - Span \in Int /\ r.time \in Steps(watermark, bt - Span)
        BY <1>1, <1>5, <2>1
      <4>. QED BY <1>1, <1>5, <2>1, <4>1, StepsContinue
    <3>. QED BY <1>1, <1>3, <1>5, <2>1, <3>1
  <2>2. CASE r \in results
    <3>1. CASE \E s \in results : s.time = r.time + Span
      BY <1>2, <3>1
    <3>2. CASE r.time + Span = watermark /\ watermark \in Open
      BY <1>3, <1>6, <3>2
    <3>. QED BY <2>2, <3>1, <3>2 DEF GapInv
  <2>. QED BY <1>4, <2>1, <2>2
<1>8. ASSUME NEW r \in results'
      PROVE  r.time + Span <= bt
  <2>1. CASE r.time \in T
    BY <1>1, <1>5, <2>1
  <2>2. CASE r \in results
    <3>1. r.time <= watermark
      BY <2>2 DEF OrderAll, OrderInv
    <3>. QED BY <1>1, <2>2, <3>1
  <2>. QED BY <1>4, <2>1, <2>2
<1>. QED BY <1>7, <1>8 DEF GapInv

\* Flush closes the watermark's bucket, if it is open.
LEMMA GapFlush ==
  ASSUME OrderAll, OrderAll', GapInv, Grace = 0, GapFill, stats.skipped = 0, Flush
  PROVE  GapInv'
<1>. DEFINE T == Closing(Open, {})
<1>1. /\ results' = Return(T, calls + 1) /\ pending' = Forget(T)
      /\ UNCHANGED <<watermark, hasMark>>
      /\ flushedAt' = IF hasMark THEN flushedAt \cup {watermark} ELSE flushedAt
  BY DEF Flush
<1>2. /\ watermark \in BucketTimes /\ watermark \in Nat /\ Span \in Nat \ {0}
      /\ watermark \in Int
  BY BucketAssumption, SpanAssumption DEF OrderAll, TypeInv, TypeOK
<1>3. T = Open
  <2>1. CASE Open = {}
    BY <2>1, ClosingNothing
  <2>2. CASE Open # {}
    <3>1. Open = {watermark}
      BY <2>2, OnlyMarkOpen
    <3>2. Min(Open) = watermark /\ LastTime(Open, {}) = watermark
      <4>1. Open \subseteq watermark..watermark /\ Open \cup {} \subseteq watermark..watermark
            /\ Open \cup {} # {}
        BY <1>2, <3>1
      <4>2. Min(Open) \in Open /\ Max(Open \cup {}) \in Open \cup {}
        BY <1>2, <2>2, <4>1, MinExists, MaxExists
      <4>. QED BY <3>1, <4>2 DEF LastTime
    <3>3. FillGaps(watermark, watermark) = {watermark}
      BY <1>2 DEF FillGaps, Steps
    <3>. QED BY <2>2, <3>1, <3>2, <3>3 DEF Closing
  <2>. QED BY <2>1, <2>2
<1>. HIDE DEF T
<1>4. hasMark \/ (results' = {} /\ Open = {})
  BY <1>1, <1>3 DEF OrderAll, OrderInv, Return
<1>5. \A r \in results : r \in results'
  BY <1>1 DEF Return
<1>6. watermark \in Open => \E s \in results' : s.time = watermark
  BY <1>1, <1>3, Reports
<1>7. \A r \in results' : r \in results \/ (r.time = watermark /\ watermark \in Open)
  BY <1>1, <1>3, OnlyMarkOpen DEF Return
<1>8. CASE hasMark
  <2>1. watermark' \in flushedAt' /\ flushedAt \subseteq flushedAt'
    BY <1>1, <1>8
  <2>2. \E s \in results' : s.time = watermark
    BY <1>5, <1>6, <1>8 DEF GapInv
  <2>3. \A r \in results' : \/ \E s \in results' : s.time = r.time + Span
                            \/ r.time \in flushedAt'
    BY <1>1, <1>5, <1>6, <1>7, <2>1 DEF GapInv
  <2>4. \A r \in results' : r.time = watermark' \/ r.time + Span <= watermark'
    BY <1>1, <1>7 DEF GapInv
  <2>. QED BY <1>1, <2>1, <2>2, <2>3, <2>4 DEF GapInv
<1>9. CASE ~hasMark
  BY <1>1, <1>4, <1>9 DEF GapInv
<1>. QED BY <1>8, <1>9

LEMMA HoleNext ==
  Grace = 0 /\ MaxGapFill > 1 /\ HoleInv /\ [Next]_vars => HoleInv'
<1>. SUFFICES ASSUME Grace = 0, MaxGapFill > 1, HoleInv, [Next]_vars PROVE HoleInv'
  OBVIOUS
<1>1. OrderAll /\ OrderAll' /\ GapInv /\ TallyInv
  <2>1. OrderSafe
    BY SpanAssumption DEF OrderSafe
  <2>. QED BY <2>1, OrderNext DEF HoleInv
<1>2. /\ watermark \in BucketTimes /\ hasMark \in BOOLEAN /\ stats \in StatsType
      /\ pending \in [BucketTimes -> SUBSET (1..MaxCalls)] /\ watermark \in Nat
      /\ TypeInv /\ TypeInv'
  BY <1>1, BucketAssumption DEF OrderAll, TypeInv, TypeOK
<1>3. ASSUME UNCHANGED <<pending, watermark, hasMark, results, flushedAt>>,
             stats'.skipped = stats.skipped, stats'.filled = stats.filled
      PROVE  HoleInv'
  <2>1. Open' = Open /\ Empties' = Empties
    BY <1>3 DEF Open, Empties
  <2>. QED BY <1>1, <1>3, <2>1 DEF HoleInv, GapInv, TallyInv
<1>4. ASSUME NEW bt \in BucketTimes, DropLate(bt)
      PROVE  HoleInv'
  BY <1>2, <1>3, <1>4 DEF DropLate, Arrive, StatsType
<1>5. ASSUME NEW bt \in BucketTimes, Join(bt)
      PROVE  HoleInv'
  <2>1. /\ UNCHANGED <<results, flushedAt>> /\ watermark' = Mark(bt) /\ hasMark' = TRUE
        /\ stats'.skipped = stats.skipped /\ stats'.filled = stats.filled
        /\ bt = Mark(bt) \/ bt \in Open
    BY <1>2, <1>5 DEF Join, Arrive, StatsType
  <2>2. TallyInv'
    BY <1>1, <2>1 DEF TallyInv, Empties
  <2>3. bt = watermark'
    <3>1. bt \in Open => hasMark /\ bt = watermark
      BY <1>1, OnlyMarkOpen DEF OrderAll, OrderInv
    <3>. QED BY <2>1, <3>1 DEF Mark
  <2>4. watermark' \in Open'
    <3>1. pending'[bt] = pending[bt] \cup {calls + 1}
      BY <1>2, <1>5 DEF Join
    <3>. QED BY <2>3, <3>1 DEF Open
  <2>5. CASE hasMark
    <3>1. watermark' = watermark
      BY <2>1, <2>5 DEF Mark
    <3>2. \A t : t = watermark /\ t \in Open => t \in Open'
      BY <2>4, <3>1
    <3>. QED BY <1>1, <2>1, <2>2, <2>4, <3>1, <3>2 DEF HoleInv, GapInv
  <2>6. CASE ~hasMark
    <3>1. results' = {}
      BY <1>1, <2>1, <2>6 DEF OrderAll, OrderInv
    <3>. QED BY <1>1, <2>2, <2>4, <3>1 DEF HoleInv, GapInv
  <2>. QED BY <2>5, <2>6
<1>6. ASSUME NEW bt \in BucketTimes, Advance(bt)
      PROVE  HoleInv'
  <2>. DEFINE D == {t \in Open : t < bt - Grace}
              U == {bt - Grace - Span}
  <2>1. /\ bt > Mark(bt) /\ watermark' = bt /\ hasMark' = hasMark /\ flushedAt' = flushedAt
        /\ results' = Return(Closing(D, U), calls + 1) /\ stats' = CloseStats(D, U)
    BY <1>6 DEF Advance, AdvanceWith, Arrive
  <2>2. pending' = [Forget(Closing(D, U)) EXCEPT ![bt] = @ \cup {calls + 1}]
    BY <1>6 DEF Advance, AdvanceWith
  <2>3. hasMark /\ watermark < bt
    BY <1>2, <2>1, BucketAssumption DEF Mark
  <2>4. PICK a \in Int, m \in Int : D \subseteq a..m /\ U \subseteq a..m
    BY AdvanceRange
  <2>5. D \in SUBSET Open
    OBVIOUS
  <2>d. D = {t \in Open : t < bt - Grace} /\ U = {bt - Grace - Span}
    OBVIOUS
  <2>. HIDE DEF D, U
  <2>6. /\ TallyInv'
        /\ stats'.skipped = 0 =>
             /\ stats.skipped = 0
             /\ D # {} /\ GapFill => ~TooLong(Min(D), LastTime(D, U))
    BY <1>1, <2>1, <2>4, <2>5, TallyNext
  <2>7. GapInv'
    <3>. SUFFICES ASSUME GapFill, stats'.skipped = 0 PROVE GapInv'
      BY DEF GapInv
    <3>1. bt \in Open'
      BY <2>2 DEF Open, Forget
    <3>. DEFINE T == Closing(D, U)
    <3>2. /\ watermark + Span <= bt /\ (bt - Span - watermark) % Span = 0
          /\ watermark \notin Open => T = {}
          /\ watermark \in Open => T = Steps(watermark, bt - Span)
      BY <1>1, <2>3, <2>6, <2>d, AdvanceCloses
    <3>3. results' = Return(T, calls + 1)
      BY <2>1
    <3>. HIDE DEF T
    <3>. QED BY <1>1, <2>1, <2>3, <2>6, <3>1, <3>2, <3>3, GapAdvance
  <2>. QED BY <1>1, <2>6, <2>7 DEF HoleInv
<1>7. ASSUME Flush
      PROVE  HoleInv'
  <2>1. results' = Return(Closing(Open, {}), calls + 1) /\ stats' = CloseStats(Open, {})
    BY <1>7 DEF Flush
  <2>2. Open \subseteq 0..watermark /\ {} \subseteq 0..watermark /\ 0 \in Int /\ watermark \in Int
    BY <1>2, OpenRange DEF TypeInv
  <2>3. TallyInv' /\ (stats'.skipped = 0 => stats.skipped = 0)
    BY <1>1, <2>1, <2>2, TallyNext
  <2>4. GapInv'
    BY <1>1, <1>7, <2>3, GapFlush DEF GapInv
  <2>. QED BY <1>1, <2>3, <2>4 DEF HoleInv
<1>8. ASSUME UNCHANGED vars
      PROVE  HoleInv'
  BY <1>3, <1>8 DEF vars
<1>. QED BY <1>4, <1>5, <1>6, <1>7, <1>8 DEF Next, Push

\* Without a grace period (nothing in the repository sets one) and with a gap
\* limit of more than one bucket, no silent bucket goes untold: it is reported
\* as empty and counted, or a gap was too long to fill and is counted as that.
THEOREM GapsCorrect == Grace = 0 /\ MaxGapFill > 1 /\ Spec => []GapsTold
<1>. SUFFICES ASSUME Grace = 0, MaxGapFill > 1 PROVE Spec => []GapsTold
  OBVIOUS
<1>1. HoleInv /\ [Next]_vars => HoleInv'
  BY HoleNext
<1>2. HoleInv => GapsTold
  <2>. SUFFICES ASSUME HoleInv PROVE GapsTold
    OBVIOUS
  <2>1. GapsCounted
    BY DEF HoleInv, TallyInv, GapsCounted, Empties
  <2>2. NoSilentHole
    <3>. SUFFICES ASSUME GapFill, stats.skipped = 0, NEW r \in results,
                         r.time + Span = watermark, NEW s \in results, ~(s.time <= r.time)
                  PROVE  \E q \in results : q.time = r.time + Span
      BY DEF NoSilentHole, HoleInv, GapInv
    <3>1. s.time = watermark \/ s.time + Span <= watermark
      BY DEF HoleInv, GapInv
    <3>2. s.time \in Int /\ r.time \in Int /\ watermark \in Int /\ Span \in Int
      BY BucketAssumption, SpanAssumption DEF HoleInv, OrderAll, TypeInv, TypeOK, ResultType
    <3>3. s.time = watermark
      BY <3>1, <3>2
    <3>. QED BY <3>3
  <2>. QED BY <2>1, <2>2 DEF GapsTold
<1>. QED BY HoleInit, <1>1, <1>2, PTL DEF Spec

-----------------------------------------------------------------------------
(* The stream and the batch, for streams that wait for no late point.      *)

\* The points of a bucket, and the buckets that the batch would report.
PointsOf(t) == {i \in Pushed : arrived[i] = t}
TimesPushed == {arrived[i] : i \in Pushed}
FullRange == IF GapFill THEN Steps(arrived[1], watermark) ELSE TimesPushed
Batched(F) == {[time |-> t, pts |-> PointsOf(t)] : t \in F}
Plain == {[time |-> r.time, pts |-> r.pts] : r \in results}

\* A stream in order that was not flushed has one bucket open, with all its
\* points, and has reported the others that the batch would report.
StreamInv ==
  InOrder /\ Pushed = 1..calls /\ ~TooLong(0, watermark) =>
    /\ hasMark <=> calls > 0
    /\ calls = 0 => results = {}
    /\ calls > 0 =>
         /\ arrived[calls] = watermark
         /\ \A i \in Pushed : arrived[1] <= arrived[i] /\ arrived[i] <= watermark
         /\ pending[watermark] = PointsOf(watermark)
         /\ Plain = Batched(FullRange \ {watermark})

BatchInv ==
  /\ OrderAll /\ ConsInv
  /\ ~hasMark => watermark = 0
  /\ StreamInv /\ StreamMatchesBatch

LEMMA BatchInit == Init => BatchInv
<1>. SUFFICES ASSUME Init PROVE BatchInv
  OBVIOUS
<1>1. OrderAll
  BY OrderInit
<1>2. ConsInv
  BY ConsInit
<1>3. calls = 0 /\ results = {} /\ ~hasMark /\ watermark = 0
  BY DEF Init
<1>4. StreamInv /\ StreamMatchesBatch
  BY <1>3 DEF StreamInv, StreamMatchesBatch, JustFlushed
<1>. QED BY <1>1, <1>2, <1>3, <1>4 DEF BatchInv

LEMMA RunLengthInside ==
  ASSUME NEW k \in Int, NEW f \in Int, NEW l \in Int, NEW n \in Int,
         k <= f, l <= n, ~TooLong(k, n)
  PROVE  ~TooLong(f, l)
<1>1. Span \in Nat \ {0} /\ MaxGapFill \in Int
  BY SpanAssumption, GapAssumption
<1>2. l - f \in Int /\ n - k \in Int /\ l - f <= n - k
  OBVIOUS
<1>3. (l - f) \div Span <= (n - k) \div Span
  BY <1>1, <1>2
<1>4. (l - f) \div Span \in Int /\ (n - k) \div Span \in Int
  BY <1>1, <1>2
<1>. QED BY <1>1, <1>3, <1>4 DEF TooLong, RunLength

\* The run up to a new bucket is the run up to the last one, that one, and the
\* buckets between them.
LEMMA StepsSplit ==
  ASSUME NEW f \in BucketTimes, NEW w \in BucketTimes, NEW b \in BucketTimes,
         f <= w, w < b
  PROVE  Steps(f, b) \ {b} = (Steps(f, w) \ {w}) \cup Steps(w, b - Span)
<1>1. /\ f \in Nat /\ w \in Nat /\ b \in Nat /\ Span \in Nat \ {0}
      /\ (w - f) % Span = 0 /\ (b - w) % Span = 0 /\ (b - f) % Span = 0
  BY BucketAssumption, SpanAssumption
<1>. PICK j \in Int, k \in Int : w - f = Span * j /\ b - w = Span * k
  <2>1. w - f \in Int /\ b - w \in Int
    BY <1>1
  <2>. QED BY <1>1, <2>1, MultipleIs
<1>2. ASSUME NEW t \in Int, NEW s \in {f, w, b}, NEW u \in {f, w, b}, (t - s) % Span = 0
      PROVE  (t - u) % Span = 0
  <2>1. t - s \in Int
    BY <1>1
  <2>2. PICK i \in Int : t - s = Span * i
    BY <1>2, <2>1, MultipleIs
  <2>3. PICK m \in Int : s - u = Span * m
    <3>1. s - u \in {0, Span * j, Span * k, Span * j + Span * k,
                     0 - Span * j, 0 - Span * k, 0 - (Span * j + Span * k)}
      BY <1>1
    <3>2. s - u \in {Span * 0, Span * j, Span * k, Span * (j + k),
                     Span * (0 - j), Span * (0 - k), Span * (0 - (j + k))}
      BY <1>1, <3>1
    <3>3. 0 \in Int /\ j + k \in Int /\ 0 - j \in Int /\ 0 - k \in Int /\ 0 - (j + k) \in Int
      OBVIOUS
    <3>. QED BY <3>2, <3>3, Zenon
  <2>4. t - u = Span * (i + m) /\ i + m \in Int
    BY <1>1, <2>2, <2>3
  <2>. QED BY <2>4, MultipleOf
<1>3. ASSUME NEW t \in Steps(f, b), t # b
      PROVE  t \in (Steps(f, w) \ {w}) \cup Steps(w, b - Span)
  <2>1. t \in Int /\ f <= t /\ t < b /\ (t - f) % Span = 0
    BY <1>1, <1>3 DEF Steps
  <2>2. (t - w) % Span = 0 /\ (t - b) % Span = 0
    BY <1>2, <2>1
  <2>3. t < w => t \in Steps(f, w) \ {w}
    BY <1>1, <2>1 DEF Steps
  <2>4. t <= b - Span
    <3>1. PICK i \in Int : t - b = Span * i
      <4>1. t - b \in Int
        BY <1>1, <2>1
      <4>. QED BY <2>2, <4>1, MultipleIs
    <3>2. b - t = Span * (0 - i) /\ 0 - i \in Int /\ b - t \in Int /\ b - t > 0
      BY <1>1, <2>1, <3>1
    <3>3. (b - t) % Span = 0
      BY <3>2, MultipleOf
    <3>4. b - t >= Span
      BY <3>2, <3>3, NextMultiple
    <3>. QED BY <1>1, <2>1, <3>4
  <2>5. t >= w => t \in Steps(w, b - Span)
    BY <1>1, <2>1, <2>2, <2>4 DEF Steps
  <2>. QED BY <1>1, <2>1, <2>3, <2>5
<1>4. ASSUME NEW t \in (Steps(f, w) \ {w}) \cup Steps(w, b - Span)
      PROVE  t \in Steps(f, b) /\ t # b
  <2>1. CASE t \in Steps(f, w)
    BY <1>1, <2>1 DEF Steps
  <2>2. CASE t \in Steps(w, b - Span)
    <3>1. t \in Int /\ w <= t /\ t <= b - Span /\ (t - w) % Span = 0
      BY <1>1, <2>2 DEF Steps
    <3>2. (t - f) % Span = 0
      BY <1>2, <3>1
    <3>. QED BY <1>1, <3>1, <3>2 DEF Steps
  <2>. QED BY <1>4, <2>1, <2>2
<1>. QED BY <1>3, <1>4

\* A push in order, at or past the watermark: its points, and those of others.
LEMMA PushedPoints ==
  ASSUME BatchInv, TypeInv', NEW bt \in BucketTimes, Arrive(bt)
  PROVE  /\ Pushed' = Pushed \cup {calls + 1} /\ calls + 1 \notin Pushed
         /\ calls \in Nat /\ calls' = calls + 1 /\ calls + 1 \in 1..MaxCalls
         /\ arrived'[calls + 1] = bt /\ \A i \in Pushed : arrived'[i] = arrived[i]
         /\ \A t : t # bt => PointsOf(t)' = PointsOf(t)
         /\ PointsOf(bt)' = PointsOf(bt) \cup {calls + 1}
         /\ TimesPushed' = TimesPushed \cup {bt}
         /\ \A i \in Pushed : i \in 1..calls
<1>0. MaxCalls \in Nat /\ calls \in 0..MaxCalls
  BY BoundAssumption DEF BatchInv, OrderAll, TypeInv, TypeOK
<1>1. /\ calls \in Nat /\ MaxCalls \in Nat /\ calls < MaxCalls /\ calls' = calls + 1
      /\ arrived \in [1..MaxCalls -> BucketTimes \cup {NoPoint}]
      /\ arrived' = [arrived EXCEPT ![calls + 1] = bt] /\ NoPoint \notin BucketTimes
  BY <1>0, BucketAssumption
     DEF BatchInv, OrderAll, TypeInv, TypeOK, Arrive, NoPoint
<1>2. calls + 1 \in 1..MaxCalls /\ \A i \in Pushed : i \in 1..calls /\ i \in 1..MaxCalls
  BY <1>1 DEF Pushed
<1>3. \A i \in 1..MaxCalls : arrived'[i] = IF i = calls + 1 THEN bt ELSE arrived[i]
  BY <1>1
<1>4. Pushed' = Pushed \cup {calls + 1} /\ calls + 1 \notin Pushed
  <2>1. \A i : i \in 1..calls' <=> i \in 1..calls \/ i = calls + 1
    BY <1>1
  <2>2. \A i \in 1..calls : i \in 1..MaxCalls /\ i # calls + 1
    BY <1>1
  <2>. QED BY <1>1, <1>2, <1>3, <2>1, <2>2 DEF Pushed
<1>5. \A i \in Pushed : arrived'[i] = arrived[i]
  BY <1>2, <1>3, <1>4
<1>6. arrived'[calls + 1] = bt
  BY <1>2, <1>3
<1>7. \A t : PointsOf(t)' = IF t = bt THEN PointsOf(t) \cup {calls + 1} ELSE PointsOf(t)
  BY <1>4, <1>5, <1>6 DEF PointsOf
<1>8. TimesPushed' = TimesPushed \cup {bt}
  BY <1>4, <1>5, <1>6 DEF TimesPushed
<1>. QED BY <1>1, <1>2, <1>4, <1>5, <1>6, <1>7, <1>8

\* When a push leaves an unflushed stream in order, the stream was one before,
\* and what it pushed is not older than what came before it.
LEMMA PushInOrder ==
  ASSUME BatchInv, TypeInv', NEW bt \in BucketTimes, Arrive(bt), InOrder',
         Pushed' = 1..calls', ~TooLong(0, watermark'), watermark <= watermark'
  PROVE  /\ InOrder /\ Pushed = 1..calls /\ ~TooLong(0, watermark)
         /\ \A i \in Pushed : arrived[i] <= bt
         /\ ~JustFlushed'
<1>1. /\ Pushed' = Pushed \cup {calls + 1} /\ calls + 1 \notin Pushed
      /\ calls \in Nat /\ calls' = calls + 1
      /\ arrived'[calls + 1] = bt /\ \A i \in Pushed : arrived'[i] = arrived[i]
      /\ \A i \in Pushed : i \in 1..calls
  BY PushedPoints
<1>2. InOrder
  BY <1>1 DEF InOrder
<1>3. Pushed = 1..calls
  <2>1. 1..calls' = (1..calls) \cup {calls + 1} /\ calls + 1 \notin 1..calls
    BY <1>1
  <2>. QED BY <1>1, <2>1
<1>4. ~TooLong(0, watermark)
  <2>1. watermark \in Int /\ watermark' \in Int
    BY BucketAssumption DEF BatchInv, OrderAll, TypeInv, TypeOK
  <2>. QED BY <2>1, RunLengthInside
<1>5. \A i \in Pushed : arrived[i] <= bt
  <2>. TAKE i \in Pushed
  <2>1. i \in Pushed' /\ calls + 1 \in Pushed' /\ i < calls + 1
    BY <1>1
  <2>. QED BY <1>1, <2>1 DEF InOrder
<1>. QED BY <1>1, <1>2, <1>3, <1>4, <1>5 DEF JustFlushed

LEMMA PlainGrows ==
  ASSUME NEW T, results' = Return(T, calls + 1)
  PROVE  Plain' = Plain \cup {[time |-> t, pts |-> HeldIn(t)] : t \in T}
<1>. DEFINE new(t) == [time |-> t, pts |-> HeldIn(t), call |-> calls + 1]
<1>1. \A t : new(t).time = t /\ new(t).pts = HeldIn(t)
  OBVIOUS
<1>2. results' = results \cup {new(t) : t \in T}
  BY DEF Return
<1>. HIDE DEF new
<1>. QED BY <1>1, <1>2 DEF Plain

\* The stream after a push that closes the buckets T, none or those of the run
\* that ends right before its own.
LEMMA StreamGrows ==
  ASSUME BatchInv, OrderAll', Grace = 0, NEW bt \in BucketTimes, Arrive(bt),
         InOrder, Pushed = 1..calls, ~TooLong(0, watermark),
         hasMark' = TRUE, watermark' = bt, hasMark => watermark <= bt,
         NEW T,
         ~hasMark \/ bt = watermark => T = {},
         hasMark /\ bt # watermark =>
           T = IF GapFill THEN Steps(watermark, bt - Span) ELSE {watermark},
         results' = Return(T, calls + 1),
         pending' = [Forget(T) EXCEPT ![bt] = @ \cup {calls + 1}]
  PROVE  StreamInv'
<1>1. /\ Pushed' = Pushed \cup {calls + 1} /\ calls + 1 \notin Pushed
      /\ calls \in Nat /\ calls' = calls + 1 /\ calls + 1 \in 1..MaxCalls
      /\ arrived'[calls + 1] = bt /\ \A i \in Pushed : arrived'[i] = arrived[i]
      /\ \A t : t # bt => PointsOf(t)' = PointsOf(t)
      /\ PointsOf(bt)' = PointsOf(bt) \cup {calls + 1}
      /\ TimesPushed' = TimesPushed \cup {bt}
  BY PushedPoints DEF OrderAll
<1>2. /\ bt \in Nat /\ watermark \in Nat /\ watermark \in BucketTimes
      /\ Span \in Nat \ {0} /\ pending \in [BucketTimes -> SUBSET (1..MaxCalls)]
      /\ \A i \in Pushed : arrived[i] \in BucketTimes /\ arrived[i] \in Nat
  <2>1. ASSUME NEW i \in Pushed
        PROVE  arrived[i] \in BucketTimes
    <3>0. MaxCalls \in Nat /\ calls \in 0..MaxCalls
      BY BoundAssumption DEF BatchInv, OrderAll, TypeInv, TypeOK
    <3>1. i \in 1..calls /\ i \in 1..MaxCalls /\ arrived[i] # NoPoint
      BY <3>0 DEF Pushed
    <3>2. i \in 1..MaxCalls /\ arrived \in [1..MaxCalls -> BucketTimes \cup {NoPoint}]
      BY <1>1, <3>1 DEF BatchInv, OrderAll, TypeInv, TypeOK
    <3>. QED BY <3>1, <3>2
  <2>. QED BY <2>1, BucketAssumption, SpanAssumption
        DEF BatchInv, OrderAll, TypeInv, TypeOK
<1>3. /\ hasMark <=> calls > 0
      /\ calls = 0 => results = {}
      /\ calls > 0 =>
           /\ arrived[calls] = watermark
           /\ \A i \in Pushed : arrived[1] <= arrived[i] /\ arrived[i] <= watermark
           /\ pending[watermark] = PointsOf(watermark)
           /\ Plain = Batched(FullRange \ {watermark})
  BY DEF BatchInv, StreamInv
<1>4. Plain' = Plain \cup {[time |-> t, pts |-> HeldIn(t)] : t \in T}
  BY PlainGrows
<1>5. pending'[bt] = (IF bt \in T THEN {} ELSE pending[bt]) \cup {calls + 1}
  BY <1>2 DEF Forget
<1>6. CASE ~hasMark
  <2>1. calls = 0 /\ results = {} /\ T = {} /\ Pushed = {}
    BY <1>1, <1>3, <1>6
  <2>2. arrived'[1] = bt /\ PointsOf(bt)' = {1} /\ Pushed' = {1}
    BY <1>1, <2>1 DEF PointsOf
  <2>3. pending[bt] = {}
    BY <1>6 DEF BatchInv, OrderAll, OrderInv, Open
  <2>4. Plain' = {}
    BY <1>4, <2>1 DEF Plain
  <2>5. FullRange' \ {bt} = {}
    <3>1. TimesPushed' = {bt}
      BY <2>2 DEF TimesPushed
    <3>2. Steps(bt, bt) \subseteq {bt}
      BY <1>2 DEF Steps
    <3>. QED BY <2>2, <3>1, <3>2 DEF FullRange
  <2>. QED BY <1>1, <1>2, <1>5, <2>1, <2>2, <2>3, <2>4, <2>5 DEF StreamInv, Batched
<1>7. CASE hasMark
  <2>1. calls > 0 /\ calls \in Pushed /\ 1 \in Pushed /\ watermark <= bt
    BY <1>1, <1>3, <1>7
  <2>2. arrived'[1] = arrived[1] /\ arrived[1] <= watermark /\ arrived[1] \in BucketTimes
    BY <1>1, <1>2, <1>3, <2>1
  <2>3. \A i \in Pushed' : arrived'[1] <= arrived'[i] /\ arrived'[i] <= bt
    BY <1>1, <1>2, <1>3, <2>1, <2>2
  <2>4. CASE bt = watermark
    <3>1. Plain' = Plain /\ pending'[bt] = PointsOf(bt)'
      BY <1>1, <1>3, <1>4, <1>5, <2>1, <2>4
    <3>2. bt \in TimesPushed
      BY <1>3, <2>1, <2>4 DEF TimesPushed
    <3>3. FullRange' = FullRange
      BY <1>1, <2>2, <2>4, <3>2 DEF FullRange
    <3>4. \A t \in FullRange \ {bt} : PointsOf(t)' = PointsOf(t)
      BY <1>1
    <3>5. Plain' = Batched(FullRange \ {watermark})'
      BY <1>3, <2>1, <2>4, <3>1, <3>3, <3>4 DEF Batched
    <3>. QED BY <1>1, <2>1, <2>3, <2>4, <3>1, <3>5 DEF StreamInv
  <2>5. CASE bt # watermark
    <3>1. watermark < bt /\ T = IF GapFill THEN Steps(watermark, bt - Span) ELSE {watermark}
      BY <1>2, <1>7, <2>1, <2>5
    <3>2. \A t \in T : t \in Int /\ watermark <= t /\ t < bt
      BY <1>2, <3>1 DEF Steps
    <3>3. \A t \in T : HeldIn(t) = PointsOf(t)
      <4>. TAKE t \in T
      <4>1. CASE t = watermark
        BY <1>2, <1>3, <2>1, <4>1 DEF HeldIn
      <4>2. CASE t # watermark
        <5>1. t \notin Open
          BY <4>2, OnlyMarkOpen DEF BatchInv
        <5>2. PointsOf(t) = {}
          BY <1>2, <1>3, <2>1, <3>2, <4>2 DEF PointsOf
        <5>. QED BY <5>1, <5>2 DEF HeldIn, Open
      <4>. QED BY <4>1, <4>2
    <3>4. Plain' = Plain \cup Batched(T)
      BY <1>4, <3>3 DEF Batched
    <3>5. Plain' = Batched((FullRange \ {watermark}) \cup T)
      BY <1>3, <2>1, <3>4 DEF Batched
    <3>6. FullRange' \ {bt} = (FullRange \ {watermark}) \cup T
      <4>1. CASE GapFill
        <5>1. FullRange = Steps(arrived[1], watermark) /\ FullRange' = Steps(arrived[1], bt)
          BY <2>2, <4>1 DEF FullRange
        <5>2. T = Steps(watermark, bt - Span)
          BY <3>1, <4>1
        <5>3. Steps(arrived[1], bt) \ {bt}
                = (Steps(arrived[1], watermark) \ {watermark}) \cup Steps(watermark, bt - Span)
          <6>1. arrived[1] \in BucketTimes /\ watermark \in BucketTimes
                /\ arrived[1] <= watermark /\ watermark < bt
            BY <1>2, <2>2, <3>1
          <6>. QED BY <6>1, StepsSplit
        <5>. QED BY <5>1, <5>2, <5>3
      <4>2. CASE ~GapFill
        <5>1. watermark \in TimesPushed /\ bt \notin TimesPushed
          BY <1>2, <1>3, <2>1, <3>1 DEF TimesPushed
        <5>. QED BY <1>1, <3>1, <4>2, <5>1 DEF FullRange
      <4>. QED BY <4>1, <4>2
    <3>7. \A t \in FullRange' \ {bt} : PointsOf(t)' = PointsOf(t)
      BY <1>1
    <3>8. Plain' = Batched(FullRange \ {watermark})'
      BY <3>5, <3>6, <3>7 DEF Batched
    <3>9. pending'[bt] = PointsOf(bt)'
      <4>1. bt \notin Open
        BY <2>5, OnlyMarkOpen DEF BatchInv
      <4>2. pending[bt] = {}
        BY <4>1 DEF Open
      <4>3. PointsOf(bt) = {}
        BY <1>2, <1>3, <2>1, <3>1 DEF PointsOf
      <4>. QED BY <1>1, <1>5, <4>2, <4>3
    <3>. QED BY <1>1, <2>1, <2>3, <3>8, <3>9 DEF StreamInv
  <2>. QED BY <2>4, <2>5
<1>. QED BY <1>2, <1>6, <1>7 DEF BatchInv, OrderAll, TypeInv, TypeOK

\* A flush right after such a stream reports what the batch reports.
LEMMA FlushMatches ==
  ASSUME BatchInv, OrderAll', Grace = 0, Flush
  PROVE  StreamMatchesBatch'
<1>. SUFFICES ASSUME InOrder', JustFlushed', ~TooLong(0, watermark')
              PROVE  Plain' = Run'
  BY DEF StreamMatchesBatch, Plain
<1>. DEFINE T == Closing(Open, {})
<1>1. /\ calls \in Nat /\ calls' = calls + 1 /\ calls + 1 \in 1..MaxCalls
      /\ MaxCalls \in Nat /\ watermark \in Nat /\ watermark \in BucketTimes /\ Span \in Nat \ {0}
      /\ arrived' = arrived /\ watermark' = watermark
      /\ results' = Return(T, calls + 1)
  <2>1. MaxCalls \in Nat /\ calls \in 0..MaxCalls /\ watermark \in BucketTimes
    BY BoundAssumption DEF BatchInv, OrderAll, TypeInv, TypeOK
  <2>. QED BY <2>1, BucketAssumption, SpanAssumption DEF Flush
<1>. HIDE DEF T
<1>2. Pushed' = Pushed
  <2>1. arrived[calls + 1] = NoPoint
    BY <1>1 DEF BatchInv, ConsInv, Unpushed
  <2>2. 1..calls' = (1..calls) \cup {calls + 1}
    BY <1>1
  <2>. QED BY <1>1, <2>1, <2>2 DEF Pushed
<1>3. Pushed = 1..calls
  <2>1. (1..calls') \ Pushed' = {calls + 1}
    BY <1>1 DEF JustFlushed
  <2>2. 1..calls' = (1..calls) \cup {calls + 1}
    BY <1>1
  <2>3. calls + 1 \notin 1..calls
    BY <1>1
  <2>. QED BY <1>2, <2>1, <2>2, <2>3 DEF Pushed
<1>4. InOrder /\ ~TooLong(0, watermark)
  BY <1>1, <1>2 DEF InOrder
<1>5. /\ hasMark <=> calls > 0
      /\ calls = 0 => results = {}
      /\ calls > 0 =>
           /\ arrived[calls] = watermark
           /\ \A i \in Pushed : arrived[1] <= arrived[i] /\ arrived[i] <= watermark
           /\ pending[watermark] = PointsOf(watermark)
           /\ Plain = Batched(FullRange \ {watermark})
  BY <1>3, <1>4 DEF BatchInv, StreamInv
<1>6. Plain' = Plain \cup {[time |-> t, pts |-> HeldIn(t)] : t \in T}
  BY <1>1, PlainGrows
<1>7. Run' = Batched(IF GapFill /\ Cardinality(TimesPushed) >= 2
                          /\ ~TooLong(Min(TimesPushed), Max(TimesPushed))
                       THEN Steps(Min(TimesPushed), Max(TimesPushed)) ELSE TimesPushed)
  BY <1>1, <1>2 DEF Run, Batched, PointsOf, TimesPushed
<1>8. CASE calls = 0
  <2>1. Pushed = {} /\ TimesPushed = {} /\ Plain = {}
    BY <1>3, <1>5, <1>8 DEF TimesPushed, Plain
  <2>2. T = {}
    <3>1. Open = {}
      BY <1>5, <1>8 DEF BatchInv, OrderAll, OrderInv
    <3>. QED BY <3>1, ClosingNothing DEF T
  <2>3. Cardinality(TimesPushed) = 0
    BY <2>1, FS_EmptySet
  <2>4. Run' = {}
    BY <1>7, <2>1, <2>3 DEF Batched
  <2>. QED BY <1>6, <2>1, <2>2, <2>4
<1>9. CASE calls > 0
  <2>1. calls \in Pushed /\ 1 \in Pushed
    BY <1>1, <1>3, <1>9
  <2>2. \A i \in Pushed : arrived[i] \in BucketTimes /\ arrived[i] \in Nat
    <3>1. \A i \in Pushed : i \in 1..MaxCalls /\ arrived[i] # NoPoint
      BY <1>1 DEF Pushed
    <3>. QED BY <3>1, BucketAssumption DEF BatchInv, OrderAll, TypeInv, TypeOK
  <2>3. /\ arrived[1] \in Nat /\ arrived[1] <= watermark
        /\ TimesPushed \subseteq arrived[1]..watermark
        /\ arrived[1] \in TimesPushed /\ watermark \in TimesPushed
    <3>1. arrived[1] \in TimesPushed /\ watermark \in TimesPushed
      BY <1>5, <1>9, <2>1 DEF TimesPushed
    <3>2. arrived[1] \in Nat /\ arrived[1] <= watermark
      BY <1>5, <1>9, <2>1, <2>2
    <3>3. TimesPushed \subseteq arrived[1]..watermark
      <4>1. \A i \in Pushed : arrived[i] \in arrived[1]..watermark
        BY <1>1, <1>5, <1>9, <2>2, <3>2
      <4>. QED BY <4>1 DEF TimesPushed
    <3>. QED BY <3>1, <3>2, <3>3
  <2>4. T = {watermark} /\ HeldIn(watermark) = PointsOf(watermark)
    <3>1. HeldIn(watermark) = PointsOf(watermark) /\ calls \in PointsOf(watermark)
      BY <1>1, <1>5, <1>9, <2>1 DEF HeldIn, PointsOf
    <3>2. Open = {watermark}
      BY <1>1, <3>1, OnlyMarkOpen DEF Open, HeldIn, BatchInv
    <3>3. Min(Open) = watermark /\ LastTime(Open, {}) = watermark
      <4>1. Open \subseteq watermark..watermark /\ Open \cup {} \subseteq watermark..watermark
            /\ Open \cup {} # {} /\ Open # {} /\ watermark \in Int
        BY <1>1, <3>2
      <4>2. Min(Open) \in Open /\ Max(Open \cup {}) \in Open \cup {}
        BY <4>1, MinExists, MaxExists
      <4>. QED BY <3>2, <4>2 DEF LastTime
    <3>4. FillGaps(watermark, watermark) = {watermark}
      BY <1>1 DEF FillGaps, Steps
    <3>. QED BY <3>1, <3>2, <3>3, <3>4 DEF Closing, T
  <2>5. watermark \in FullRange
    <3>1. GapFill => watermark \in Steps(arrived[1], watermark)
      <4>1. arrived[1] \in BucketTimes
        BY <2>1, <2>2
      <4>2. (watermark - arrived[1]) % Span = 0
        BY <1>1, <2>3, <4>1, BucketAssumption
      <4>. QED BY <1>1, <2>3, <4>2 DEF Steps
    <3>. QED BY <2>3, <3>1 DEF FullRange
  <2>6. Plain' = Batched(FullRange)
    <3>1. Plain' = Batched(FullRange \ {watermark}) \cup Batched({watermark})
      BY <1>5, <1>6, <1>9, <2>4 DEF Batched
    <3>. QED BY <2>5, <3>1 DEF Batched
  <2>7. Min(TimesPushed) = arrived[1] /\ Max(TimesPushed) = watermark
    <3>1. arrived[1] \in Int /\ watermark \in Int /\ TimesPushed # {}
      BY <1>1, <2>3
    <3>2. /\ Min(TimesPushed) \in TimesPushed /\ Min(TimesPushed) <= arrived[1]
          /\ Max(TimesPushed) \in TimesPushed /\ watermark <= Max(TimesPushed)
      BY <2>3, <3>1, MinExists, MaxExists
    <3>3. \A x \in TimesPushed : x \in Int /\ arrived[1] <= x /\ x <= watermark
      BY <2>3, <3>1
    <3>. HIDE DEF TimesPushed
    <3>4. /\ Min(TimesPushed) \in Int /\ arrived[1] <= Min(TimesPushed)
          /\ Max(TimesPushed) \in Int /\ Max(TimesPushed) <= watermark
      BY <3>2, <3>3
    <3>. QED BY <3>1, <3>2, <3>4
  <2>8. ~TooLong(arrived[1], watermark)
    BY <1>1, <1>4, <2>3, RunLengthInside
  <2>9. GapFill /\ ~(Cardinality(TimesPushed) >= 2) => TimesPushed = FullRange
    <3>. SUFFICES ASSUME GapFill, ~(Cardinality(TimesPushed) >= 2)
                  PROVE  TimesPushed = FullRange
      OBVIOUS
    <3>1. IsFiniteSet(TimesPushed)
      <4>0. arrived[1] \in Int /\ watermark \in Int
        BY <1>1, <2>3
      <4>1. IsFiniteSet(arrived[1]..watermark)
        BY <4>0, FS_Interval
      <4>. QED BY <2>3, <4>1, FS_Subset
    <3>2. TimesPushed = {watermark}
      <4>. SUFFICES ASSUME NEW x \in TimesPushed, x # watermark PROVE FALSE
        BY <2>3
      <4>1. IsFiniteSet({watermark}) /\ Cardinality({watermark}) = 1
        BY FS_Singleton
      <4>2. Cardinality({watermark} \cup {x}) = 2
        BY <4>1, FS_AddElement
      <4>3. {watermark} \cup {x} \subseteq TimesPushed
        BY <2>3
      <4>4. Cardinality({watermark} \cup {x}) <= Cardinality(TimesPushed)
        BY <3>1, <4>3, FS_Subset
      <4>. QED BY <4>2, <4>4, <3>1, FS_CardinalityType
    <3>3. arrived[1] = watermark
      BY <2>3, <3>2
    <3>4. Steps(watermark, watermark) = {watermark}
      BY <1>1 DEF Steps
    <3>. QED BY <3>2, <3>3, <3>4 DEF FullRange
  <2>. QED BY <1>7, <2>6, <2>7, <2>8, <2>9 DEF FullRange
<1>. QED BY <1>1, <1>8, <1>9

LEMMA BatchNext == Grace = 0 /\ BatchInv /\ [Next]_vars => BatchInv'
<1>. SUFFICES ASSUME Grace = 0, BatchInv, [Next]_vars PROVE BatchInv'
  OBVIOUS
<1>1. /\ OrderAll /\ OrderAll' /\ ConsInv'
      /\ ~hasMark => watermark = 0
  <2>1. OrderSafe
    BY SpanAssumption DEF OrderSafe
  <2>. QED BY <2>1, OrderNext, ConsNext DEF BatchInv
<1>2. /\ watermark \in BucketTimes /\ hasMark \in BOOLEAN /\ watermark \in Nat
      /\ pending \in [BucketTimes -> SUBSET (1..MaxCalls)]
      /\ TypeInv /\ TypeInv'
  BY <1>1, BucketAssumption DEF OrderAll, TypeInv, TypeOK
<1>3. ASSUME UNCHANGED vars
      PROVE  BatchInv'
  <2>1. /\ Pushed' = Pushed /\ InOrder' = InOrder /\ calls' = calls
        /\ watermark' = watermark /\ hasMark' = hasMark /\ results' = results
        /\ arrived' = arrived /\ pending' = pending
    BY <1>3 DEF vars, Pushed, InOrder
  <2>2. /\ FullRange' = FullRange /\ Plain' = Plain /\ JustFlushed' = JustFlushed
        /\ \A t : PointsOf(t)' = PointsOf(t)
    BY <2>1 DEF FullRange, TimesPushed, Plain, JustFlushed, PointsOf
  <2>3. Batched(FullRange \ {watermark})' = Batched(FullRange \ {watermark})
    BY <2>1, <2>2 DEF Batched
  <2>4. Run' = Run
    BY <2>1 DEF Run
  <2>5. StreamInv' = StreamInv
    BY <2>1, <2>2, <2>3 DEF StreamInv
  <2>6. StreamMatchesBatch' = StreamMatchesBatch
    BY <2>1, <2>2, <2>4 DEF StreamMatchesBatch
  <2>. QED BY <1>1, <2>1, <2>5, <2>6 DEF BatchInv
<1>4. ASSUME NEW bt \in BucketTimes, Arrive(bt), watermark <= watermark',
             ~hasMark' => watermark' = 0,
             InOrder /\ Pushed = 1..calls /\ ~TooLong(0, watermark)
               /\ (\A i \in Pushed : arrived[i] <= bt) /\ ~TooLong(0, watermark')
               => StreamInv'
      PROVE  BatchInv'
  <2>1. InOrder' /\ Pushed' = 1..calls' /\ ~TooLong(0, watermark')
          => /\ InOrder /\ Pushed = 1..calls /\ ~TooLong(0, watermark)
             /\ \A i \in Pushed : arrived[i] <= bt
    BY <1>2, <1>4, PushInOrder
  <2>2. StreamInv'
    BY <1>4, <2>1 DEF StreamInv
  <2>3. ~JustFlushed'
    BY <1>2, <1>4, PushedPoints DEF JustFlushed
  <2>. QED BY <1>1, <1>4, <2>2, <2>3 DEF BatchInv, StreamMatchesBatch
<1>5. ASSUME InOrder, Pushed = 1..calls, ~TooLong(0, watermark)
      PROVE  /\ hasMark <=> calls > 0
             /\ hasMark => calls \in Pushed /\ arrived[calls] = watermark
  <2>1. (hasMark <=> calls > 0) /\ (calls > 0 => arrived[calls] = watermark)
    BY <1>5 DEF BatchInv, StreamInv
  <2>2. calls \in Nat
    BY BoundAssumption DEF BatchInv, OrderAll, TypeInv, TypeOK
  <2>. QED BY <1>5, <2>1, <2>2
<1>6. ASSUME NEW bt \in BucketTimes, DropLate(bt)
      PROVE  BatchInv'
  <2>1. Arrive(bt) /\ bt < Mark(bt) /\ watermark' = watermark /\ bt \in Nat
        /\ hasMark' = hasMark
    BY <1>6, BucketAssumption DEF DropLate
  <2>2. hasMark /\ bt < watermark
    BY <2>1 DEF Mark
  <2>. QED BY <1>1, <1>2, <1>4, <1>5, <2>1, <2>2
<1>7. ASSUME NEW bt \in BucketTimes, Join(bt)
      PROVE  BatchInv'
  <2>1. /\ Arrive(bt) /\ watermark' = Mark(bt) /\ hasMark' = TRUE /\ bt \in Nat
        /\ bt = Mark(bt) \/ (bt < Mark(bt) /\ bt \in Open)
        /\ pending' = [pending EXCEPT ![bt] = @ \cup {calls + 1}] /\ results' = results
    BY <1>7, BucketAssumption DEF Join
  <2>2. bt = Mark(bt)
    <3>1. bt \in Open => hasMark /\ bt = watermark
      BY <1>1, OnlyMarkOpen DEF OrderAll, OrderInv
    <3>. QED BY <2>1, <3>1 DEF Mark
  <2>3. watermark' = bt /\ (hasMark => bt = watermark)
    BY <2>1, <2>2 DEF Mark
  <2>4. results' = Return({}, calls + 1)
        /\ pending' = [Forget({}) EXCEPT ![bt] = @ \cup {calls + 1}]
    <3>1. Forget({}) = pending
      BY <1>2 DEF Forget
    <3>. QED BY <2>1, <3>1 DEF Return
  <2>5. watermark <= watermark'
    BY <1>1, <1>2, <2>1, <2>3 DEF Mark
  <2>. QED BY <1>1, <1>2, <1>4, <2>1, <2>3, <2>4, <2>5, StreamGrows
<1>8. ASSUME NEW bt \in BucketTimes, Advance(bt)
      PROVE  BatchInv'
  <2>. DEFINE D == {t \in Open : t < bt - Grace}
              U == {bt - Grace - Span}
              T == Closing(D, U)
  <2>1. /\ Arrive(bt) /\ bt > Mark(bt) /\ watermark' = bt /\ hasMark' = hasMark
        /\ results' = Return(T, calls + 1)
        /\ pending' = [Forget(T) EXCEPT ![bt] = @ \cup {calls + 1}] /\ bt \in Nat
    BY <1>8, BucketAssumption DEF Advance, AdvanceWith
  <2>2. hasMark /\ watermark < bt /\ hasMark' = TRUE /\ watermark <= bt /\ bt # watermark
    BY <1>2, <2>1 DEF Mark
  <2>d. D = {t \in Open : t < bt - Grace} /\ U = {bt - Grace - Span}
    OBVIOUS
  <2>3. ASSUME InOrder, Pushed = 1..calls, ~TooLong(0, watermark), ~TooLong(0, bt)
        PROVE  T = IF GapFill THEN Steps(watermark, bt - Span) ELSE {watermark}
    <3>1. watermark \in Open
      <4>1. pending[watermark] = PointsOf(watermark) /\ calls \in PointsOf(watermark)
        BY <1>5, <2>2, <2>3 DEF BatchInv, StreamInv, PointsOf
      <4>. QED BY <1>2, <4>1 DEF Open
    <3>2. D = {watermark}
      <4>1. bt - Grace = bt
        BY <2>1
      <4>2. \A t \in Open : t = watermark
        BY <1>1, OnlyMarkOpen
      <4>. QED BY <2>2, <3>1, <4>1, <4>2
    <3>3. CASE ~GapFill
      BY <3>2, <3>3 DEF Closing
    <3>4. CASE GapFill
      <4>1. ~TooLong(Min(D), LastTime(D, U))
        <5>1. D \subseteq 0..bt /\ U \subseteq (0 - Span)..bt /\ D \cup U \subseteq (0 - Span)..bt
              /\ D # {} /\ D \cup U # {} /\ 0 - Span \in Int /\ bt \in Int
          BY <1>2, <2>1, <2>2, <3>2, SpanAssumption
        <5>2. Min(D) \in D
          BY <5>1, MinExists
        <5>3. Max(D \cup U) \in D \cup U
          BY <5>1, MaxExists
        <5>4. Max(D \cup U) \in Int /\ Max(D \cup U) <= bt /\ Min(D) \in Int /\ 0 <= Min(D)
          BY <5>1, <5>2, <5>3, SpanAssumption
        <5>. QED BY <2>1, <2>3, <5>4, RunLengthInside DEF LastTime
      <4>. HIDE DEF D, U
      <4>2. Closing(D, U) = Steps(watermark, bt - Span)
        BY <1>1, <2>2, <2>d, <3>1, <3>4, <4>1, AdvanceCloses
      <4>. QED BY <3>4, <4>2
    <3>. QED BY <3>3, <3>4
  <2>. HIDE DEF T
  <2>4. InOrder /\ Pushed = 1..calls /\ ~TooLong(0, watermark) /\ ~TooLong(0, bt)
          => StreamInv'
    <3>. SUFFICES ASSUME InOrder, Pushed = 1..calls, ~TooLong(0, watermark), ~TooLong(0, bt)
                  PROVE  StreamInv'
      OBVIOUS
    <3>1. T = IF GapFill THEN Steps(watermark, bt - Span) ELSE {watermark}
      BY <2>3
    <3>. QED BY <1>1, <2>1, <2>2, <3>1, StreamGrows
  <2>. QED BY <1>4, <2>1, <2>2, <2>4
<1>9. ASSUME Flush
      PROVE  BatchInv'
  <2>1. StreamMatchesBatch'
    BY <1>1, <1>9, FlushMatches
  <2>2. StreamInv'
    <3>1. calls' \in 1..calls' /\ calls' = calls + 1 /\ calls + 1 \in 1..MaxCalls
          /\ arrived' = arrived
      <4>1. MaxCalls \in Nat /\ calls \in 0..MaxCalls
        BY BoundAssumption DEF BatchInv, OrderAll, TypeInv, TypeOK
      <4>. QED BY <1>9, <4>1 DEF Flush
    <3>2. calls \in Nat
      BY BoundAssumption DEF BatchInv, OrderAll, TypeInv, TypeOK
    <3>3. arrived[calls + 1] = NoPoint
      BY <3>1, <3>2 DEF BatchInv, ConsInv, Unpushed
    <3>4. calls' \notin Pushed'
      BY <3>1, <3>3 DEF Pushed
    <3>. QED BY <3>1, <3>4 DEF StreamInv
  <2>3. ~hasMark' => watermark' = 0
    BY <1>1, <1>9 DEF Flush
  <2>. QED BY <1>1, <2>1, <2>2, <2>3 DEF BatchInv
<1>. QED BY <1>3, <1>6, <1>7, <1>8, <1>9 DEF Next, Push

\* Without a grace period, points pushed in bucket order and then flushed are
\* reported as Run reports them in one batch, if their range is short enough to
\* fill.
THEOREM BatchCorrect == Grace = 0 /\ Spec => []StreamMatchesBatch
<1>. SUFFICES ASSUME Grace = 0 PROVE Spec => []StreamMatchesBatch
  OBVIOUS
<1>1. BatchInv /\ [Next]_vars => BatchInv'
  BY BatchNext
<1>2. BatchInv => StreamMatchesBatch
  BY DEF BatchInv
<1>. QED BY BatchInit, <1>1, <1>2, PTL DEF Spec

=============================================================================
