------------------------------- MODULE Ranking -------------------------------
(***************************************************************************)
(* Rankings that are learned or aggregated: the alarm ranker trained on    *)
(* operators' labels (rank/rank.go), the influencers of a job's records    *)
(* (correlate/influencers.go) and the candidates that lead a series        *)
(* (correlate/causality.go).                                               *)
(*                                                                         *)
(* Weights and features are integers.  The error of a prediction is kept   *)
(* by its sign and one of Errors; the sigmoid, being increasing, is left   *)
(* out of comparisons.                                                     *)
(***************************************************************************)
EXTENDS Integers, FiniteSets, Sequences, FiniteSetsExt, SequencesExt

CONSTANTS Unknown,       \* a feature that is not a number
          NoValue,       \* an influencer without a value
          Spelled(_, _), \* how a field and a value rank, written one after the other
          Directions,    \* a tuple over {-1, 0, 1}, one for each feature
          FeatureValues, \* the finite values of a feature
          Errors,        \* magnitudes of |Score - y|
          MaxWeight,     \* bound: magnitude of a weight
          MaxExamples,   \* bound: labelled examples of a calibration
          Rates,         \* maxFalseRate as <<numerator, denominator>>
          InfRecords,    \* [score, infl]: a record and its influencers <<field, value, share>>
          Measures       \* [label, lag, corr, improvement] of the candidates of a series

ASSUME RankingAssumption ==
    /\ Directions \in Seq({-1, 0, 1})
    /\ FeatureValues \subseteq Int /\ Unknown \notin FeatureValues
    /\ Errors \subseteq Nat /\ MaxWeight \in Nat /\ MaxExamples \in Nat
    /\ Rates \subseteq Nat \X (Nat \ {0})
    /\ \A r \in InfRecords :
          /\ r.score \in Nat
          /\ Len(r.infl) \in Nat /\ DOMAIN r.infl = 1..Len(r.infl)
          /\ \A k \in DOMAIN r.infl :
                r.infl[k][3] \in Int /\ Spelled(r.infl[k][1], r.infl[k][2]) \in Int
    /\ \A m \in Measures : {m.label, m.lag, m.corr, m.improvement} \subseteq Int
    /\ \A m, o \in Measures : m.label = o.label => m = o

VARIABLE ranking
rankingVars == <<ranking>>

Coords   == DOMAIN Directions
Features == [Coords -> FeatureValues \cup {Unknown}]
Clip(w)  == IF w > MaxWeight THEN MaxWeight ELSE IF w < -MaxWeight THEN -MaxWeight ELSE w

(* Score: a feature that is not a number counts for nothing.               *)
Logit(m, f) == m.b + MapThenSumSet(LAMBDA i : IF f[i] = Unknown THEN 0 ELSE m.w[i] * f[i], Coords)

(* project: a weight of the wrong sign is clamped to zero.                 *)
ProjectedUp(w) ==   \* faulty variant: only weights that must not be negative
    [i \in Coords |-> IF Directions[i] > 0 /\ w[i] < 0 THEN 0 ELSE w[i]]
Projected(w) ==
    [i \in Coords |-> IF Directions[i] * w[i] < 0 THEN 0 ELSE w[i]]

(* Learn, for an error of the sign of (predicted - label); the decay of a  *)
(* weight takes less than one from it, or one.                             *)
Descent(m, f, err, decay) ==
    [w |-> Projected([i \in Coords |->
              IF f[i] = Unknown THEN m.w[i]
              ELSE Clip(m.w[i] - err * f[i] - (IF m.w[i] > 0 THEN decay
                                               ELSE IF m.w[i] < 0 THEN -decay ELSE 0))]),
     b |-> Clip(m.b - err), seen |-> m.seen + 1]

(* resolve: a model saved with fewer features gets zero weights for the    *)
(* others.                                                                 *)
Resized(w, n) == [i \in Coords |-> IF i <= n THEN w[i] ELSE 0]

(* Threshold: the cut, among the examples' scores, that keeps the most of  *)
(* them with at most the asked share not real; the first of several.       *)
NoCut == [cut |-> 0, kept |-> -1]
Kept(examples, cut) == {i \in DOMAIN examples : examples[i].score >= cut}
Honest(examples, rate, cut) ==
    Cardinality({i \in Kept(examples, cut) : ~examples[i].real}) * rate[2]
       <= rate[1] * Cardinality(Kept(examples, cut))
Bettered(examples, rate, best, cut) ==
    IF Honest(examples, rate, cut) /\ Cardinality(Kept(examples, cut)) > best.kept
    THEN [cut |-> cut, kept |-> Cardinality(Kept(examples, cut))] ELSE best
BestBar(examples, rate) ==
    FoldLeft(LAMBDA best, ex : Bettered(examples, rate, best, ex.score), NoCut, examples)

(* RankInfluencers: totals by field and value, a share of at most zero     *)
(* counting as one.                                                        *)
Mentions(records) == UNION {{<<r, k>> : k \in DOMAIN records[r].infl} : r \in DOMAIN records}
Mentioned(records, p) == records[p[1]].infl[p[2]]
NameAt(records, p) == <<Mentioned(records, p)[1], Mentioned(records, p)[2]>>
Weighed(records, p) ==
    LET share == Mentioned(records, p)[3] IN
    records[p[1]].score * (IF share <= 0 THEN 1 ELSE share)
MentionsOf(records, name) == {p \in Mentions(records) : NameAt(records, p) = name}
Tally(records, name) ==
    LET of == MentionsOf(records, name) IN
    [key |-> name, records |-> Cardinality(of),
     total |-> MapThenSumSet(LAMBDA p : Weighed(records, p), of),
     max |-> Max({0} \cup {records[p[1]].score : p \in of})]
Names(records) == {n \in {NameAt(records, p) : p \in Mentions(records)} : n[2] # NoValue}
Tallies(records) == {Tally(records, name) : name \in Names(records)}
Outranks(a, b) ==
    \/ a.total > b.total
    \/ a.total = b.total /\ a.max > b.max
    \/ a.total = b.total /\ a.max = b.max /\ Spelled(a.key[1], a.key[2]) < Spelled(b.key[1], b.key[2])
\* The map's totals come in any order, and sort.Slice leaves none after one it outranks.
Influencers(records) ==
    LET all == Tallies(records) IN
    {out \in Bijection(1..Cardinality(all), all) :
       \A i, j \in DOMAIN out : i < j => ~Outranks(out[j], out[i])}

(* OrderByCausality: those that lead first, then by improvement and by     *)
(* strength; corr is in tenths.                                            *)
Magnitude(x) == IF x < 0 THEN -x ELSE x
Leads(m) == m.lag >= 0 /\ Magnitude(m.corr) >= 3
Before(a, b) ==
    IF Leads(a) # Leads(b) THEN Leads(a)
    ELSE IF a.improvement # b.improvement THEN a.improvement > b.improvement
    ELSE IF Magnitude(a.corr) # Magnitude(b.corr) THEN Magnitude(a.corr) > Magnitude(b.corr)
    ELSE a.label < b.label
Placed(out, m) ==
    LET k == Cardinality({i \in DOMAIN out : ~Before(m, out[i])}) IN
    SubSeq(out, 1, k) \o <<m>> \o SubSeq(out, k + 1, Len(out))
OrderByCausality(measures) == FoldLeft(Placed, <<>>, measures)   \* an insertion sort is stable

-----------------------------------------------------------------------------
RankingInit == ranking = [kind |-> "none"]

NewModel ==
    /\ ranking.kind = "none"
    /\ ranking' = [kind |-> "model", m |-> [w |-> [i \in Coords |-> 0], b |-> 0, seen |-> 0]]

Learn(f, real, size, decay) ==
    /\ ranking.kind = "model" /\ ranking.m.seen < MaxExamples
    /\ ranking' = [ranking EXCEPT !.m = Descent(@, f, IF real THEN -size ELSE size, decay)]

LoadModel(n) ==
    /\ ranking.kind = "model"
    /\ ranking' = [ranking EXCEPT !.m.w = Resized(@, n)]

Calibrate(examples, rate) ==
    /\ ranking.kind = "none"
    /\ ranking' = [kind |-> "cut", examples |-> examples, rate |-> rate,
                   best |-> BestBar(examples, rate)]

Rank(records) ==
    /\ ranking.kind = "none"
    /\ \E out \in Influencers(records) :
          ranking' = [kind |-> "influencers", records |-> records, out |-> out]

Order(measures) ==
    /\ ranking.kind = "none"
    /\ ranking' = [kind |-> "lead", measures |-> measures, out |-> OrderByCausality(measures)]

Examples == UNION {[1..n -> [score : FeatureValues, real : BOOLEAN]] : n \in 1..MaxExamples + 1}

RankingNext ==
    \/ NewModel
    \/ \E f \in Features, real \in BOOLEAN, size \in Errors, decay \in 0..1 :
          Learn(f, real, size, decay)
    \/ \E n \in Coords : LoadModel(n)
    \/ \E ex \in Examples, rate \in Rates : Calibrate(ex, rate)
    \/ \E rs \in UNION {[1..n -> InfRecords] : n \in 1..3} : Rank(rs)
    \/ \E ms \in UNION {[1..n -> Measures] : n \in 1..3} : IsInjective(ms) /\ Order(ms)

-----------------------------------------------------------------------------
(* Whatever the labels taught, the ranker never learns against reason:     *)
(* raising a feature that must speak for an alarm does not lower its       *)
(* score, and one that must speak against it does not raise it.  The cut   *)
(* that calibration returns honours the false rate, and every cut that     *)
(* honours it keeps no more.                                               *)
RankerSound ==
    /\ ranking.kind = "model" =>
         \A f \in Features, i \in Coords, v \in FeatureValues :
            (f[i] # Unknown /\ v > f[i] /\ Directions[i] # 0) =>
              Directions[i] * (Logit(ranking.m, [f EXCEPT ![i] = v]) - Logit(ranking.m, f)) >= 0
    /\ ranking.kind = "cut" =>
         LET ex == ranking.examples  rate == ranking.rate
             honest(cut) == Honest(ex, rate, cut)
             cuts == {ex[i].score : i \in DOMAIN ex} IN
         IF ranking.best = NoCut THEN \A c \in cuts : ~honest(c)
         ELSE /\ honest(ranking.best.cut)
              /\ \A c \in cuts : honest(c) =>
                    Cardinality(Kept(ex, c)) <= Cardinality(Kept(ex, ranking.best.cut))

(* Rankings do not depend on the order records or candidates are met in    *)
(* (maps are iterated in any order).  Two rankings of the same influencers *)
(* have the same total, greatest score and spelling at every place: only   *)
(* names that are spelled alike, which the code has no order for, can      *)
(* change places.  Candidates have one order, and none that does not lead  *)
(* stands before one that does.                                            *)
Tied(a, b) == ~Outranks(a, b) /\ ~Outranks(b, a)
RankingsSettled ==
    /\ ranking.kind = "influencers" =>
         /\ ranking.out \in Influencers(Reverse(ranking.records))
         /\ \A out \in Influencers(Reverse(ranking.records)), i \in DOMAIN ranking.out :
               Tied(out[i], ranking.out[i])
    /\ ranking.kind = "lead" =>
         /\ OrderByCausality(Reverse(ranking.measures)) = ranking.out
         /\ \A i \in 1..Len(ranking.out) - 1 : Leads(ranking.out[i + 1]) => Leads(ranking.out[i])
=============================================================================
