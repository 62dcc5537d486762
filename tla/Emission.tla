------------------------------ MODULE Emission ------------------------------
(***************************************************************************)
(* What the engine makes of a closed bucket (engine/engine.go,             *)
(* autothreshold.go, ensemble.go): the values of its series, their scores, *)
(* the models that learn them, and the records that pass the threshold,    *)
(* the adaptive bar, the rules and the feedback; the threshold that is     *)
(* learned from the raw scores; the interim scores of an open bucket; and  *)
(* the renormalization and the ensemble of finished results.               *)
(*                                                                         *)
(* BucketStream says when a bucket closes, SeriesCache which models are    *)
(* evicted, Baseline how a model scores: here a model is the values it has *)
(* learned and Judge(history, value) its verdict, a record of a score, of  *)
(* a typical value and of a severity, -log10 of the probability.  A name   *)
(* is a number, by its alphabetical order, 0 the empty one.                *)
(***************************************************************************)
EXTENDS JobSpec

CONSTANTS Detectors,        \* job.Detectors, a sequence of records
          BucketPoints,     \* what a bucket may hold: sequences of points
          JobCalendars,     \* job.Calendars
          AutoThreshold,    \* job.AutoThreshold: [on, calibration, min, max]
          Sensitive,        \* job.Sensitivity > 0
          Judge(_, _), Entropy(_), RareScore(_, _, _, _), Quantile(_), SpotLevel(_),
          DefaultThreshold, \* 50
          PenaltyStep, PenaltyMax,       \* 8 and 40
          AdaptiveWindow, AdaptiveMin,   \* 512 and 20
          RareWarmup, RareMaxBuckets, MaxRareValues,   \* 20, 2 and 100000
          FullScale,        \* 12 decades
          MaxClosed, MaxMarks, MaxPeeks  \* bounds: buckets, reports, reads

ASSUME DetectorsAssumption == Len(Detectors) \in Nat /\ DOMAIN Detectors = 1..Len(Detectors)
ASSUME PenaltyAssumption == PenaltyStep \in Nat /\ PenaltyMax \in Nat
ASSUME RecordsAssumption == FullScale \in Nat \ {0} /\ RareMaxBuckets \in Nat

VARIABLE emission
emissionVars == <<emission>>

Lookup(f, k, none) == IF k \in DOMAIN f THEN f[k] ELSE none
Put(f, k, v) == [j \in DOMAIN f \cup {k} |-> IF j = k THEN v ELSE f[j]]
LastOf(s, n) == IF Len(s) > n THEN SubSeq(s, Len(s) - n + 1, Len(s)) ELSE s
Empty == [k \in {} |-> 0]

-----------------------------------------------------------------------------
(* The points of a bucket, grouped.                                        *)
SeriesKey(d, p) == <<IF d.part = 0 THEN 0 ELSE p.part, IF d.by = 0 THEN 0 ELSE p.by, 0>>
GroupedBy(pts, key(_)) ==
    [k \in {key(pts[i]) : i \in DOMAIN pts} |-> SelectSeq(pts, LAMBDA p : key(p) = k)]
Present(pts, fld) == SelectSeq(pts, LAMBDA p : p.vals[fld] # NoLimit)
FieldValues(pts, fld) == [i \in DOMAIN pts |-> pts[i].vals[fld]]
ValueOr(p, fld, none) == IF p.vals[fld] = NoLimit THEN none ELSE p.vals[fld]

(* aggregate and rateValue: a point without the field counts as its Value, *)
(* the sum of a rate is one per second of the bucket (a second here).      *)
ValueOf(d, pts) == BucketValue(d, [i \in DOMAIN pts |-> ValueOr(pts[i], 1, pts[i].value)])

(* dominant and influencers: the fields of the first point                 *)
InfluencersOf(d, pts) ==
    IF pts = <<>> THEN Empty
    ELSE (IF d.part # 0 THEN Put(Empty, "part", pts[1].part) ELSE Empty)
         @@ (IF d.by # 0 THEN Put(Empty, "by", pts[1].by) ELSE Empty)

(* A series is <<partition, by, over>>.                                    *)
(* An observation: the model's key, the series, the value, the rank of the *)
(* learning order, and whether it is learned and gated adaptively.         *)
Obs(key, series, val, rank, learn, gate, infl) ==
    [key |-> key, series |-> series, val |-> val, rank |-> rank, learn |-> learn,
     gate |-> gate, infl |-> infl]

(* scoreTemporal: the empty series and the known ones count as zero        *)
Temporal(known, d, pts) ==
    LET groups == GroupedBy(pts, LAMBDA p : SeriesKey(d, p))
        zeros  == (IF CountsEmptyAsZero(d) THEN {<<0, 0, 0>>} ELSE {})
                  \cup (IF CountFamilySplit(d) THEN Lookup(known, d.id, {}) ELSE {}) IN
    {Obs(<<d.id, sk, 0>>, sk, ValueOf(d, Lookup(groups, sk, <<>>)), 0,
         d.plain => ~SkipLearn(d.rules, ValueOf(d, Lookup(groups, sk, <<>>))), TRUE,
         InfluencersOf(d, Lookup(groups, sk, <<>>)))
       : sk \in {k \in DOMAIN groups \cup zeros : ValueOf(d, Lookup(groups, k, <<>>)) # NoAggregate}}

(* scoreRatio: sums of two fields, missing ones as nothing                 *)
Ratio(d, pts) ==
    LET groups == GroupedBy(pts, LAMBDA p : SeriesKey(d, p))
        sum(k, fld) == SumOver([i \in DOMAIN groups[k] |-> ValueOr(groups[k][i], fld, 0)]) IN
    {Obs(<<d.id, sk, 0>>, sk, IF sum(sk, 2) < 0 THEN <<-sum(sk, 1), -sum(sk, 2)>>
                           ELSE <<sum(sk, 1), sum(sk, 2)>>, 0, TRUE, TRUE, InfluencersOf(d, groups[sk]))
       : sk \in {k \in DOMAIN groups : sum(k, 2) # 0}}

(* scorePopulation and scorePopulationSplit: all entities of a split share *)
(* a model and are judged before it learns any of them, in their order.    *)
Population(d, pts) ==
    LET over == SelectSeq(pts, LAMBDA p : p.over # 0)
        groups == GroupedBy(over, LAMBDA p : [SeriesKey(d, p) EXCEPT ![3] = p.over])
        val(k) == Aggregate(d.fn, [i \in DOMAIN groups[k] |-> ValueOr(groups[k][i], 1, groups[k][i].value)]) IN
    {Obs(<<d.id, [k EXCEPT ![3] = 0], 0>>, k, val(k), k[3], TRUE, FALSE,
         Put(InfluencersOf(d, groups[k]), "over", k[3]))
       : k \in {x \in DOMAIN groups : val(x) # NoAggregate}}

(* scoreMultivariate and scoreGeo: every field, or both coordinates of one *)
(* point, must be there.                                                   *)
Multivariate(d, pts) ==
    LET groups == GroupedBy(pts, LAMBDA p : SeriesKey(d, p)) IN
    {Obs(<<d.id, sk, 0>>, sk, Aggregate("mean", FieldValues(Present(groups[sk], 1), 1))
                           \o Aggregate("mean", FieldValues(Present(groups[sk], 2), 2)),
         0, TRUE, FALSE, Empty)
       : sk \in {k \in DOMAIN groups : \A fld \in 1..2 : Present(groups[k], fld) # <<>>}}

Geo(d, pts) ==
    LET both(p) == p.vals[1] # NoLimit /\ p.vals[2] # NoLimit
        groups == GroupedBy(pts, LAMBDA p : SeriesKey(d, p)) IN
    {Obs(<<d.id, sk, 0>>, sk, Aggregate("mean", FieldValues(SelectSeq(groups[sk], both), 1))
                           \o Aggregate("mean", FieldValues(SelectSeq(groups[sk], both), 2)),
         0, TRUE, FALSE, InfluencersOf(d, groups[sk]))
       : sk \in {k \in DOMAIN groups : SelectSeq(groups[k], both) # <<>>}}

(* scoreInfoContent: the entropy of the by field in each partition         *)
InfoContent(d, pts) ==
    LET groups == GroupedBy(pts, LAMBDA p : p.part) IN
    {Obs(<<d.id, <<pt, 0, 0>>, 0>>, <<pt, 0, 0>>, <<Entropy(SelectSeq([i \in DOMAIN groups[pt] |-> groups[pt][i].by],
                                                   LAMBDA x : x # 0)), 1>>, 0, TRUE, FALSE, Empty)
       : pt \in DOMAIN groups}

(* scoreTimeOf: the count of a series in its slot of the day or the week   *)
TimeOf(d, t, pts) ==
    LET slot == (t \div HourLen) % ((IF d.fn = "time_of_week" THEN WeekLen ELSE DayLen) \div HourLen)
        groups == GroupedBy(pts, LAMBDA p : SeriesKey(d, p)) IN
    {Obs(<<d.id, sk, slot>>, sk, <<Len(groups[sk]), 1>>, 0, TRUE, FALSE, InfluencersOf(d, groups[sk]))
       : sk \in DOMAIN groups}

Observations(known, d, t, pts) ==
    CASE Path(d) = "multivariate" -> Multivariate(d, pts)
      [] Path(d) = "info"         -> InfoContent(d, pts)
      [] Path(d) = "time"         -> TimeOf(d, t, pts)
      [] Path(d) = "geo"          -> Geo(d, pts)
      [] Path(d) = "ratio"        -> Ratio(d, pts)
      [] Path(d) = "population"   -> Population(d, pts)
      [] OTHER                    -> Temporal(known, d, pts)

-----------------------------------------------------------------------------
(* admits, adaptiveAdmit and emit.                                         *)
RawMax(sofar, scores) == IF AutoThreshold.on THEN Max({sofar} \cup scores) ELSE sofar

AdaptiveScores(scores, threshold, d, judged) ==
    IF ~Sensitive \/ Path(d) \notin {"temporal", "ratio"} THEN scores
    ELSE LET obs == DOMAIN judged
             new == [k \in {o.key : o \in {x \in obs : judged[x].score >= threshold}} |->
                     LastOf(Append(Lookup(scores, k, <<>>),
                                  judged[CHOOSE o \in obs : o.key = k].score), AdaptiveWindow)] IN
         new @@ scores
PassesBar(scores, o, score) ==
    LET s == Lookup(scores, o.key, <<>>) IN
    ~Sensitive \/ ~o.gate \/ Len(s) < AdaptiveMin \/ score >= Quantile(s)

Penalty(e, d, series) == Min({PenaltyMax, PenaltyStep * Lookup(e.feedback, <<d.id, series>>, 0)})

Emitted(e, d, r) ==
    /\ ~IsSuppressed(JobCalendars, d.rules, r)
    /\ Penalty(e, d, r.series) > 0 => r.score >= e.threshold + Penalty(e, d, r.series)

(* A score without a probability takes the one that renormalizes to it.    *)
SeverityOf(j) ==
    IF j.sev = NoLimit /\ j.score > 0 THEN (Min({j.score, 100}) * FullScale) \div 100 ELSE j.sev
RecordOf(d, t, o, j) ==
    [det |-> d.id, series |-> o.series, time |-> t, actual |-> o.val, typical |-> j.typical,
     score |-> j.score, sev |-> SeverityOf(j), infl |-> o.infl, initial |-> 0]

-----------------------------------------------------------------------------
(* scoreRare and evictCommon: the values seen in most buckets go first.    *)
NewTracker == [buckets |-> 0, seen |-> Empty]
LessCommon(seen, keep) ==
    LET after(v) == {w \in DOMAIN seen : seen[w] < seen[v] \/ (seen[w] = seen[v] /\ w > v)} IN
    Restrict(seen, {v \in DOMAIN seen : Cardinality(after(v)) < keep})

RareTracked(tr, present) ==
    LET kept == IF Cardinality(DOMAIN tr.seen) > MaxRareValues
                THEN LessCommon(tr.seen, (MaxRareValues * 9) \div 10) ELSE tr.seen IN
    [buckets |-> tr.buckets + 1,
     seen |-> [v \in DOMAIN kept \cup present |->
                 Lookup(kept, v, 0) + (IF v \in present THEN 1 ELSE 0)]]

IsRareBelow(tr, v) ==   \* faulty variant: the limit itself is common
    tr.buckets >= RareWarmup /\ tr.seen[v] < RareMaxBuckets
IsRare(tr, v) == tr.buckets >= RareWarmup /\ tr.seen[v] <= RareMaxBuckets

RarePresent(pts) == {pts[i].by : i \in DOMAIN pts} \ {0}
RareRecord(d, t, tr, v, pts) ==
    LET count == Cardinality({i \in DOMAIN pts : pts[i].by = v}) IN
    RecordOf(d, t, [series |-> <<0, v, 0>>, val |-> <<count, 1>>, infl |-> Put(Empty, "by", v)],
             RareScore(d.fn, tr.seen[v], tr.buckets, count))

ScoreRare(acc, d, t, pts) ==
    LET tr   == RareTracked(Lookup(acc.e.rare, d.id, NewTracker), RarePresent(pts))
        recs == {RareRecord(d, t, tr, v, pts) : v \in {w \in RarePresent(pts) : IsRare(tr, w)}} IN
    [e |-> [acc.e EXCEPT !.rare = Put(@, d.id, tr),
                         !.rawMax = RawMax(@, {r.score : r \in recs})],
     recs |-> acc.recs \cup {r \in recs : r.score >= acc.e.threshold /\ Emitted(acc.e, d, r)}]

(* One detector of a bucket: all of its series are judged by the models as *)
(* they were, but for a population's they are its own.                     *)
JudgedBy(models, obs) == [o \in obs |-> Judge(Lookup(models, o.key, <<>>), o.val)]
LearnedInOrder(obs) ==
    LET order == SetToSortSeq(obs, LAMBDA a, b : a.rank < b.rank) IN
    [i \in DOMAIN order |-> order[i].val]

TakeScores(acc, d, t, judged, bars) ==
    LET obs    == DOMAIN judged
        passed == {o \in obs : judged[o].score >= acc.e.threshold /\ PassesBar(bars, o, judged[o].score)} IN
    [e |-> [acc.e EXCEPT
              !.models = [k \in {o.key : o \in obs} |-> Lookup(@, k, <<>>) \o
                             LearnedInOrder({o \in obs : o.key = k /\ o.learn})] @@ @,
              !.known  = IF CountFamilySplit(d)
                         THEN Put(@, d.id, Lookup(@, d.id, {}) \cup {o.series : o \in obs}) ELSE @,
              !.scores = bars, !.rawMax = RawMax(@, {judged[o].score : o \in obs})],
     recs |-> acc.recs \cup {r \in {RecordOf(d, t, o, judged[o]) : o \in passed} : Emitted(acc.e, d, r)}]

ScoreJudged(acc, d, t, judged) ==
    TakeScores(acc, d, t, judged, AdaptiveScores(acc.e.scores, acc.e.threshold, d, judged))
ScoreSeries(acc, d, t, pts) ==
    ScoreJudged(acc, d, t, JudgedBy(acc.e.models, Observations(acc.e.known, d, t, pts)))
ScoreOne(acc, d, t, pts) ==
    IF Path(d) = "rare" THEN ScoreRare(acc, d, t, pts) ELSE ScoreSeries(acc, d, t, pts)

(* scoreBucket: the largest score starts at 0, and nothing is scored or    *)
(* learned in a calendar's window.                                         *)
OpenedAsLeft(e) == e   \* faulty variant: the largest score of a read stays
Opened(e) == [e EXCEPT !.rawMax = 0]
ScoreBucket(e, t, pts) ==
    LET start == [e |-> Opened(e), recs |-> {}]
        after[i \in 0..Len(Detectors)] ==
            IF i = 0 THEN start ELSE ScoreOne(after[i - 1], Detectors[i], t, pts) IN
    IF InCalendar(JobCalendars, t) THEN start ELSE after[Len(Detectors)]

(* observeThreshold and autoThreshold.observe: the bucket's largest score  *)
(* calibrates or feeds the SPOT, whose level, clamped, is the threshold.   *)
Clamp(x) == IF x < AutoThreshold.min THEN AutoThreshold.min
            ELSE IF x > AutoThreshold.max THEN AutoThreshold.max ELSE x
ObserveThreshold(e) ==
    LET fed   == Append(IF e.spot = <<>> THEN e.warm ELSE e.spot, e.rawMax)
        full  == AutoThreshold.calibration
        ready == e.spot # <<>> \/ (Len(fed) >= full /\ SpotLevel(fed) # NoLimit)
        shed  == IF Len(fed) >= 8 * full THEN LastOf(fed, 4 * full) ELSE fed IN
    IF ~AutoThreshold.on THEN e
    ELSE IF ready
    THEN [e EXCEPT !.rawMax = 0, !.warm = <<>>, !.spot = fed, !.threshold = Clamp(SpotLevel(fed))]
    ELSE [e EXCEPT !.rawMax = 0, !.warm = shed]

(* Interim and scoreTemporalPeek: plain detectors only, nothing learned,   *)
(* but admits keeps the largest score.                                     *)
InterimEligible(d) == Path(d) = "temporal" /\ d.plain
Peeked(e, t, pts) ==
    LET scores == {Judge(e.models[o.key], o.val).score :
                     o \in {x \in UNION {Temporal(Empty, Detectors[i], pts) :
                                           i \in {j \in DOMAIN Detectors : InterimEligible(Detectors[j])}}
                              : x.key \in DOMAIN e.models}} IN
    IF InCalendar(JobCalendars, t) THEN e ELSE [e EXCEPT !.rawMax = RawMax(@, scores)]

-----------------------------------------------------------------------------
(* RenormalizeResults: an anchor is never below the full scale nor, as a   *)
(* severity is capped, above it.                                           *)
SevOf(r) == IF r.sev = NoLimit THEN FullScale ELSE Min({FullScale, r.sev})
Renormalized(r) ==
    [r EXCEPT !.initial = IF @ = 0 THEN r.score ELSE @, !.score = Min({(SevOf(r) * 100) \div FullScale, 100})]
BucketScore(recs) == Max({0} \cup {r.score : r \in recs})
Renormalize(b) ==
    LET recs == {Renormalized(r) : r \in b.recs} IN
    [recs |-> recs, score |-> BucketScore(recs), initial |-> IF b.initial = 0 THEN b.score ELSE b.initial]

(* Ensemble: one record per series, the evidence of its records added up.  *)
Ensemble(recs) ==
    [s \in {r.series : r \in recs} |-> MapThenSumSet(LAMBDA r : SevOf(r), {r \in recs : r.series = s})]

-----------------------------------------------------------------------------
(* An engine, and two that differ from it in one thing: one without any    *)
(* report of false positives, and one that is never read before a bucket   *)
(* closes.                                                                 *)
NewEngine ==
    [models |-> Empty, rare |-> Empty, known |-> Empty, scores |-> Empty, feedback |-> Empty,
     threshold |-> DefaultThreshold, rawMax |-> 0, warm |-> <<>>, spot |-> <<>>]

EmissionInit == emission = [kind |-> "none"]

MakeEngine ==
    /\ emission.kind = "none"
    /\ emission' = [kind |-> "engine", e |-> NewEngine, plain |-> NewEngine, unread |-> NewEngine,
                    closed |-> 0, marks |-> 0, peeks |-> 0, log |-> <<>>,
                    at |-> NewEngine, recs |-> {}, plainRecs |-> {}]

TakeOver(pts, scored) ==   \* the engines' scores of the bucket, and their records
    emission' = [emission EXCEPT
        !.e = ObserveThreshold(scored.e.e), !.plain = ObserveThreshold(scored.plain.e),
        !.unread = ObserveThreshold(scored.unread.e), !.at = emission.e,
        !.closed = @ + 1, !.log = Append(@, pts),
        !.recs = scored.e.recs, !.plainRecs = scored.plain.recs]

CloseBucket(pts) ==
    /\ emission.kind = "engine" /\ emission.closed < MaxClosed
    /\ TakeOver(pts, [x \in {"e", "plain", "unread"} |->
                        ScoreBucket(emission[x], emission.closed, pts)])

PeekInterim(pts) ==
    /\ emission.kind = "engine" /\ emission.peeks < MaxPeeks
    /\ emission' = [emission EXCEPT !.e = Peeked(@, emission.closed, pts), !.peeks = @ + 1,
                                    !.plain = Peeked(@, emission.closed, pts)]

MarkFalsePositive(i, series) ==
    /\ emission.kind = "engine" /\ emission.marks < MaxMarks
    /\ emission' = [emission EXCEPT !.marks = @ + 1,
          !.e.feedback = Put(@, <<Detectors[i].id, series>>, Lookup(@, <<Detectors[i].id, series>>, 0) + 1)]

ClearFeedback(i, series) ==
    /\ emission.kind = "engine" /\ <<Detectors[i].id, series>> \in DOMAIN emission.e.feedback
    /\ emission' = [emission EXCEPT
          !.e.feedback = Restrict(@, DOMAIN @ \ {<<Detectors[i].id, series>>})]

EmissionNext ==
    \/ MakeEngine
    \/ \E pts \in BucketPoints : CloseBucket(pts) \/ PeekInterim(pts)
    \/ \E r \in (IF emission.kind = "engine" THEN emission.recs ELSE {}), i \in DOMAIN Detectors :
         /\ Detectors[i].id = r.det
         /\ MarkFalsePositive(i, r.series) \/ ClearFeedback(i, r.series)

-----------------------------------------------------------------------------
(* Feedback silences and does nothing else: whatever is reported as a      *)
(* false positive and cleared again, models, rare values, adaptive bars    *)
(* and the learned threshold are those of an engine without reports, and   *)
(* of its records exactly those below the penalised bar are missing.       *)
FeedbackOnlySilences ==
    emission.kind = "engine" =>
      LET Kept == {"models", "rare", "known", "scores", "threshold", "spot", "warm"} IN
      /\ Restrict(emission.e, Kept) = Restrict(emission.plain, Kept)
      /\ emission.recs = {r \in emission.plainRecs :
            LET reports == Lookup(emission.at.feedback, <<r.det, r.series>>, 0)
                less    == Min({PenaltyMax, PenaltyStep * reports}) IN
            /\ r.score >= emission.at.threshold
            /\ less > 0 => r.score >= emission.at.threshold + less}

(* Reading an open bucket, any number of times and whatever it holds then, *)
(* leaves every baseline and the learned threshold as they would be.       *)
PeeksTeachNothing ==
    emission.kind = "engine" =>
      LET Kept == {"models", "rare", "known", "scores", "threshold", "spot", "warm"} IN
      Restrict(emission.e, Kept) = Restrict(emission.unread, Kept)

(* No rare value is missed: a value that appeared in no more than          *)
(* RareMaxBuckets of the buckets so far is reported when the warm-up is    *)
(* over, whatever the table of seen values had to drop meanwhile, with a   *)
(* count of the buckets it was seen in that is never too high; unless its  *)
(* score is below the threshold or a rule speaks against it.  Detectors    *)
(* with one ID share one table and each counts every bucket: a value of so *)
(* few buckets that all of them together have counted it no more than      *)
(* RareMaxBuckets times is reported by the last of them.                   *)
Sharing(d) == {i \in DOMAIN Detectors : Path(Detectors[i]) = "rare" /\ Detectors[i].id = d.id}
Appeared(log, v) ==
    Cardinality({i \in DOMAIN log :
                   ~InCalendar(JobCalendars, i - 1)
                   /\ \E j \in DOMAIN log[i] : log[i][j].by = v})
RareTold(d, t, tr, pts, threshold, recs, v) ==
    LET r == RareRecord(d, t, tr, v, pts) IN
    r.score >= threshold /\ ~IsSuppressed(JobCalendars, d.rules, r) => r \in recs
RareNeverMissed ==
    (emission.kind = "engine" /\ emission.closed > 0 /\ ~InCalendar(JobCalendars, emission.closed - 1)) =>
      LET last == emission.log[emission.closed]  t == emission.closed - 1 IN
      \A i \in DOMAIN Detectors : Path(Detectors[i]) = "rare" =>
        LET d == Detectors[i]  tr == emission.e.rare[d.id]
            most(v) == Cardinality(Sharing(d)) * Appeared(emission.log, v) IN
        \A v \in RarePresent(last) :
          /\ tr.seen[v] \in 1..most(v)
          /\ (/\ \A j \in Sharing(d) : j <= i
              /\ tr.buckets >= RareWarmup /\ most(v) <= RareMaxBuckets) =>
               RareTold(d, t, tr, last, emission.at.threshold, emission.plainRecs, v)

(* Renormalized results keep their first scores and their order: a more    *)
(* severe record never comes out below a less severe one, the bucket has   *)
(* the score of its worst record, and a series the evidence of each of its *)
(* records.                                                                *)
RenormalizedInOrder ==
    emission.kind = "engine" =>
      LET all == Renormalize([recs |-> emission.recs, score |-> BucketScore(emission.recs), initial |-> 0]) IN
      /\ {r.initial : r \in all.recs} = {r.score : r \in emission.recs}
      /\ \A r, q \in all.recs : r.sev >= q.sev => r.score >= q.score
      /\ \A q \in all.recs : q.score <= all.score
      /\ \A r \in all.recs : Ensemble(all.recs)[r.series] >= SevOf(r)

(* skip_model_update: a bucket that matches is reported but not learned    *)
SkippedNotLearned ==
    emission.kind = "engine" =>
      \A i \in DOMAIN Detectors : \A k \in DOMAIN emission.e.models :
        k[1] = Detectors[i].id =>
          \A j \in DOMAIN emission.e.models[k] :
             ~SkipLearn(Detectors[i].rules, emission.e.models[k][j])
=============================================================================
