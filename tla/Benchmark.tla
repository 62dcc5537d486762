----------------------------- MODULE Benchmark -----------------------------
(***************************************************************************)
(* The evaluation toolkit (benchmark/pointadjust.go, operating.go, nab.go, *)
(* audit.go, vus.go): the measures that the repository's own quality gates *)
(* are set on.  A series is a sequence of points, each with a label and a  *)
(* score; every measure is an operator, checked against what it is meant   *)
(* to say.                                                                 *)
(*                                                                         *)
(* A ratio is a pair <<numerator, denominator>>, 0/0 being 0 as in the     *)
(* code.  Times are naturals, and Sigmoid stands for scaledSigmoid.        *)
(***************************************************************************)
EXTENDS AlarmGuard, FiniteSetsExt

CONSTANTS MaxSweep,     \* thresholds tried: 512 in the code
          AuditLimit,   \* entries of an audit: 50 unless asked for otherwise
          MaxPoints,    \* bound: points of a series
          Full,         \* bound: the integer that stands for 1
          Sigmoid(_, _),\* scaledSigmoid of a quotient, scaled by Full
          Profiles,     \* NABProfile: [atp, afp, afn], small naturals
          WindowSets,   \* bound: the sequences of labelled <<start, end>> windows
          MaxTimes      \* bound: detections are at 0..MaxTimes

VARIABLE bench          \* [kind, points, windows, found]

LabelsOf(points) == [i \in DOMAIN points |-> points[i].label]
ScoresOf(points) == [i \in DOMAIN points |-> points[i].score]

AtLeast(r, s) == r[1] * s[2] >= s[1] * r[2]
Larger(r, s) == r[1] * s[2] > s[1] * r[2]

\* Faulty variant of Segments: a run that lasts to the end is not closed.
SegmentsClosed(marks) ==
    SetToSortSeq({s \in (DOMAIN marks) \X (DOMAIN marks) :
                     /\ s[1] <= s[2] /\ \A i \in s[1]..s[2] : marks[i]
                     /\ s[1] = 1 \/ ~marks[s[1] - 1]
                     /\ s[2] < Len(marks) /\ ~marks[s[2] + 1]}, LAMBDA s, r : s[1] < r[1])

(* Segments: the runs of TRUE, in order, as the loop finds them            *)
Segments(marks) ==
    LET n == Len(marks)
        scan == FoldLeftDomain(
            LAMBDA acc, i :
              IF marks[i] /\ acc.start = 0 THEN [acc EXCEPT !.start = i]
              ELSE IF ~marks[i] /\ acc.start > 0
              THEN [start |-> 0, out |-> Append(acc.out, <<acc.start, i - 1>>)]
              ELSE acc,
            [start |-> 0, out |-> <<>>], marks)
    IN IF scan.start > 0 THEN Append(scan.out, <<scan.start, n>>) ELSE scan.out

Hits(pred, seg) == Cardinality({i \in seg[1]..seg[2] : i \in DOMAIN pred /\ pred[i]})
SegmentsHit(marks, by) == {s \in ToSet(Segments(marks)) : Hits(by, s) > 0}

(* PointAdjustK, k = <<numerator, denominator>>; with 0 it is PointAdjust  *)
Adjusts(pred, seg, k) ==
    LET hits == Hits(pred, seg) IN
    IF k[1] <= 0 THEN hits > 0 ELSE hits * k[2] >= k[1] * (seg[2] - seg[1] + 1)

PointAdjustK(pred, labels, k) ==
    LET filled == UNION {s[1]..s[2] : s \in {s \in ToSet(Segments(labels)) : Adjusts(pred, s, k)}}
    IN [i \in DOMAIN labels |-> i \in filled \/ (i \in DOMAIN pred /\ pred[i])]

Confusion(pred, labels) ==
    [tp |-> Cardinality({i \in DOMAIN labels : labels[i] /\ pred[i]}),
     fn |-> Cardinality({i \in DOMAIN labels : labels[i] /\ ~pred[i]}),
     fp |-> Cardinality({i \in DOMAIN labels : ~labels[i] /\ pred[i]})]

F1(c) == <<2 * c.tp, IF 2 * c.tp + c.fp + c.fn = 0 THEN 1 ELSE 2 * c.tp + c.fp + c.fn>>

(* sweepThresholds: the distinct finite scores, thinned out past the cap   *)
SweepThresholds(scores) ==
    LET uniq == SetToSortSeq(ToSet(scores) \ {NotANumber, Infinite}, <) IN
    IF Len(uniq) <= MaxSweep THEN uniq
    ELSE [i \in 1..MaxSweep |-> uniq[((i - 1) * (Len(uniq) - 1)) \div (MaxSweep - 1) + 1]]

Predicted(scores, thr) == [i \in DOMAIN scores |-> Over(scores[i], thr)]

Measured(scores, labels, thr, k) ==
    Confusion(PointAdjustK(Predicted(scores, thr), labels, k), labels)

(* BestF1 (with plain = TRUE), BestPointAdjustedF1 and ..KF1: the first    *)
(* threshold of the sweep with the highest F1, never one with F1 = 0       *)
Judged(scores, labels, thr, plain, k) ==
    IF plain THEN Confusion(Predicted(scores, thr), labels)
             ELSE Measured(scores, labels, thr, k)

BestThreshold(scores, labels, plain, k) ==
    FoldLeft(LAMBDA best, thr :
                 LET f == F1(Judged(scores, labels, thr, plain, k)) IN
                 IF Larger(f, best.f1) THEN [f1 |-> f, thr |-> thr] ELSE best,
             [f1 |-> <<0, 1>>, thr |-> Infinite], SweepThresholds(scores))

(* AUCPR: down the scores, equal ones together, the precision times the    *)
(* gain of true positives; 0 without both labels.  The sum is over Common, *)
(* a common denominator.                                                   *)
Common == 12

AUCPR(scores, labels) ==
    LET uniq == SetToSortSeq(ToSet(scores), >)
        TP(thr) == Cardinality({i \in DOMAIN scores : labels[i] /\ scores[i] >= thr})
        All(thr) == Cardinality({i \in DOMAIN scores : scores[i] >= thr})
    IN IF \A i, j \in DOMAIN labels : labels[i] = labels[j] THEN 0
       ELSE FoldLeft(LAMBDA acc, thr :
                    [sum |-> acc.sum + (((TP(thr) - acc.tp) * TP(thr) * Common) \div All(thr)),
                     tp |-> TP(thr)],
                [sum |-> 0, tp |-> 0], uniq).sum

(* EventScore of one series: its events, its alarms and its regions; one   *)
(* without a label (Anomalies = 0) is skipped.                             *)
Labelled(labels) == \E i \in DOMAIN labels : labels[i]

EventScore(pred, labels) ==
    IF ~Labelled(labels)
    THEN [events |-> 0, eventsHit |-> 0, alarms |-> 0, falseAlarms |-> 0,
          regions |-> 0, falseRegions |-> 0]
    ELSE [events       |-> Len(Segments(labels)),
          eventsHit    |-> Cardinality(SegmentsHit(labels, pred)),
          alarms       |-> Cardinality(Fires(pred)),
          falseAlarms  |-> Cardinality({i \in Fires(pred) : ~labels[i]}),
          regions      |-> Len(Segments(pred)),
          falseRegions |-> Len(Segments(pred)) - Cardinality(SegmentsHit(pred, labels))]

NearestLabelledGap(labels, start, end) ==
    LET gap(g) == IF end < g[1] THEN g[1] - end ELSE IF start > g[2] THEN start - g[2] ELSE 0
    IN IF Segments(labels) = <<>> THEN -1 ELSE Min({gap(g) : g \in ToSet(Segments(labels))})

(* sort.SliceStable by falling score, as it goes for up to 20 entries: one *)
(* after the other is moved forward past those with a lower score, and NaN *)
(* is neither higher nor lower than any.                                   *)
Outscores(a, b) == a.score # NotANumber /\ b.score # NotANumber /\ a.score > b.score

SortedIn(out, e) ==
    InsertAt(out, Max({0} \cup {i \in DOMAIN out : ~Outscores(e, out[i])}) + 1, e)

Worst(entries) ==
    LET sorted == FoldLeft(SortedIn, <<>>, entries)
    IN  SubSeq(sorted, 1, Min({AuditLimit, Len(sorted)}))

(* Audit of one series: the policy's alarms grouped into regions, with     *)
(* falseOnly those off every label, the worst of them up to the limit      *)
Audit(scores, labels, opt, gap, falseOnly) ==
    LET fired == Apply(scores, opt)
        marks == [i \in DOMAIN fired |-> IF fired[i] THEN 1 ELSE 0]
        entry(c) == [start |-> c.start, end |-> c.end, score |-> scores[c.peak],
                     labelled |-> \E i \in c.start..c.end : labels[i],
                     nearest |-> NearestLabelledGap(labels, c.start, c.end)]
        entries == [i \in DOMAIN Candidates(marks, 1, gap) |-> entry(Candidates(marks, 1, gap)[i])]
    IN IF ~Labelled(labels) THEN <<>>
       ELSE Worst(SelectSeq(entries, LAMBDA e : ~(falseOnly /\ e.labelled)))

-----------------------------------------------------------------------------
(* nab.go.  windows is sorted by start.                                    *)

InWindow(windows, t) ==
    LET at == {i \in DOMAIN windows : t \in windows[i][1]..windows[i][2]} IN
    IF at = {} THEN 0 ELSE Min(at)

PrevWindow(windows, t) ==
    LET before == {i \in DOMAIN windows : windows[i][2] <= t} IN
    IF before = {} THEN 0 ELSE Max(before)

Length(w) == w[2] - w[1]

(* relPos, and what an alarm there is worth                                *)
HitWorth(profile, t, w) ==
    IF Length(w) <= 0 THEN profile.atp * Sigmoid(0, 1)
    ELSE profile.atp * Sigmoid(t - w[2], Length(w))

MissWorth(profile, windows, t) ==
    LET prev == PrevWindow(windows, t)
        w == windows[prev] IN
    IF prev = 0 THEN -(profile.afp * Full)
    ELSE profile.afp * Sigmoid(t - w[2], IF Length(w) <= 0 THEN 1 ELSE Length(w))

(* NABScore: the first alarm in a window is worth its place in it, a       *)
(* window without one costs, and so does every alarm outside of them all   *)
NABScore(found, windows, profile) ==
    LET first(i) == {t \in found : InWindow(windows, t) = i}
        hit == {i \in DOMAIN windows : first(i) # {}}
        outside == {t \in found : InWindow(windows, t) = 0} IN
    [raw |-> MapThenSumSet(LAMBDA i : HitWorth(profile, Min(first(i)), windows[i]), hit)
             - (profile.afn * Full * Cardinality(DOMAIN windows \ hit))
             + MapThenSumSet(LAMBDA t : MissWorth(profile, windows, t), outside),
     tp |-> Cardinality(hit), fn |-> Cardinality(DOMAIN windows \ hit),
     fp |-> Cardinality(outside)]

(* NABNormalized, in percent of the way from no alarm to an alarm at every *)
(* window's start                                                          *)
NABNormalized(found, windows, profile) ==
    LET raw == NABScore(found, windows, profile).raw
        null == NABScore({}, windows, profile).raw
        best == NABScore({w[1] : w \in ToSet(windows)}, windows, profile).raw
        norm == IF best > null THEN (100 * (raw - null)) \div (best - null) ELSE 0
    IN IF norm < 0 THEN 0 ELSE IF norm > 100 THEN 100 ELSE norm

-----------------------------------------------------------------------------
BenchInit ==
    bench \in {[kind |-> "series", points |-> <<>>]} \cup
              {[kind |-> "nab", windows |-> w, found |-> {}] : w \in WindowSets}

(* A series to measure, point by point; an alarm in a NAB series           *)
AddPoint(label, score) ==
    /\ bench.kind = "series" /\ Len(bench.points) < MaxPoints
    /\ bench' = [bench EXCEPT !.points = Append(@, [label |-> label, score |-> score])]

AddDetection(t) ==
    /\ bench.kind = "nab" /\ t \notin bench.found
    /\ bench' = [bench EXCEPT !.found = @ \cup {t}]

BenchNext ==
    \/ \E label \in BOOLEAN, score \in Scores \cup {NotANumber} : AddPoint(label, score)
    \/ \E t \in 0..MaxTimes : AddDetection(t)

-----------------------------------------------------------------------------
Half == <<1, 2>>
Labels == LabelsOf(bench.points)
Raw == ScoresOf(bench.points)

(* The three ways the toolkit counts tell one story of the same alarms:    *)
(* the adjusted true positives are the points of the events that           *)
(* EventScore says were hit, the false ones are untouched and, in a series *)
(* with a label, EventScore's, the half-way adjustment lies between none   *)
(* and the full one, and an audit without a gap lists, up to its limit,    *)
(* the regions EventScore calls false, each off every event and, as long   *)
(* as every score is a number, none that scores less than one left out     *)
(* (Segments, PointAdjust, PointAdjustK, Confusion, EventScore, Audit,     *)
(* Candidates).                                                            *)
MeasuresAgree ==
    bench.kind = "series" =>
      \A opt \in Policies :
        LET pred == Apply(Raw, opt)
            plain == Confusion(pred, Labels)
            some == Confusion(PointAdjustK(pred, Labels, Half), Labels)
            full == Confusion(PointAdjustK(pred, Labels, <<0, 1>>), Labels)
            event == EventScore(pred, Labels)
            audit == Audit(Raw, Labels, opt, 0, TRUE)
            listed == {<<e.start, e.end>> : e \in ToSet(audit)}
            off == ToSet(Segments(pred)) \ SegmentsHit(pred, Labels)
            run(i) == {j \in DOMAIN Labels : \A k \in Min({i, j})..Max({i, j}) : Labels[k]}
        IN /\ full.tp = Cardinality({i \in DOMAIN Labels : Labels[i] /\ \E j \in run(i) : pred[j]})
           /\ event.eventsHit = event.events <=> full.fn = 0
           /\ Labelled(Labels) => full.fp = event.falseAlarms
           /\ some.fp = plain.fp /\ plain.fp = full.fp
           /\ plain.tp <= some.tp /\ some.tp <= full.tp
           /\ Len(audit) = Min({AuditLimit, event.falseRegions})
           /\ Cardinality(listed) = Len(audit) /\ listed \subseteq off
           /\ \A e \in ToSet(audit) : e.nearest > 0
           /\ (Labelled(Labels) /\ NotANumber \notin ToSet(Raw)) =>
                \A e \in ToSet(audit), s \in off \ listed : Raw[s[1]] <= e.score

(* No threshold, tried by the sweep or not, does better than the one the   *)
(* search returns, as long as the sweep is not thinned out; and AUCPR is   *)
(* the mean, over the labelled points, of the precision at their own       *)
(* score (BestF1, BestPointAdjustedF1, BestPointAdjustedKF1, AUCPR).       *)
BestIsBest ==
    bench.kind = "series" =>
      /\ \A plain \in BOOLEAN, k \in {<<0, 1>>, Half} :
           LET best == BestThreshold(Raw, Labels, plain, k) IN
           \A thr \in Scores \cup {best.thr} :
             /\ AtLeast(best.f1, F1(Judged(Raw, Labels, thr, plain, k)))
             /\ thr = best.thr => AtLeast(F1(Judged(Raw, Labels, thr, plain, k)), best.f1)
      /\ (NotANumber \notin ToSet(Raw) /\ ToSet(Labels) = BOOLEAN) =>
           LET real == {i \in DOMAIN Labels : Labels[i]}
               above(i) == {j \in DOMAIN Labels : Raw[j] >= Raw[i]} IN
           AUCPR(Raw, Labels) = MapThenSumSet(
               LAMBDA i : (Common * Cardinality(above(i) \cap real)) \div Cardinality(above(i)),
               real)

Disjoint(windows) ==
    \A i, j \in DOMAIN windows :
        i # j => windows[i][1]..windows[i][2] \cap windows[j][1]..windows[j][2] = {}

(* What the NAB score is for (nab_test.go:19-47): every window is counted  *)
(* once, one more false alarm never helps, an earlier alarm in a window    *)
(* never hurts, and, the windows being apart, nothing beats an alarm at    *)
(* every start: the normalised score is 100 for what is as good, and only  *)
(* for that.                                                               *)
NabOrdersAlarms ==
    bench.kind = "nab" =>
      \A p \in Profiles :
        LET ws == bench.windows
            raw(found) == NABScore(found, ws, p).raw
            own == NABScore(bench.found, ws, p) IN
        /\ own.tp + own.fn = Len(ws)
        /\ own.fp = Cardinality({t \in bench.found : \A w \in ToSet(ws) : t \notin w[1]..w[2]})
        /\ \A t \in 0..MaxTimes \ bench.found :
             IF InWindow(ws, t) = 0 THEN raw(bench.found \cup {t}) <= own.raw
                                    ELSE raw(bench.found \cup {t}) >= own.raw
        /\ Disjoint(ws) =>
             LET best == raw({w[1] : w \in ToSet(ws)}) IN
             /\ own.raw <= best
             /\ NABNormalized(bench.found, ws, p) = 100 <=> own.raw = best /\ best > raw({})
=============================================================================
