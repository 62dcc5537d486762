------------------------------ MODULE JobSpec ------------------------------
(***************************************************************************)
(* A job's specification (jobspec/job.go, load.go), what its calendars and *)
(* rules silence (engine.go), and how a bucket's points become one value   *)
(* (detect/aggregate.go).                                                  *)
(*                                                                         *)
(* Times are seconds since a Sunday's midnight in UTC; DayLen stands for   *)
(* 86400.  Values are rationals <<numerator, denominator>>, the limits of  *)
(* rules integers or None.  A name is a number, 0 the empty one.           *)
(***************************************************************************)
EXTENDS Integers, Sequences, FiniteSets, SequencesExt, FiniteSetsExt

CONSTANTS DayLen, HourLen,     \* 86400 and 3600 in the code
          CalendarTimes,       \* the times of the calendars of an instance
          AskedTimes,          \* the times that are asked about
          FieldNames,          \* the names a detector's fields may have, 0 included
          NoLimit              \* a limit that a rule does not set

ASSUME CalendarAssumption ==
    DayLen \in Nat \ {0} /\ CalendarTimes \subseteq Int /\ AskedTimes \subseteq Int

VARIABLE spec
specVars == <<spec>>

WeekLen == 7 * DayLen
Below(x, b) == x[1] < b * x[2]
Above(x, b) == x[1] > b * x[2]
Size(z)     == IF z < 0 THEN -z ELSE z
Distance(x, y) == <<Size(x[1] * y[2] - y[1] * x[2]), x[2] * y[2]>>

-----------------------------------------------------------------------------
(* Calendar.Covers, coversDaily and coversWeekly.                          *)
OffsetSameDay(t, start, period) ==  \* faulty variant: a window is not wrapped
    (t % period) - (start % period)
Offset(t, start, period) == ((t % period) - (start % period) + period) % period

CoversEvery(c, t, period) ==
    c.end - c.start >= period \/ (Offset(t, c.start, period) \in 0..c.end - c.start - 1)

Covers(c, t) ==
    /\ c.end > c.start
    /\ CASE c.recur = "daily"  -> CoversEvery(c, t, DayLen)
         [] c.recur = "weekly" -> CoversEvery(c, t, WeekLen)
         [] c.recur = "none"   -> c.start <= t /\ t < c.end

InCalendar(calendars, t) == \E c \in calendars : Covers(c, t)

(* Rule.InScope: a record without a field has the empty value there.       *)
InScope(rule, infl) ==
    \A sc \in rule.scope :
       sc.include <=> (IF sc.field \in DOMAIN infl THEN infl[sc.field] ELSE 0) \in sc.filter

(* suppressed, for one rule that does not ask to skip the learning only    *)
RuleHolds(rule, rec) ==
    LET diff == Distance(rec.actual, rec.typical) IN
    /\ ~rule.skipModel
    /\ InScope(rule, rec.infl)
    /\ \/ rule.below # NoLimit /\ Below(rec.actual, rule.below)
       \/ rule.above # NoLimit /\ Above(rec.actual, rule.above)
       \/ rule.diff # NoLimit /\ Below(diff, rule.diff)
       \/ /\ rule.percent # NoLimit /\ rec.typical[1] # 0
          /\ 100 * diff[1] < rule.percent * Size(rec.typical[1]) * rec.actual[2]
       \/ (rec.time \div HourLen) % (DayLen \div HourLen) \in rule.hours
       \/ (rec.time \div DayLen) % 7 \in rule.weekdays
       \/ rec.series \in rule.values
       \/ \E fld \in DOMAIN rec.infl : <<fld, rec.infl[fld]>> \in rule.influencers

IsSuppressed(calendars, rules, rec) ==
    InCalendar(calendars, rec.time) \/ \E rule \in rules : RuleHolds(rule, rec)

(* skipLearn: a rule with no limit skips always                            *)
SkipLearn(rules, val) ==
    \E rule \in rules :
       /\ rule.skipModel
       /\ \/ rule.above # NoLimit /\ Above(val, rule.above)
          \/ rule.below # NoLimit /\ Below(val, rule.below)
          \/ rule.above = NoLimit /\ rule.below = NoLimit

-----------------------------------------------------------------------------
(* Detectors: the questions the engine asks, and the job's validation.     *)
Aggregates == {"mean", "sum", "min", "max", "median", "distinct_count", "non_zero_count",
               "non_null_sum", "varp", "metric"}
KnownFunctions == Aggregates \cup {"count", "rate", "rare", "freq_rare", "info_content",
               "time_of_day", "time_of_week", "lat_long", "ratio"}

IsMultivariate(d) == Cardinality(d.fields) >= 2
NeedsField(d) == ~IsMultivariate(d) /\ d.fn \in Aggregates
Split(d) == d.by # 0 \/ d.part # 0
CountsEmptyAsZero(d) ==
    /\ ~Split(d) /\ d.over = 0 /\ ~IsMultivariate(d)
    /\ d.fn \in {"count", "distinct_count"} \/ (d.fn = "rate" /\ d.field = 0)
CountFamilySplit(d) ==
    d.over = 0 /\ ~IsMultivariate(d) /\ Split(d) /\ d.fn \in {"count", "distinct_count"}

ValidDetectorOf(d, needs(_)) ==
    /\ d.fn # "" \/ IsMultivariate(d)
    /\ needs(d) => d.field # 0
    /\ d.fn \in {"rare", "freq_rare", "info_content"} => d.by # 0
    /\ d.fn = "ratio" => d.field # 0 /\ d.denom # 0
ValidDetector(d) == ValidDetectorOf(d, NeedsField)

(* Validate                                                                *)
Valid(job) ==
    job.name # 0 /\ job.span > 0 /\ job.detectors # <<>>
    /\ \A i \in DOMAIN job.detectors : ValidDetector(job.detectors[i])

(* parseJob: the job of a file or a request has no auto threshold          *)
Parsed(file) ==
    LET job == [file EXCEPT !.auto = FALSE] IN IF Valid(job) THEN job ELSE [name |-> 0]

(* scoreBucket's choice between its scoring functions                      *)
Path(d) ==
    IF IsMultivariate(d) THEN "multivariate"
    ELSE CASE d.fn \in {"rare", "freq_rare"}         -> "rare"
           [] d.fn = "info_content"                  -> "info"
           [] d.fn \in {"time_of_day", "time_of_week"} -> "time"
           [] d.fn = "lat_long"                      -> "geo"
           [] d.fn = "ratio"                         -> "ratio"
           [] OTHER -> IF d.over # 0 THEN "population" ELSE "temporal"

-----------------------------------------------------------------------------
(* Aggregate: the value of a bucket, or NoAggregate when it has none.  A   *)
(* point is what valueOf or distinctKey makes of it, an integer.           *)
NoAggregate == <<>>
SumOver(vals) == FoldSeq(LAMBDA x, acc : x + acc, 0, vals)
InOrder(vals) == SortSeq(vals, <)

Aggregate(fn, vals) ==
    LET n == Len(vals)  sorted == InOrder(vals) IN
    IF fn = "count" THEN <<n, 1>>
    ELSE IF fn = "distinct_count" THEN <<Cardinality(ToSet(vals)), 1>>
    ELSE IF n = 0 THEN NoAggregate
    ELSE CASE fn = "non_zero_count" -> <<Len(SelectSeq(vals, LAMBDA x : x # 0)), 1>>
           [] fn \in {"sum", "non_null_sum"} -> <<SumOver(vals), 1>>
           [] fn \in {"mean", "metric"}      -> <<SumOver(vals), n>>
           [] fn = "min"            -> <<sorted[1], 1>>
           [] fn = "max"            -> <<sorted[n], 1>>
           [] fn = "median"         -> <<sorted[(n + 1) \div 2] + sorted[n \div 2 + 1], 2>>
           [] fn = "varp"           -> <<n * SumOver([i \in 1..n |-> vals[i] * vals[i]])
                                          - SumOver(vals) * SumOver(vals), n * n>>
           [] OTHER                 -> NoAggregate

(* rateValue, a count of points when no field is named, and what the       *)
(* temporal and the population path ask for the value of a bucket: only    *)
(* the temporal one knows a rate, and neither any other function.          *)
RateOf(field, vals) ==
    IF field = 0 THEN <<Len(vals), 1>>
    ELSE IF vals = <<>> THEN NoAggregate ELSE <<SumOver(vals), 1>>   \* by a span of 1

BucketValue(d, vals) ==
    IF d.fn = "rate" /\ d.over = 0 THEN RateOf(d.field, vals) ELSE Aggregate(d.fn, vals)

-----------------------------------------------------------------------------
SpecInit == spec = [kind |-> "none"]

AskCalendar(c, t) ==
    /\ spec.kind = "none"
    /\ spec' = [kind |-> "calendar", cal |-> c, time |-> t, covered |-> Covers(c, t)]

(* A job with one detector, from a file.                                   *)
LoadJob(d, auto) ==
    /\ spec.kind = "none"
    /\ spec' = [kind |-> "job", file |-> d,
                job |-> Parsed([name |-> 1, span |-> 1, detectors |-> <<d>>, auto |-> auto])]

Calendars == [start : CalendarTimes, end : CalendarTimes, recur : {"none", "daily", "weekly"}]
DetectorSpecs ==
    [fn : KnownFunctions \cup {"", "misspelled"}, field : FieldNames, denom : FieldNames, by : FieldNames,
     part : FieldNames, over : FieldNames, fields : {{}, {1}, {1, 2}}]

SpecNext ==
    \/ \E c \in Calendars, t \in AskedTimes : AskCalendar(c, t)
    \/ \E d \in DetectorSpecs, auto \in BOOLEAN : LoadJob(d, auto)

-----------------------------------------------------------------------------
(* A recurring window covers a time exactly when the window moved by some  *)
(* number of whole days (or weeks) does: over midnight, over the end of    *)
(* the week, before its first occurrence and for windows longer than the   *)
(* period.  The code computes with seconds of the day and of the week.  No *)
(* more periods than seconds lie between the window and the time.          *)
CalendarsRepeat ==
    spec.kind = "calendar" =>
      LET c == spec.cal
          period == IF spec.cal.recur = "daily" THEN DayLen ELSE WeekLen
          far    == Size(spec.time - c.start)
          moves  == IF c.recur = "none" THEN {0} ELSE {k * period : k \in -far..far} IN
      spec.covered <=> \E m \in moves : c.start + m <= spec.time /\ spec.time < c.end + m

(* What an accepted job scores.  The function its detector is dispatched   *)
(* to finds every field it reads.  On the temporal and the population path *)
(* a bucket with points has a value, but for two detectors that validation *)
(* lets through and that are never scored: one whose function is not a     *)
(* known one, and a rate over a population.  A bucket without points has a *)
(* value for counts and for a rate that counts; it is 0 where the engine   *)
(* fills empty buckets in, by one of its two ways at most.                 *)
ScoresOfAccepted ==
    (spec.kind = "job" /\ spec.job.name # 0) =>
      LET d == spec.job.detectors[1]  path == Path(d) IN
      /\ path \in {"rare", "info"} => d.by # 0
      /\ path = "ratio" => d.field # 0 /\ d.denom # 0
      /\ path \in {"temporal", "population"} =>
            /\ BucketValue(d, <<1, 0, 1>>) = NoAggregate
                 <=> d.fn \notin KnownFunctions \/ (d.fn = "rate" /\ d.over # 0)
            /\ d.fn \in Aggregates => d.field # 0
            /\ BucketValue(d, <<>>) # NoAggregate =>
                 d.fn \in {"count", "distinct_count"} \/ (d.fn = "rate" /\ d.field = 0)
      /\ CountsEmptyAsZero(d) \/ CountFamilySplit(d) =>
            path = "temporal" /\ BucketValue(d, <<>>) = <<0, 1>>
      /\ ~(CountsEmptyAsZero(d) /\ CountFamilySplit(d))
=============================================================================
