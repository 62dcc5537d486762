----------------------------- MODULE MCEmission -----------------------------
(***************************************************************************)
(* Detectors, points and verdicts for Emission.  A model judges by what it *)
(* has seen: a value like the last one, one known, a new one.              *)
(***************************************************************************)
EXTENDS Emission

\* A detector of every kind, some with rules; the second and the last look for
\* rare values of one field, and so share a table.
Detects(id, fn, field, by, part, over, fields, plain, rules) ==
    [id |-> id, fn |-> fn, field |-> field, denom |-> 2, by |-> by, part |-> part, over |-> over,
     fields |-> fields, plain |-> plain, rules |-> rules]
NoRule == [below |-> NoLimit, above |-> NoLimit, diff |-> NoLimit, percent |-> NoLimit,
           hours |-> {}, weekdays |-> {}, values |-> {}, influencers |-> {}, scope |-> {},
           skipModel |-> FALSE]
SkipAbove2 == [NoRule EXCEPT !.skipModel = TRUE, !.above = 2]
OnlyScope3 == [NoRule EXCEPT !.below = 1,
                             !.scope = {[field |-> "by", filter |-> {3}, include |-> TRUE]}]
EveryDetector ==
    << Detects(1, "count", 0, 0, 0, 0, {}, TRUE, {SkipAbove2}),
       Detects(2, "rare", 0, 1, 0, 0, {}, TRUE, {}),
       Detects(3, "sum", 1, 0, 1, 1, {}, TRUE, {[NoRule EXCEPT !.below = 2]}),
       Detects(4, "", 0, 0, 0, 0, {1, 2}, TRUE, {}),
       Detects(5, "ratio", 1, 1, 0, 0, {}, TRUE, {[NoRule EXCEPT !.influencers = {<<"by", 2>>}]}),
       Detects(6, "time_of_day", 0, 0, 1, 0, {}, TRUE, {}),
       Detects(7, "lat_long", 0, 0, 0, 0, {}, TRUE, {}),
       Detects(8, "info_content", 0, 1, 1, 0, {}, TRUE, {}),
       Detects(9, "count", 0, 1, 0, 0, {}, TRUE, {OnlyScope3}),
       Detects(10, "rate", 1, 0, 1, 0, {}, TRUE, {}),
       Detects(2, "rare", 0, 1, 1, 0, {}, TRUE, {OnlyScope3}) >>
\* A seasonal mean that is not to learn what is above 2.
SeasonalDetector == << Detects(1, "mean", 1, 0, 0, 0, {}, FALSE, {SkipAbove2}) >>
PointOf(part, by, over, a, b) ==
    [part |-> part, by |-> by, over |-> over, vals |-> <<a, b>>, value |-> 1]
SomeBuckets ==
    { <<PointOf(1, 1, 1, 1, 2)>>,
      <<PointOf(1, 1, 1, 3, NoLimit), PointOf(1, 2, 2, 1, 1), PointOf(2, 1, 1, 2, 2)>>,
      <<PointOf(2, 2, 1, NoLimit, 3), PointOf(2, 3, 2, 4, 4)>> }
OneCalendar == {[start |-> 2, end |-> 3, recur |-> "none"]}
AutoOn == [on |-> TRUE, calibration |-> 2, min |-> 20, max |-> 70]
Surprise(h, v) ==
    IF h = <<>> THEN [score |-> 0, sev |-> 0, typical |-> v]
    ELSE IF v = h[Len(h)] THEN [score |-> 10, sev |-> 1, typical |-> v]
    ELSE IF v \in ToSet(h) THEN [score |-> 60, sev |-> 2, typical |-> h[1]]
    ELSE [score |-> 90, sev |-> IF Len(h) > 1 THEN NoLimit ELSE 5, typical |-> h[1]]
Variety(s) == Cardinality(ToSet(s))
Rarity(fn, n, b, count) == [score |-> 85 - 5 * n, sev |-> 1, typical |-> <<0, 1>>]
MiddleOf(s) == SortSeq(s, <)[(Len(s) + 1) \div 2]
BelowMax(s) == IF Cardinality(ToSet(s)) = 1 THEN NoLimit ELSE Max(ToSet(s)) - 20

SkipSpec ==
    EmissionInit /\ SpecInit /\ [][EmissionNext /\ UNCHANGED specVars]_<<emission, spec>>

=============================================================================
