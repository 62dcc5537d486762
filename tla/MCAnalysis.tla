----------------------------- MODULE MCAnalysis -----------------------------
(***************************************************************************)
(* The detection side of the program and the command that watches a source *)
(* with it, for TLC in one run: a behaviour moves one component and leaves *)
(* the others where they start, so that the states of each are those it    *)
(* has alone.                                                              *)
(***************************************************************************)
EXTENDS WatchLoop, Pipeline, Benchmark, Calibration, Ranking, Baseline, MCEmission, Categorizer,
        Tail, Seasonal

\* Alarm policies: the defaults, a warm-up, M of N, suppression, a cooldown.
Policy(m, n, refractory, warmup, cooldown, suppress) ==
    [persist |-> m, of |-> n, refractory |-> refractory, warmup |-> warmup,
     cooldown |-> cooldown, threshold |-> 1, suppress |-> suppress]
SomePolicies == {Policy(0, 0, 0, 0, 0, {}), Policy(0, 0, 2, 1, 0, {}),
                 Policy(2, 3, 0, 0, 0, {<<3, 4>>}), Policy(2, 3, 1, 0, 2, {})}

\* Pipelines: the defaults, a budget, a long calibration, a refused one, a
\* minimum duration with persistence, the sensitive ones, one asking for an effect.
Pipe(kept, calibrated, every, minimum, m, n, refractory) ==
    [history |-> kept, calibration |-> calibrated, refresh |-> every,
     minDuration |-> minimum, budget |-> FALSE, sensitive |-> FALSE, effect |-> FALSE,
     policy |-> [Policy(m, n, refractory, 0, 0, {}) EXCEPT !.threshold = 0]]
SomePipes == {Pipe(0, 2, 0, 0, 0, 0, 0), [Pipe(4, 0, 3, 2, 0, 0, 1) EXCEPT !.budget = TRUE],
              [Pipe(4, 2, 1, 0, 0, 0, 0) EXCEPT !.effect = TRUE], Pipe(2, 0, 1, 0, 0, 0, 0),
              [Pipe(4, 1, 1, 0, 0, 0, 0) EXCEPT !.sensitive = TRUE], Pipe(4, 4, 0, 0, 0, 0, 0),
              Pipe(0, 2, 1, 1, 2, 3, 0)}

\* 2 / (1 + exp(5 y)) - 1 in ten-thousandths, at sixths of a window.
SigmoidAt == <<0, 3942, 6823, 8483, 9311, 9695, 9866, 9942, 9975, 9989, 9995, 9998,
               9999, 10000, 10000, 10000, 10000, 10000, 10000>>
TabledSigmoid(n, d) ==
    LET y == (6 * n) \div d IN
    IF y > 18 THEN -10000 ELSE IF y >= 0 THEN -SigmoidAt[y + 1] ELSE SigmoidAt[1 - y]
\* The standard profile, and the ones that reward fewer false alarms or misses.
SomeProfiles == {[atp |-> 100, afp |-> 11, afn |-> 100], [atp |-> 100, afp |-> 22, afn |-> 100],
                 [atp |-> 100, afp |-> 11, afn |-> 200]}
SomeWindows == {<<>>, <<<<1, 3>>>>, <<<<1, 2>>, <<4, 6>>>>, <<<<0, 3>>, <<1, 2>>>>,
                <<<<2, 2>>, <<3, 5>>>>}

CalibrationScores == {1, 2, 3, NaN}
SomeAlphas == {<<1, 2>>, <<1, 4>>}
Shares == <<4, 2, 1, 1, 0, 0>>

RankDirections == <<1, 0, -1>>
SpelledInOrder(field, value) == field + value   \* 1 with 2 as 2 with 1
RankRates == {<<1, 5>>, <<1, 2>>}
Influence(score, of) == [score |-> score, infl |-> of]
RankRecords == {Influence(2, <<<<1, 1, 0>>>>), Influence(1, <<<<1, 2, 2>>, <<1, 1, 1>>>>),
                Influence(2, <<<<2, 0, 1>>, <<1, 2, 1>>, <<2, 1, 1>>>>)}
Measure(label, lag, corr, improvement) ==
    [label |-> label, lag |-> lag, corr |-> corr, improvement |-> improvement]
SomeMeasures == {Measure(1, 0, 3, 1), Measure(2, -1, 5, 1), Measure(3, 1, -3, 1), Measure(4, 1, 2, 2)}

\* Twice the distance from the median (0 of no values), and a score in three
\* steps, one more for a model that watches one side.
FromMedian(h, v) ==
    2 * v - (IF h = <<>> THEN 0
             ELSE LET s == SortSeq(h, <) IN s[(Len(s) + 1) \div 2] + s[Len(s) \div 2 + 1])
MedianOf(zs) == 2 * SortSeq(zs, <)[(Len(zs) + 1) \div 2]
StepScore(side, z) ==
    (IF z > 4 THEN 3 ELSE IF z > 2 THEN 1 ELSE 0) + (IF side = "both" THEN 0 ELSE 1)

WindowEnds == {0, 1, 3, 4, 9, 13, 15, 29}

SomeLines == {<<"a", "x">>, <<"b", "x">>, <<"n1", "y">>}
Jump(h, n) == IF Len(h) >= 2 /\ n > h[Len(h)] THEN 70 ELSE 0

\* A fit is the largest excess; two equal ones admit none.
LargestPeak(peaks) ==
    IF peaks = <<>> \/ (Len(peaks) > 1 /\ Cardinality(ToSet(peaks)) = 1) THEN NoFit
    ELSE Max(ToSet(peaks))
AboveLargest(fit, t, n, nt) == t + fit + n \div nt
Receding(fit, t, x, n, nt) == <<nt, n * (1 + x - t)>>
HalfLevel == <<1, 2>>
SomeInitial == {<<0, 4, 0, 8, 4>>, <<4, 0, 8, 0, 0>>, <<0, NotFinite, 0, 4, 8>>, <<0, 0, 4, 0, 4>>}

SomePeriods == {<<>>, <<2>>, <<1, 3, 2>>}
BeforeEpoch == -4

VARIABLE part  \* the component that this behaviour is about
analysisVars == <<part, vars, alarmVars, pipeVars, bench, calibVars, rankingVars, baseVars,
                  specVars, emissionVars, catVars, tailVars, seasonVars>>

AnalysisInit ==
    /\ part \in {"watch", "alarms", "pipeline", "benchmark", "calibration",
                 "ranking", "baseline", "jobs", "emission", "logs", "tail", "season"}
    /\ Init /\ AlarmInit /\ PipeInit /\ BenchInit /\ CalibInit
    /\ RankingInit /\ BaselineInit /\ SpecInit /\ EmissionInit /\ CatInit /\ TailInit
    /\ SeasonInit
    /\ part # "benchmark" => bench.kind = "series"

AnalysisNext ==
    /\ UNCHANGED part
    /\ \/ /\ part = "watch" /\ Next
          /\ UNCHANGED <<alarmVars, pipeVars, bench, calibVars, rankingVars,
                         baseVars, specVars, emissionVars, catVars, tailVars, seasonVars>>
       \/ /\ part = "alarms" /\ AlarmNext
          /\ UNCHANGED <<vars, pipeVars, bench, calibVars, rankingVars,
                         baseVars, specVars, emissionVars, catVars, tailVars, seasonVars>>
       \/ /\ part = "pipeline" /\ PipeNext
          /\ UNCHANGED <<vars, alarmVars, bench, calibVars, rankingVars,
                         baseVars, specVars, emissionVars, catVars, tailVars, seasonVars>>
       \/ /\ part = "benchmark" /\ BenchNext
          /\ UNCHANGED <<vars, alarmVars, pipeVars, calibVars, rankingVars,
                         baseVars, specVars, emissionVars, catVars, tailVars, seasonVars>>
       \/ /\ part = "calibration" /\ CalibNext
          /\ UNCHANGED <<vars, alarmVars, pipeVars, bench, rankingVars,
                         baseVars, specVars, emissionVars, catVars, tailVars, seasonVars>>
       \/ /\ part = "ranking" /\ RankingNext
          /\ UNCHANGED <<vars, alarmVars, pipeVars, bench, calibVars,
                         baseVars, specVars, emissionVars, catVars, tailVars, seasonVars>>
       \/ /\ part = "baseline" /\ BaselineNext
          /\ UNCHANGED <<vars, alarmVars, pipeVars, bench, calibVars,
                         rankingVars, specVars, emissionVars, catVars, tailVars, seasonVars>>
       \/ /\ part = "jobs" /\ SpecNext
          /\ UNCHANGED <<vars, alarmVars, pipeVars, bench, calibVars,
                         rankingVars, baseVars, emissionVars, catVars, tailVars, seasonVars>>
       \/ /\ part = "emission" /\ EmissionNext
          /\ UNCHANGED <<vars, alarmVars, pipeVars, bench, calibVars,
                         rankingVars, baseVars, specVars, catVars, tailVars, seasonVars>>
       \/ /\ part = "logs" /\ CatNext
          /\ UNCHANGED <<vars, alarmVars, pipeVars, bench, calibVars,
                         rankingVars, baseVars, specVars, emissionVars, tailVars, seasonVars>>
       \/ /\ part = "tail" /\ TailNext
          /\ UNCHANGED <<vars, alarmVars, pipeVars, bench, calibVars,
                         rankingVars, baseVars, specVars, emissionVars, catVars, seasonVars>>
       \/ /\ part = "season" /\ SeasonNext
          /\ UNCHANGED <<vars, alarmVars, pipeVars, bench, calibVars,
                         rankingVars, baseVars, specVars, emissionVars, catVars, tailVars>>

AnalysisSpec == AnalysisInit /\ [][AnalysisNext]_analysisVars

-----------------------------------------------------------------------------
(* The properties, each of the component that moves.  They are stated, and *)
(* explained, in the component's module.                                   *)

(* AlarmGuard and Pipeline: regions are maximal and a solved threshold     *)
(* keeps its budget; what Push and Scan report is inside the window and    *)
(* new.  (FiresAsPromised is checked as it is.)                            *)
AlarmsStand ==
    /\ part = "alarms" => RegionsAreMaximal /\ BudgetKept
    /\ part = "pipeline" => ReportsInWindow

(* Benchmark: the measures agree, the best threshold is the best, and the  *)
(* NAB score orders detectors as it should.                                *)
MeasuresTell == part = "benchmark" => MeasuresAgree /\ BestIsBest /\ NabOrdersAlarms

(* Calibration: conformal p-values keep their guarantee without looking    *)
(* ahead, block maxima are monotone, the step-up procedures reject the     *)
(* largest set they may, and the online one spends no more than its wealth.*)
(* Tail: thresholds follow what was learned, through restarts, and no      *)
(* probability of a stream looks ahead.                                    *)
ErrorsControlled ==
    /\ part = "calibration" =>
          /\ ConformalGuarantee /\ NoLookAhead /\ BlockMonotone
          /\ StepUpIsLargest /\ WealthKept
    /\ part = "tail" => TailsFollow /\ RanksLookBack

(* Ranking: feedback moves the ranker the right way, and rankings settle.  *)
RankingsTell == part = "ranking" => RankerSound /\ RankingsSettled

(* Baseline: a model adapts to a lasting change and to nothing less, and   *)
(* scores nothing before it has a history.                                 *)
(* Seasonal: every value reaches the model of its season once, whatever    *)
(* periods come and go, and a restart goes unnoticed.                      *)
BaselinesTell ==
    /\ part = "baseline" => BaselineAdapts /\ ScoresNeedHistory
    /\ part = "season" => ToldOnce /\ SeasonResumes /\ DetectionRecurs

(* JobSpec: calendars recur, and what of an accepted job has a value.      *)
JobsStand == part = "jobs" => CalendarsRepeat /\ ScoresOfAccepted

(* Emission: reports of false positives silence records and do nothing     *)
(* else, and reading an open bucket teaches nothing.                       *)
LearningUndisturbed == part = "emission" => FeedbackOnlySilences /\ PeeksTeachNothing

(* Emission: no rare value is missed, and renormalized results keep their  *)
(* order.                                                                  *)
RecordsTell == part = "emission" => RareNeverMissed /\ RenormalizedInOrder

(* Categorizer: a restart is not noticed, and templates cover their lines. *)
TemplatesStand == part = "logs" => RestartUnnoticed /\ TemplatesCover

=============================================================================
