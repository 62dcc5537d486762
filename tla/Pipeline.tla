------------------------------ MODULE Pipeline ------------------------------
(***************************************************************************)
(* The streaming pipeline (pipeline/pipeline.go): a window of the last     *)
(* History observations, re-scored every Refresh observations once it is   *)
(* longer than its calibration part; the alarm policy of AlarmGuard turns  *)
(* the scores into marks, marks into regions, and each region is moved to  *)
(* the deviation a person would look at.  Push reports what is newer than  *)
(* the last start it reported; Scan reports everything in one window.      *)
(*                                                                         *)
(* The statistics (p-values, the fitted threshold, deviations, shapes) are *)
(* external: an evaluation chooses the positions over the threshold, those *)
(* whose effect is too small, the regions without a shape and the          *)
(* deviations.  Positions in the window start at 1 where the code's start  *)
(* at 0; absolute ones start at 0, as there.                               *)
(***************************************************************************)
EXTENDS AlarmGuard

CONSTANTS DefaultHistory, MinHistory, MaxHistory,  \* 4000, 400 and 50 000 in the code
          MinCalibrated,    \* 200: the shortest calibration part
          DefaultRefresh,   \* 32
          Bridge,           \* 10: the quiet points a region bridges
          PairOf,           \* 10: the verdicts that a minimum duration looks back on
          RefractoryScale,  \* 60: the quiet period of policies that name none
          Deviations,       \* the robust deviations from the baseline, naturals
          PipeOptions,      \* the options detectors are made with
          MaxSeen           \* bound: observations pushed to one detector

ASSUME PipelineAssumption ==
    /\ DefaultHistory \in Nat /\ MinHistory \in Nat /\ MaxHistory \in Nat /\ MaxSeen \in Nat
    /\ MinCalibrated \in Nat /\ Bridge \in Nat /\ PairOf \in Nat /\ RefractoryScale \in Nat
    /\ DefaultRefresh \in Nat \ {0} /\ Deviations \subseteq Nat
    /\ \A opt \in PipeOptions :
         opt \in [history : Int, calibration : Int, refresh : Int, minDuration : Int,
                 budget : BOOLEAN, sensitive : BOOLEAN, effect : BOOLEAN,
                 policy : [persist : Int, of : Int, refractory : Nat, warmup : Nat,
                           cooldown : Int, threshold : Int, suppress : SUBSET (Int \X Int)]]

VARIABLE pipe
pipeVars == <<pipe>>
NoPipe == [kind |-> "none"]
Refused == [kind |-> "refused"]

(* Options.resolve; an option left out is 0.                               *)
ResolvedPipe(opt) ==
    LET history == IF opt.history <= 0 THEN DefaultHistory ELSE opt.history
        asked   == IF opt.calibration <= 0 THEN history \div 4 ELSE opt.calibration
        cal     == IF asked < MinCalibrated THEN MinCalibrated ELSE asked IN
    [opt EXCEPT !.history = history, !.calibration = cal,
                !.refresh = IF @ <= 0 THEN DefaultRefresh ELSE @,
                !.minDuration = IF @ < 0 THEN 0 ELSE @]

Acceptable(opt) ==
    /\ opt.history \in MinHistory..MaxHistory
    /\ opt.calibration < opt.history

(* New and the start of evaluate: a minimum duration needs a policy with   *)
(* persistence, and all but the sensitive one are quiet after an alarm.    *)
PolicyOf(opt) ==
    LET persistent == opt.minDuration > 0 /\ opt.policy.persist < 2 IN
    [opt.policy EXCEPT !.persist = IF persistent THEN 2 ELSE @,
                       !.of = IF persistent THEN PairOf ELSE @,
                       !.refractory = IF @ = 0 /\ ~opt.sensitive THEN RefractoryScale ELSE @,
                       !.warmup = opt.calibration, !.threshold = 1]

NewDetector(opt) ==
    [kind |-> "pipe", opt |-> opt, len |-> 0, base |-> 0, seen |-> 0, sinceRun |-> 0,
     emitted |-> -1, calibrated |-> FALSE, batch |-> <<>>, reported |-> <<>>]

Ready(d) == d.len > d.opt.calibration

(* push: a full window forgets its oldest observation, and base moves.     *)
SlidInPlace(d) ==   \* faulty variant: base stays
    [d EXCEPT !.len = IF @ = d.opt.history THEN @ ELSE @ + 1, !.seen = @ + 1]
Slid(d) ==
    [d EXCEPT !.len = IF @ = d.opt.history THEN @ ELSE @ + 1,
              !.base = IF d.len = d.opt.history THEN @ + 1 ELSE @,
              !.seen = @ + 1]

(* locate: from the crossing to the largest deviation near it, grown while *)
(* the deviation is at least half of it, and never less than the crossing. *)
Best(dev, lo, hi) == CHOOSE d \in {dev[i] : i \in lo..hi} : \A i \in lo..hi : dev[i] <= d
Anchor(dev, lo, hi, best) ==
    CHOOSE i \in lo..hi : dev[i] = best /\ \A k \in lo..i - 1 : dev[k] < best
Near(dev, best, anchor, i) == \A k \in i..anchor \cup anchor..i : 2 * dev[k] >= best

Locate(dev, start, end, search) ==
    LET lo == IF start - search < 1 THEN 1 ELSE start - search
        hi == IF end + search > Len(dev) THEN Len(dev) ELSE end + search
        best == Best(dev, lo, hi)
        anchor == Anchor(dev, lo, hi, best)
        a == CHOOSE i \in lo..anchor : Near(dev, best, anchor, i)
                                      /\ \A k \in lo..i - 1 : ~Near(dev, best, anchor, k)
        b == CHOOSE i \in anchor..hi : Near(dev, best, anchor, i)
                                      /\ \A k \in i + 1..hi : ~Near(dev, best, anchor, k) IN
    IF best <= 0 THEN <<start, end>>
    ELSE <<IF a > start THEN start ELSE a, IF b < end THEN end ELSE b>>

(* The calibration part has p-value 1: no score of it is over a threshold. *)
Scored(d) == d.opt.calibration + 1 .. d.len

(* GateByEffect: what fired without much of an effect does not count.      *)
GateByEffect(fired, weak) == [i \in DOMAIN fired |-> fired[i] /\ i \notin weak]

(* What is external in an evaluation: the positions over the threshold,    *)
(* those of a small effect, when one is asked for, the crossings of regions*)
(* without a shape, which a minimum duration drops, and the deviations.    *)
Statistics(d) ==
    [over : SUBSET Scored(d), weak : IF d.opt.effect THEN SUBSET Scored(d) ELSE {{}},
     odd : IF d.opt.minDuration > 0 THEN SUBSET Scored(d) ELSE {{}},
     dev : [1..d.len -> Deviations]]

(* evaluate: the alarms of the window, in the order of their regions, with *)
(* absolute positions.                                                     *)
RegionsOf(d, stats) ==
    LET scores == [i \in 1..d.len |-> IF i \in stats.over THEN 1 ELSE 0]
        fired  == GateByEffect(Apply(scores, PolicyOf(d.opt)), stats.weak) IN
    Candidates([i \in DOMAIN fired |-> IF fired[i] THEN 1 ELSE 0], 1, Bridge)

AlarmAt(d, r, spot) ==
    [start |-> d.base + spot[1] - 1, end |-> d.base + spot[2] - 1,
     crossing |-> d.base + r.start - 1]
AlarmOf(d, stats, r) ==
    AlarmAt(d, r, Locate(stats.dev, r.start, r.end, d.opt.calibration \div 2))

LongAlarms(d, stats, regions, found) ==
    LET long(a) == a.end - a.start + 1 >= d.opt.minDuration IN
    Subsequence(found, {k \in DOMAIN found :
                          regions[k].start \notin stats.odd /\ long(found[k])})

AlarmsOf(d, stats, regions) ==
    LongAlarms(d, stats, regions, [k \in DOMAIN regions |-> AlarmOf(d, stats, regions[k])])

Evaluate(d, stats) == AlarmsOf(d, stats, RegionsOf(d, stats))

-----------------------------------------------------------------------------
PipeInit == pipe = NoPipe

MakeDetector(opt) ==
    /\ pipe = NoPipe
    /\ pipe' = IF Acceptable(ResolvedPipe(opt)) THEN NewDetector(ResolvedPipe(opt)) ELSE Refused

(* Push of an observation that calls for no evaluation                     *)
Wait ==
    /\ pipe.kind = "pipe" /\ pipe.seen < MaxSeen
    /\ ~Ready(Slid(pipe)) \/ pipe.sinceRun + 1 < pipe.opt.refresh
    /\ pipe' = [Slid(pipe) EXCEPT !.sinceRun = @ + 1, !.batch = <<>>]

(* Push of one that does, when a threshold can be established: only the    *)
(* alarms that start after the last start reported are returned.           *)
FreshAlarms(d, all) == Subsequence(all, {k \in DOMAIN all : all[k].start > d.emitted})

Returned(d, fresh) ==
    LET starts == {fresh[i].start : i \in DOMAIN fresh} IN
    [d EXCEPT !.batch = fresh, !.reported = @ \o [i \in DOMAIN fresh |-> fresh[i].start],
              !.emitted = IF starts = {} THEN @ ELSE CHOOSE m \in starts : \A s \in starts : s <= m]

Evaluated(stats) ==
    LET d == [Slid(pipe) EXCEPT !.sinceRun = 0, !.calibrated = TRUE] IN
    Returned(d, FreshAlarms(d, Evaluate(d, stats)))

Due == /\ pipe.kind = "pipe" /\ pipe.seen < MaxSeen
       /\ Ready(Slid(pipe)) /\ pipe.sinceRun + 1 >= pipe.opt.refresh

Run == /\ Due
       /\ \E stats \in Statistics(Slid(pipe)) : pipe' = Evaluated(stats)

(* and when none can: the series is too short or too flat.                 *)
RunUncalibrated ==
    /\ Due /\ ~pipe.opt.budget
    /\ pipe' = [Slid(pipe) EXCEPT !.sinceRun = 0, !.calibrated = FALSE, !.batch = <<>>]

(* Scan: a whole window of n observations, from a fresh start.             *)
Scan(n) ==
    /\ pipe.kind = "pipe" /\ pipe.seen = 0
    /\ LET kept == IF n > pipe.opt.history THEN pipe.opt.history ELSE n
           d == [pipe EXCEPT !.len = kept, !.base = n - kept, !.seen = n, !.sinceRun = 0,
                             !.emitted = -1] IN
       IF ~Ready(d) THEN pipe' = [d EXCEPT !.kind = "scanned"]
       ELSE \E stats \in Statistics(d) :
              pipe' = [d EXCEPT !.kind = "scanned", !.calibrated = TRUE,
                                !.batch = Evaluate(d, stats)]

PipeNext == \/ \E opt \in PipeOptions : MakeDetector(opt)
            \/ Wait
            \/ Run
            \/ RunUncalibrated
            \/ \E n \in 1..MaxSeen : Scan(n)

-----------------------------------------------------------------------------
(* The promises of Push and Scan about positions and time: positions are   *)
(* absolute and inside the window (base counts what was forgotten), a      *)
(* report covers the crossing it stands for and is as long as asked, it    *)
(* starts after whatever an earlier Push reported, a detector that is      *)
(* ready has evaluated less than Refresh observations ago, and one that    *)
(* could not calibrate reports nothing.  (Two alarms of one Push may start *)
(* together, when two regions are moved to one deviation.)                 *)
ReportsInWindow ==
    pipe.kind \in {"pipe", "scanned"} =>
      /\ pipe.base + pipe.len = pipe.seen /\ pipe.len <= pipe.opt.history
      /\ pipe.kind = "pipe" /\ Ready(pipe) => pipe.sinceRun < pipe.opt.refresh
      /\ ~pipe.calibrated => pipe.batch = <<>>
      /\ \A i \in DOMAIN pipe.batch :
           LET a == pipe.batch[i] IN
           /\ pipe.base <= a.start /\ a.start <= a.crossing
           /\ a.crossing <= a.end /\ a.end < pipe.seen
           /\ a.crossing >= pipe.base + pipe.opt.calibration
           /\ a.end - a.start + 1 >= pipe.opt.minDuration
           /\ pipe.kind = "pipe" =>
                \A j \in 1..Len(pipe.reported) - Len(pipe.batch) : pipe.reported[j] < a.start
=============================================================================
