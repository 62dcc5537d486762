----------------------------- MODULE AlarmGuard -----------------------------
(***************************************************************************)
(* The alarm policy (guard/guard.go, budget.go, candidate.go): what turns  *)
(* a stream of scores into alarms.  A Guard holds a ring of the last Of    *)
(* verdicts with a running count of the set ones, a quiet period after an  *)
(* alarm, a warm-up, suppression windows, a penalty raised by operator     *)
(* feedback and a cooldown.  SolveThreshold runs the whole policy over a   *)
(* recorded window to find the threshold that spends an alarm budget;      *)
(* Candidates groups what is over a threshold into regions.                *)
(*                                                                         *)
(* Scores are small integers, NotANumber or Infinite; indices start at 1   *)
(* where the code's start at 0.                                            *)
(***************************************************************************)
EXTENDS Selections, SequencesExt

CONSTANTS NotANumber,   \* the score NaN
          Infinite,     \* +Inf, an integer above every finite score
          Scores,       \* the finite scores, naturals
          Policies,     \* the policies (Options) the stream is run under
          MaxSamples,   \* bound: scores fed to one guard
          MaxWindow,    \* bound: length of a recorded window
          MaxPenalty    \* the ceiling the feedback penalises up to

(* A threshold may be set anywhere; waiting times are not negative, and no *)
(* finite score reaches +Inf.                                              *)
ASSUME PoliciesAssumption ==
    /\ Infinite \in Nat \ {0} /\ Scores \subseteq Nat /\ MaxPenalty \in Int /\ MaxWindow \in Nat
    /\ \A s \in Scores : s < Infinite
    /\ \A opt \in Policies :
         opt \in [persist : Int, of : Int, refractory : Nat, warmup : Nat, cooldown : Int,
                 threshold : Int, suppress : SUBSET (Int \X Int)]

VARIABLE alarms         \* None, or the guard with what it was fed

alarmVars == <<alarms>>

None == [kind |-> "none"]

Over(score, threshold) == score # NotANumber /\ score >= threshold

(* Options.resolve: the defaults; a threshold of 0 means "never".          *)
Resolved(opt) ==
    LET persist == IF opt.persist < 1 THEN 1 ELSE opt.persist IN
    [opt EXCEPT !.persist = persist,
                !.of = IF @ < persist THEN persist ELSE @,
                !.threshold = IF @ = 0 THEN Infinite ELSE @]

NewGuard(opt) ==
    [opt |-> Resolved(opt), ring |-> [i \in 0..Resolved(opt).of - 1 |-> FALSE],
     at |-> 0, filled |-> 0, hot |-> 0, quiet |-> 0, seen |-> 0, penalty |-> 0,
     lastFire |-> -1]

Threshold(g) == g.opt.threshold + g.penalty

Suppressed(g) == \E w \in g.opt.suppress : g.seen \in w[1]..w[2]

(* push: the verdict replaces the oldest of a full ring, and the count of  *)
(* set entries follows.                                                    *)
PushedUncounted(g, over) ==   \* faulty variant: what leaves the ring still counts
    [g EXCEPT !.ring[g.at] = over, !.hot = @ + (IF over THEN 1 ELSE 0),
              !.at = (@ + 1) % g.opt.of, !.filled = IF @ < g.opt.of THEN @ + 1 ELSE @]
PushedTo(g, over) ==
    [g EXCEPT !.ring[g.at] = over,
              !.hot = @ - (IF g.filled = g.opt.of /\ g.ring[g.at] THEN 1 ELSE 0)
                        + (IF over THEN 1 ELSE 0),
              !.at = (@ + 1) % g.opt.of,
              !.filled = IF @ < g.opt.of THEN @ + 1 ELSE @]

(* What decides whether the score that was just pushed raises an alarm     *)
MayFire(before, after, score) ==
    /\ before.quiet = 0
    /\ ~Suppressed(before)
    /\ before.seen >= before.opt.warmup
    /\ after.filled >= before.opt.persist
    /\ after.hot >= before.opt.persist
    /\ ~ /\ before.opt.cooldown > 0
         /\ before.lastFire >= 0
         /\ score # NotANumber /\ score < before.opt.cooldown * Threshold(before)

(* Step: every score is pushed, also while the guard is quiet.             *)
Step(g, score) ==
    LET pushed == PushedTo(g, ~Suppressed(g) /\ Over(score, Threshold(g)))
        fires  == MayFire(g, pushed, score) IN
    [guard |-> [pushed EXCEPT !.seen = @ + 1,
                              !.quiet = IF g.quiet > 0 THEN @ - 1
                                        ELSE IF fires THEN g.opt.refractory ELSE @,
                              !.lastFire = IF fires THEN g.seen ELSE @],
     fired |-> fires]

Apply(scores, opt) ==
    FoldLeft(LAMBDA acc, s : LET r == Step(acc.guard, s) IN
                 [guard |-> r.guard, fired |-> Append(acc.fired, r.fired)],
             [guard |-> NewGuard(opt), fired |-> <<>>], scores).fired

Fires(fired) == {i \in DOMAIN fired : fired[i]}

-----------------------------------------------------------------------------
(* budget.go.  A budget is <<alarms, per>>.                                 *)

Want(budget, n) == LET w == (2 * budget[1] * n + budget[2]) \div (2 * budget[2])
                   IN  IF w < 1 THEN 1 ELSE w

Count(scores, opt, threshold) ==
    Cardinality(Fires(Apply(scores, [opt EXCEPT !.threshold = threshold])))

(* The value just below zero: scores being naturals, -1 stands for it.     *)
BelowZero == -1

(* SolveThreshold: a binary search over the distinct finite scores for the *)
(* lowest whose count, under the whole policy, fits the budget.  What is   *)
(* left to search, lo to hi, counts from 0 as the code does; every probe   *)
(* shortens it, so as many probes as there are scores end the search.      *)
Uniq(scores) == Ascending(ToSet(scores) \ {NotANumber, Infinite})

Probe(scores, budget, opt, s) ==
    LET mid == (s.lo + s.hi) \div 2
        thr == Uniq(scores)[mid + 1] IN
    IF s.lo > s.hi THEN s
    ELSE IF Count(scores, opt, thr) <= Want(budget, Len(scores))
         THEN [s EXCEPT !.best = thr, !.hi = mid - 1]
         ELSE [s EXCEPT !.lo = mid + 1]

SolveThreshold(scores, budget, opt) ==
    LET n == Len(Uniq(scores))
        search[k \in 0..n] ==
            IF k = 0 THEN [lo |-> 0, hi |-> n - 1, best |-> Infinite]
            ELSE Probe(scores, budget, opt, search[k - 1])
        best == search[n].best IN
    IF budget[1] <= 0 \/ budget[2] <= 0 \/ Uniq(scores) = <<>> THEN Infinite
    ELSE IF best = 0 THEN BelowZero ELSE best

WithBudget(scores, budget, opt) ==
    Apply(scores, [opt EXCEPT !.threshold = SolveThreshold(scores, budget, opt)])

-----------------------------------------------------------------------------
(* candidate.go: the regions over a threshold, bridging up to gap quiet    *)
(* points; the peak is the first of the highest.                           *)

Higher(scores, p, i) == IF scores[i] > scores[p] THEN i ELSE p

Extended(scores, threshold, gap, regions, i) ==
    LET open == regions[Len(regions)] IN
    IF ~Over(scores[i], threshold) THEN regions
    ELSE IF regions # <<>> /\ i - open.end - 1 <= gap
    THEN [regions EXCEPT ![Len(regions)] =
            [start |-> open.start, end |-> i, peak |-> Higher(scores, open.peak, i)]]
    ELSE Append(regions, [start |-> i, end |-> i, peak |-> i])

Candidates(scores, threshold, gap) ==
    FoldLeftDomain(LAMBDA regions, i : Extended(scores, threshold, gap, regions, i), <<>>, scores)

(* Mask: the points of the accepted regions, or their peaks only.          *)
Mask(cands, accept, peakOnly) ==
    UNION {IF peakOnly THEN {cands[i].peak} ELSE cands[i].start..cands[i].end :
             i \in {i \in DOMAIN cands : i \in DOMAIN accept => accept[i]}}

-----------------------------------------------------------------------------
AlarmInit == alarms = None

(* New                                                                     *)
OpenGuard(opt) ==
    /\ alarms = None
    /\ alarms' = [kind |-> "stream", guard |-> NewGuard(opt), log |-> <<>>]

(* Step, and the caller's record of what the guard said                    *)
Feed(score) ==
    /\ alarms.kind = "stream" /\ Len(alarms.log) < MaxSamples
    /\ LET g == alarms.guard  r == Step(g, score) IN
       alarms' = [kind |-> "stream", guard |-> r.guard,
                  log |-> Append(alarms.log,
                            [over  |-> ~Suppressed(g) /\ Over(score, Threshold(g)),
                             muted |-> Suppressed(g),
                             again |-> score = NotANumber \/ score >= g.opt.cooldown * Threshold(g),
                             fired |-> r.fired])]

(* Penalize: operator feedback raises the bar, up to a ceiling             *)
Penalize(step) ==
    /\ alarms.kind = "stream" /\ alarms.guard.penalty < MaxPenalty
    /\ Len(alarms.log) < MaxSamples
    /\ alarms' = [alarms EXCEPT !.guard.penalty =
                    IF @ + step > MaxPenalty THEN MaxPenalty ELSE @ + step]

ClearPenalty ==
    /\ alarms.kind = "stream" /\ alarms.guard.penalty > 0
    /\ Len(alarms.log) < MaxSamples
    /\ alarms' = [alarms EXCEPT !.guard.penalty = 0]

(* A recorded window given to WithBudget or to Candidates                  *)
RecordedScores == UNION {[1..n -> Scores \cup {NotANumber}] : n \in 1..MaxWindow}

Spend(scores, budget, opt) ==
    /\ alarms = None
    /\ alarms' = [kind |-> "budget", scores |-> scores, budget |-> budget,
                  threshold |-> SolveThreshold(scores, budget, opt),
                  fired |-> WithBudget(scores, budget, opt)]

Group(scores, threshold, gap) ==
    /\ alarms = None
    /\ alarms' = [kind |-> "regions", scores |-> scores, threshold |-> threshold,
                  gap |-> gap, out |-> Candidates(scores, threshold, gap)]

AlarmNext ==
    \/ \E opt \in Policies : OpenGuard(opt)
    \/ \E s \in Scores \cup {NotANumber} : Feed(s)
    \/ Penalize(1)
    \/ ClearPenalty
    \/ \E w \in RecordedScores, t \in Scores, gap \in 0..1 : Group(w, t, gap)
    \/ \E w \in RecordedScores, opt \in Policies : Spend(w, <<1, MaxWindow>>, opt)

AlarmSpec == AlarmInit /\ [][AlarmNext]_alarmVars

-----------------------------------------------------------------------------
(* An alarm is raised at a score exactly when the policy says so: past the *)
(* warm-up, outside the suppression windows, with Persist of the last Of   *)
(* verdicts over the threshold that held when each was given, no alarm in  *)
(* the Refractory scores before it, and, after a first alarm, only for a   *)
(* score above the cooldown's multiple.  The ring, its running count, the  *)
(* quiet counter and the penalty are how Step keeps this promise.          *)
FiresAsPromised ==
    alarms.kind = "stream" =>
      LET opt == alarms.guard.opt  log == alarms.log IN
      \A i \in DOMAIN log :
        log[i].fired <=>
          /\ i > opt.warmup
          /\ ~log[i].muted
          /\ Cardinality({j \in i - opt.of + 1 .. i : j >= 1 /\ log[j].over}) >= opt.persist
          /\ \A j \in i - opt.refractory .. i - 1 : j >= 1 => ~log[j].fired
          /\ (opt.cooldown > 0 /\ \E j \in 1..i - 1 : log[j].fired) => log[i].again

(* The regions are what a reader means by them: they cover every point     *)
(* over the threshold, start and end on one, are more than gap points      *)
(* apart, hold no longer quiet stretch inside, and the peak is the first   *)
(* of the highest scores of the region.                                    *)
RegionsAreMaximal ==
    alarms.kind = "regions" =>
      LET over == {i \in DOMAIN alarms.scores : Over(alarms.scores[i], alarms.threshold)}
          out  == alarms.out IN
      /\ over \subseteq Mask(out, <<>>, FALSE)
      /\ \A r \in ToSet(out) :
           /\ r.start \in over /\ r.end \in over
           /\ \A i \in r.start..r.end - alarms.gap : i..i + alarms.gap \cap over # {}
           /\ r.peak \in over
           /\ \A i \in over \cap r.start..r.end :
                \/ alarms.scores[i] < alarms.scores[r.peak]
                \/ alarms.scores[i] = alarms.scores[r.peak] /\ i >= r.peak
      /\ \A k \in 1..Len(out) - 1 : out[k + 1].start - out[k].end > alarms.gap + 1

(* What the alarm budget is for (CHANGELOG.md:387, budget_test.go:21): the *)
(* solved threshold raises no more alarms than the budget allows, whatever *)
(* the policy makes of the scores.  Where 0 is the answer the search has   *)
(* counted no alarm for it, since a policy takes a threshold of 0 for none *)
(* at all, and what it returns, just below 0, may raise any number.        *)
BudgetKept ==
    alarms.kind = "budget" =>
      \/ Cardinality(Fires(alarms.fired)) <= Want(alarms.budget, Len(alarms.scores))
      \/ 0 \in ToSet(alarms.scores) /\ alarms.threshold = BelowZero
=============================================================================
