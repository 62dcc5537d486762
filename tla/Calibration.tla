----------------------------- MODULE Calibration -----------------------------
(***************************************************************************)
(* Calibrated significance (conformal/conformal.go, conformal/block.go,    *)
(* fdr/fdr.go): scores become p-values by their rank in a calibration      *)
(* sample, per slot of a period or per run length, and streams of p-values *)
(* become rejections under a false-discovery rate, in a batch or online.   *)
(*                                                                         *)
(* A rate is a pair <<numerator, denominator>>; scores are integers or     *)
(* NaN, with -Inf and Inf for the infinities; indices     *)
(* start at 1 where the code's start at 0.                                 *)
(***************************************************************************)
EXTENDS Integers, FiniteSets, Sequences, FiniteSetsExt, SequencesExt

CONSTANTS NaN, Inf,
          CalScores,     \* the scores, integers or NaN
          Alphas,        \* the rates asked for
          MaxSample,     \* bound: length of a sample
          Unit,          \* p-values of the FDR procedures are 0..Unit over Unit
          MaxTests,      \* bound: tests of an online procedure
          GammaShare     \* the share of each age, in parts of Unit, summing to at most Unit

VARIABLE calib
calibVars == <<calib>>
Uncalibrated == [kind |-> "none"]

AtMost(r, s) == r[1] * s[2] <= s[1] * r[2]

-----------------------------------------------------------------------------
(* conformal.go *)

Finite(sample) == SelectSeq(sample, LAMBDA v : v \notin {NaN, Inf, -Inf})

(* MinCalibration: ceil(1/alpha) - 1                                       *)
MinCalibration(alpha) == (alpha[2] + alpha[1] - 1) \div alpha[1] - 1

(* NewTrimmed: the finite scores, sorted; a trim drops the highest share,  *)
(* unless what is kept would be too small for alpha.                       *)
Trimmed(sample, alpha, trim) ==
    LET clean == SortSeq(Finite(sample), <)
        keep  == Len(clean) - (Len(clean) * trim[1]) \div trim[2] IN
    IF trim[1] > 0 /\ 2 * trim[1] < trim[2] /\ keep >= MinCalibration(alpha) /\ keep > 0
    THEN SubSeq(clean, 1, keep) ELSE clean

NoTrim == <<0, 1>>

(* P: the rank of a score among the calibration's, as a p-value            *)
P(cal, score) ==
    IF cal = <<>> \/ score = NaN THEN <<1, 1>>
    ELSE <<1 + Cardinality({i \in DOMAIN cal : cal[i] >= score}), Len(cal) + 1>>

CalAlarm(cal, alpha, score) == AtMost(P(cal, score), alpha)

CalThreshold(cal, alpha) ==
    LET n == Len(cal)  k == (alpha[1] * (n + 1)) \div alpha[2] - 1 IN
    IF n = 0 \/ k < 0 THEN Inf ELSE IF k >= n THEN -Inf ELSE cal[n - k]

(* Guarantee, times n + 1: the alarms among n + 1 exchangeable scores      *)
GuaranteedAlarms(alpha, n) == (alpha[1] * (n + 1)) \div alpha[2]

(* NewMondrian: one calibrator per phase of the period                     *)
Mondrian(sample, period) ==
    [s \in 0..period - 1 |->
        SortSeq(Finite([j \in 1..Cardinality({i \in DOMAIN sample : (i - 1) % period = s}) |->
                            sample[s + 1 + (j - 1) * period]]), <)]

(* Probabilities: the first cal scores calibrate; the others are ranked    *)
(* against them, against their own phase, or against the scores just       *)
(* before them when the sample slides.                                     *)
Probabilities(scores, opt) ==
    LET cal   == IF opt.cal < MinCalibration(opt.alpha) THEN MinCalibration(opt.alpha) ELSE opt.cal
        first == SubSeq(scores, 1, cal)
        fixed == Trimmed(first, opt.alpha, NoTrim)
        slid(i) == Trimmed(SubSeq(scores, i - cal, i - 1), opt.alpha, NoTrim) IN
    [i \in DOMAIN scores |->
        IF Len(scores) <= cal \/ i <= cal THEN <<1, 1>>
        ELSE IF opt.period > 1 THEN P(Mondrian(first, opt.period)[(i - 1) % opt.period], scores[i])
        ELSE P(IF opt.slide THEN slid(i) ELSE fixed, scores[i])]

-----------------------------------------------------------------------------
(* block.go: one calibrator per window length 1, 2, 4, .., maxWindow, on   *)
(* the maxima of the windows of that length.                               *)

BlockWindows(maxWindow) ==
    LET top == IF maxWindow < 1 THEN 1 ELSE maxWindow IN
    {w \in 1..top : w = top \/ \E e \in 0..top : w = 2 ^ e}

SlidingMax(sample, w) ==
    LET finite(i) == {k \in i..i + w - 1 : sample[k] \notin {NaN, Inf, -Inf}}
        starts == SetToSortSeq({i \in 1..Len(sample) - w + 1 : finite(i) # {}}, <) IN
    [j \in DOMAIN starts |-> Max({sample[k] : k \in finite(starts[j])})]

NewBlock(sample, maxWindow, alpha, trim) ==
    [w \in {w \in BlockWindows(maxWindow) : SlidingMax(sample, w) # <<>>} |->
        Trimmed(SlidingMax(sample, w), alpha, trim)]

(* pick: the longest window no longer than the run, or the shortest        *)
Pick(block, runLen) ==
    LET fit == {w \in DOMAIN block : w <= runLen} IN
    block[IF fit # {} THEN Max(fit) ELSE Min(DOMAIN block)]

BlockP(block, runMax, runLen) ==
    IF DOMAIN block = {} THEN <<1, 1>> ELSE P(Pick(block, runLen), runMax)

-----------------------------------------------------------------------------
(* fdr.go.  A p-value is a part of Unit, or NaN, and is never        *)
(* rejected then.                                                          *)

Clean(pvals) == {i \in DOMAIN pvals : pvals[i] # NaN}

RankOf(pvals, i) ==
    Cardinality({j \in Clean(pvals) : \/ pvals[j] < pvals[i]
                                      \/ pvals[j] = pvals[i] /\ j <= i})

(* step and rejectUpTo: the last p-value, in order, under its line decides *)
StepDown(pvals, q, scale) ==   \* faulty variant: the first one over its line decides
    LET m == Cardinality(Clean(pvals))
        over == {RankOf(pvals, i) : i \in {i \in Clean(pvals) :
                    pvals[i] * m * q[2] * scale[1] > RankOf(pvals, i) * q[1] * scale[2] * Unit}} IN
    {i \in Clean(pvals) : \A r \in over : RankOf(pvals, i) < r}
StepUp(pvals, q, scale) ==
    LET m == Cardinality(Clean(pvals))
        under == {RankOf(pvals, i) : i \in {i \in Clean(pvals) :
                    pvals[i] * m * q[2] * scale[1] <= RankOf(pvals, i) * q[1] * scale[2] * Unit}} IN
    IF under = {} THEN {} ELSE {i \in Clean(pvals) : RankOf(pvals, i) <= Max(under)}

BH(pvals, q) == StepUp(pvals, q, <<1, 1>>)

Harmonic(m) ==
    LET h[i \in 0..m] == IF i = 0 THEN <<0, 1>>
                         ELSE <<h[i - 1][1] * i + h[i - 1][2], h[i - 1][2] * i>> IN h[m]

BenjaminiYekutieli(pvals, q) == StepUp(pvals, q, Harmonic(Cardinality(Clean(pvals))))

(* Storey: the share of true nulls, judged by the p-values over lambda     *)
Storey(pvals, lambda) ==
    LET m == Cardinality(Clean(pvals))
        above == Cardinality({i \in Clean(pvals) : pvals[i] * lambda[2] > lambda[1] * Unit}) IN
    IF m = 0 \/ above * lambda[2] > m * (lambda[2] - lambda[1]) THEN <<1, 1>>
    ELSE IF above = 0 THEN <<1, m>>
    ELSE <<above * lambda[2], m * (lambda[2] - lambda[1])>>

StoreyBH(pvals, q, lambda) == StepUp(pvals, q, Storey(pvals, lambda))

(* Level, in parts of 2 * Unit * Unit: what the next test may spend, half  *)
(* the rate shared over the ages of the tests, the other half over those   *)
(* since the first rejection, the whole rate since each later one.         *)
Gamma(age) == IF age < 1 THEN 0 ELSE GammaShare[age]

Level(lord) ==
    LET t == lord.t + 1
        earned[j \in 0..Len(lord.rejects)] ==
            IF j = 0 THEN Gamma(t) * lord.q
            ELSE earned[j - 1]
                 + (IF j = 1 THEN 1 ELSE 2) * lord.q * Gamma(t - lord.rejects[j]) IN
    LET sum == earned[Len(lord.rejects)] IN
    IF sum > 2 * lord.q * Unit THEN 2 * lord.q * Unit ELSE sum
-----------------------------------------------------------------------------
CalibInit == calib = Uncalibrated

Samples == UNION {[1..n -> CalScores] : n \in 1..MaxSample}
PValues == UNION {[1..n -> {0, 1, 3, Unit, NaN}] : n \in 1..MaxSample}
Trims == {NoTrim, <<1, 3>>}

Rank1(sample, alpha, trim) ==
    /\ calib = Uncalibrated
    /\ calib' = [kind |-> "rank", sample |-> sample, alpha |-> alpha,
                 cal |-> Trimmed(sample, alpha, trim)]

Stream(scores, opt) ==
    /\ calib = Uncalibrated
    /\ calib' = [kind |-> "stream", scores |-> scores, opt |-> opt,
                 out |-> Probabilities(scores, opt)]

Block(sample, maxWindow, alpha) ==
    /\ calib = Uncalibrated
    /\ calib' = [kind |-> "block", sample |-> sample, maxWindow |-> maxWindow,
                 block |-> NewBlock(sample, maxWindow, alpha, NoTrim)]

Discover(pvals, q) ==
    /\ calib = Uncalibrated
    /\ calib' = [kind |-> "fdr", pvals |-> pvals, q |-> q, bh |-> BH(pvals, q),
                 by |-> BenjaminiYekutieli(pvals, q), storey |-> StoreyBH(pvals, q, <<1, 2>>)]

(* NewLORD and Step: a test spends its level, whatever its p-value         *)
Online(q) ==
    /\ calib = Uncalibrated
    /\ calib' = [kind |-> "lord", q |-> q, t |-> 0, rejects |-> <<>>, spent |-> 0]

Test(p) ==
    /\ calib.kind = "lord" /\ calib.t < MaxTests
    /\ calib' = [calib EXCEPT
                   !.t = @ + 1, !.spent = @ + Level(calib),
                   !.rejects = IF p # NaN /\ p * 2 * Unit <= Level(calib)
                               THEN Append(@, calib.t + 1) ELSE @]

CalibNext ==
    \/ \E s \in Samples, a \in Alphas, trim \in Trims : Rank1(s, a, trim)
    \/ \E s \in Samples, a \in Alphas, c \in 1..2, period \in 1..2, slide \in BOOLEAN :
          Stream(s, [alpha |-> a, cal |-> c, period |-> period, slide |-> slide])
    \/ \E s \in Samples, a \in Alphas, w \in 1..3 : Block(s, w, a)
    \/ \E p \in PValues, q \in Alphas : Discover(p, q)
    \/ \E q \in 1..Unit - 1 : Online(q)
    \/ \E p \in {0, 1, Unit, NaN} : Test(p)

-----------------------------------------------------------------------------
(* The finite-sample guarantee Guarantee computes: however a sample is     *)
(* drawn, of its members each ranked against all the others at most        *)
(* floor(alpha * n) alarm.  And the two ways a caller can ask agree: Alarm *)
(* is "above Threshold", also for a trimmed sample, and a threshold is     *)
(* finite as soon as the sample has MinCalibration members.                *)
ConformalGuarantee ==
    calib.kind = "rank" =>
      LET s == Finite(calib.sample)  cal == calib.cal  alpha == calib.alpha
          others(i) == Trimmed(RemoveAt(s, i), alpha, NoTrim) IN
      /\ s # <<>> => Cardinality({i \in DOMAIN s : CalAlarm(others(i), alpha, s[i])})
                       <= GuaranteedAlarms(alpha, Len(s) - 1)
      /\ \A v \in CalScores \ {NaN} :
            CalAlarm(cal, alpha, v) <=> v > CalThreshold(cal, alpha)
      /\ CalThreshold(cal, alpha) = Inf <=> Len(cal) < MinCalibration(alpha)

(* A p-value given online stands: it does not depend on the scores after   *)
(* it (for a given calibration length), no slot of a period or slid sample *)
(* looks ahead.                                                            *)
NoLookAhead ==
    calib.kind = "stream" =>
      \A k \in DOMAIN calib.out :
        /\ \E prefix \in {SubSeq(calib.scores, 1, k)} :
              calib.out[k] = Probabilities(prefix, calib.opt)[k]
        /\ calib.out[k][1] \in 1..calib.out[k][2]

(* A longer run needs a higher peak: at the same peak its p-value is never *)
(* smaller, whichever window lengths a sample without gaps was long enough *)
(* for.                                                                    *)
BlockMonotone ==
    calib.kind = "block" /\ NaN \notin ToSet(calib.sample) =>
      \A v \in CalScores \ {NaN}, long \in 1..calib.maxWindow + 1 : \A short \in 0..long :
         AtMost(BlockP(calib.block, v, short), BlockP(calib.block, v, long))

(* The false-discovery procedures: the rejected p-values are the smallest, *)
(* there is no larger set all under its line, NaN is never among them and  *)
(* does not count; BY rejects no more than BH, and BH no more than its     *)
(* adaptive form.                                                          *)
StepUpIsLargest ==
    calib.kind = "fdr" =>
      LET p == calib.pvals  ok == Clean(p)  m == Cardinality(ok)
          fits(k) == Cardinality({i \in ok : p[i] * m * calib.q[2] <= k * calib.q[1] * Unit}) >= k
      IN
      /\ Cardinality(calib.bh) = Max({k \in 0..m : fits(k)})
      /\ \A i \in calib.bh, j \in ok \ calib.bh : p[i] < p[j]
      /\ calib.by \subseteq calib.bh
      /\ calib.bh \subseteq calib.storey

(* Online testing stays within its wealth: whatever the p-values, the      *)
(* levels spent so far sum to at most the rate times the rejections made,  *)
(* or to half the rate before the first.                                   *)
WealthKept ==
    calib.kind = "lord" =>
      calib.spent <= calib.q * Unit * (IF calib.rejects = <<>> THEN 1
                                       ELSE 2 * Len(calib.rejects))
=============================================================================
