-------------------------------- MODULE Tail --------------------------------
(***************************************************************************)
(* Extreme-value thresholds of a stream (evt/spot.go, snapshot.go,         *)
(* probability.go): SPOT keeps the excesses over a first level and a       *)
(* threshold fitted to them; DSPOT does so for what exceeds a moving mean; *)
(* StreamProbabilities ranks each value among the earlier ones.            *)
(*                                                                         *)
(* The fit is the instance's: FitOf(peaks), or NoFit, and QuantileAt and   *)
(* SurvivalAt of it.  Values are multiples of Depth, so that means of a    *)
(* full window are integers; a probability is a pair <<p, q>> for p / q.   *)
(***************************************************************************)
EXTENDS Integers, Sequences, SequencesExt, FiniteSetsExt

CONSTANTS TailValues,    \* finite values
          NotFinite,     \* NaN or an infinity
          NoFit, FitOf(_), QuantileAt(_, _, _, _), SurvivalAt(_, _, _, _, _),
          TailLevel,     \* the level of the first threshold, <<num, den>>
          MinPeaks, MaxPeaks, RefitEvery,   \* 10, 2000 and 1 in the code
          Depth,         \* the window of DSPOT's mean
          Calibrated,    \* calibration sequences, of one length
          MaxTail        \* bound: values after the calibration

VARIABLE tail
tailVars == <<tail>>

Latest(s, n) == IF Len(s) > n THEN SubSeq(s, Len(s) - n + 1, Len(s)) ELSE s
Numbers(s) == SelectSeq(s, LAMBDA x : x # NotFinite)
Excess(s, t) == LET over == SelectSeq(s, LAMBDA x : x > t) IN
                [i \in DOMAIN over |-> over[i] - t]

(* quantileOf a sorted sequence, with linear interpolation                 *)
LevelOf(s) ==
    LET sorted == SortSeq(s, <)
        pos    == TailLevel[1] * (Len(s) - 1)
        i      == pos \div TailLevel[2] + 1 IN
    IF i >= Len(s) THEN sorted[Len(s)]
    ELSE sorted[i] + ((pos % TailLevel[2]) * (sorted[i + 1] - sorted[i])) \div TailLevel[2]

-----------------------------------------------------------------------------
(* SPOT.  A calibration that fails leaves what it has assigned by then.    *)
NewSpot == [init |-> 0, zq |-> 0, peaks |-> <<>>, fit |-> NoFit,
            n |-> 0, nt |-> 0, since |-> 0, ready |-> FALSE]

SpotCalibrate(s, initial) ==
    LET clean == Numbers(initial)  t == LevelOf(clean)  all == Excess(clean, t)
        begun == [s EXCEPT !.init = t, !.peaks = all, !.n = Len(clean), !.nt = Len(all)]
        kept  == Latest(all, MaxPeaks) IN
    IF Len(clean) < 2 * MinPeaks THEN s
    ELSE IF Len(all) < MinPeaks THEN begun
    ELSE IF FitOf(kept) = NoFit THEN [begun EXCEPT !.peaks = kept]
    ELSE [begun EXCEPT !.peaks = kept, !.fit = FitOf(kept), !.ready = TRUE,
                       !.zq = QuantileAt(FitOf(kept), t, Len(clean), Len(all))]

Alarming(s, x) == s.ready /\ x # NotFinite /\ x > s.zq

(* Step: a value that raises an alarm is not learned.                      *)
Stepped(s, x) ==
    LET peaks == Latest(Append(s.peaks, x - s.init), MaxPeaks)
        due   == s.since + 1 >= RefitEvery
        fit   == IF due /\ FitOf(peaks) # NoFit THEN FitOf(peaks) ELSE s.fit IN
    IF ~s.ready \/ x = NotFinite \/ Alarming(s, x) THEN s
    ELSE IF x <= s.init THEN [s EXCEPT !.n = @ + 1]
    ELSE [s EXCEPT !.n = @ + 1, !.nt = @ + 1, !.peaks = peaks, !.fit = fit,
                   !.since = IF due THEN 0 ELSE @ + 1,
                   !.zq = QuantileAt(fit, s.init, s.n + 1, s.nt + 1)]

(* Snapshot and RestoreSPOT                                                *)
RestoredSpot(s) == [init |-> s.init, zq |-> s.zq, peaks |-> s.peaks, fit |-> s.fit,
                    n |-> s.n, nt |-> s.nt, since |-> s.since, ready |-> s.ready]

-----------------------------------------------------------------------------
(* DSPOT: a ring of the last Depth values and their running sum, which a   *)
(* value that is not finite makes not finite for good.                     *)
Plus(a, b)  == IF a = NotFinite \/ b = NotFinite THEN NotFinite ELSE a + b
Minus(a, b) == IF a = NotFinite \/ b = NotFinite THEN NotFinite ELSE a - b

NewDspot == [spot |-> NewSpot, win |-> [i \in 0..Depth - 1 |-> 0], idx |-> 0,
             full |-> FALSE, sum |-> 0]

PushKeepingOldest(d, x) ==   \* faulty variant: what leaves the window stays in the sum
    [d EXCEPT !.win[d.idx] = x, !.sum = Plus(@, x),
              !.idx = (@ + 1) % Depth, !.full = @ \/ d.idx + 1 >= Depth]
PushValue(d, x) ==
    [d EXCEPT !.win[d.idx] = x,
              !.sum = Plus(IF d.full THEN Minus(@, d.win[d.idx]) ELSE @, x),
              !.idx = (@ + 1) % Depth, !.full = @ \/ d.idx + 1 >= Depth]

Local(d) == LET n == IF d.full THEN Depth ELSE d.idx IN
            IF n = 0 THEN 0 ELSE IF d.sum = NotFinite THEN NotFinite ELSE d.sum \div n

DCalibrate(d, initial) ==
    LET empty  == [d EXCEPT !.idx = 0, !.full = FALSE, !.sum = 0]
        first  == FoldLeft(PushValue, empty, SubSeq(initial, 1, Depth))
        next(acc, x) == [d |-> PushValue(acc.d, x),
                         res |-> Append(acc.res, Minus(x, Local(acc.d)))]
        all    == FoldLeft(next, [d |-> first, res |-> <<>>],
                           SubSeq(initial, Depth + 1, Len(initial))) IN
    IF Len(initial) <= Depth THEN d
    ELSE [all.d EXCEPT !.spot = SpotCalibrate(@, all.res)]

DAlarming(d, x) == x # NotFinite /\ Alarming(d.spot, Minus(x, Local(d)))

DStepped(d, x) ==
    IF x = NotFinite \/ DAlarming(d, x) THEN d
    ELSE PushValue([d EXCEPT !.spot = Stepped(@, Minus(x, Local(d)))], x)

RestoredDspot(d) == [spot |-> RestoredSpot(d.spot), win |-> d.win, idx |-> d.idx,
                     full |-> d.full, sum |-> d.sum]

-----------------------------------------------------------------------------
(* StreamProbabilities: the share of earlier values that are as large, or  *)
(* the tail's if that is smaller.                                          *)
Less(a, b) == a[1] * b[2] < b[1] * a[2]

Ranked(hist, x) ==
    IF hist = <<>> THEN <<1, 1>>
    ELSE <<1 + Len(SelectSeq(hist, LAMBDA h : h >= x)), Len(hist) + 1>>

Probability(s, x) ==
    IF ~s.ready \/ x <= s.init THEN <<1, 1>> ELSE SurvivalAt(s.fit, s.init, x, s.n, s.nt)

(* residuals: each value less the mean of up to Depth values before it     *)
Residuals(values) ==
    LET before(i) == SubSeq(values, IF i > Depth THEN i - Depth ELSE 1, i - 1)
        spoilt(i) == \E j \in 1..i : values[j] = NotFinite IN
    [i \in DOMAIN values |->
        IF i = 1 THEN 0 ELSE IF spoilt(i) THEN NotFinite
        ELSE values[i] - FoldLeft(+, 0, before(i)) \div Len(before(i))]

StreamProbabilities(values, calibration, drift) ==
    LET work  == IF drift THEN Residuals(values) ELSE values
        first == SubSeq(work, 1, calibration)
        take(acc, x) ==
            LET p  == Ranked(acc.hist, x)
                pe == Probability(acc.spot, x)
                q  == IF acc.spot.ready /\ x > acc.spot.init /\ Less(pe, p) THEN pe ELSE p IN
            IF x = NotFinite THEN [acc EXCEPT !.out = Append(@, <<1, 1>>)]
            ELSE [out  |-> Append(acc.out, q), hist |-> Append(acc.hist, x),
                  spot |-> Stepped(acc.spot, x)]
        start == [out  |-> [i \in 1..calibration |-> <<1, 1>>],
                  hist |-> Numbers(first), spot |-> SpotCalibrate(NewSpot, first)] IN
    IF Len(values) <= calibration THEN [i \in DOMAIN values |-> <<1, 1>>]
    ELSE FoldLeft(take, start, SubSeq(work, calibration + 1, Len(work))).out

-----------------------------------------------------------------------------
InitialLen == CHOOSE n \in {Len(c) : c \in Calibrated} : TRUE

TailInit == tail = [kind |-> "none"]

(* The stream is calibrated; a twin is restored from saved state at times. *)
StartTail(initial) ==
    /\ tail.kind = "none"
    /\ LET d == DCalibrate(NewDspot, initial) IN
       tail' = [kind |-> "stream", d |-> d, twin |-> d, all |-> initial, kept |-> initial,
                agree |-> TRUE]

StepTail(x) ==
    /\ tail.kind = "stream" /\ Len(tail.all) < MaxTail + InitialLen
    /\ tail' = [tail EXCEPT !.d = DStepped(@, x), !.twin = DStepped(@, x),
                            !.all = Append(@, x),
                            !.kept = IF DAlarming(tail.d, x) \/ x = NotFinite THEN @
                                     ELSE Append(@, x),
                            !.agree = @ /\ (DAlarming(tail.d, x) <=> DAlarming(tail.twin, x))]

RestoreTail ==   \* a snapshot of a value that is not finite fails
    /\ tail.kind = "stream"
    /\ NotFinite \notin {tail.d.sum} \cup {tail.d.win[i] : i \in 0..Depth - 1}
    /\ tail' = [tail EXCEPT !.twin = RestoredDspot(tail.d)]

TailNext ==
    \/ \E initial \in Calibrated : StartTail(initial)
    \/ \E x \in TailValues \cup {NotFinite} : StepTail(x)
    \/ RestoreTail

-----------------------------------------------------------------------------
(* What the detector compares with is the mean of the last Depth values it *)
(* has learned, the calibration's included, alarms left out, and a restart *)
(* at any moment goes unnoticed; the counts of values and of peaks agree   *)
(* with what was learned, and the excesses kept are bounded.  (What NaN in *)
(* a calibration does is excepted: the mean is lost with it.)              *)
TailsFollow ==
    tail.kind = "stream" /\ NotFinite \notin ToSet(tail.kept) =>
      LET d == tail.d  s == d.spot  recent == Latest(tail.kept, Depth) IN
      /\ Local(d) = FoldLeft(+, 0, recent) \div Len(recent)
      /\ tail.agree
      /\ s.ready => s.n = Len(tail.kept) - Depth
      /\ s.ready => Len(s.peaks) = IF s.nt < MaxPeaks THEN s.nt ELSE MaxPeaks

(* No probability StreamProbabilities gives a value depends on a later     *)
(* one, whether drift is removed or not, and all of them are in (0, 1].    *)
RanksLookBack ==
    tail.kind = "stream" =>
      LET c == InitialLen
          whole(drift) == StreamProbabilities(tail.all, c, drift) IN
      \A drift \in BOOLEAN :
        /\ Len(tail.all) > c =>
             SubSeq(whole(drift), 1, Len(tail.all) - 1) =
               StreamProbabilities(SubSeq(tail.all, 1, Len(tail.all) - 1), c, drift)
        /\ \A p \in ToSet(whole(drift)) : p[1] > 0 /\ p[1] <= p[2]
=============================================================================
