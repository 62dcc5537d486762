------------------------------ MODULE Seasonal ------------------------------
(***************************************************************************)
(* The baseline of a series with seasons (detect/seasonal.go, state.go):   *)
(* one model until a period is found; then one per phase of the period, or *)
(* one of what two periods together leave.  A change of periods sets the   *)
(* models up again from the history kept.                                  *)
(*                                                                         *)
(* A value is its number in the stream and its bucket; a model is the      *)
(* sequence of values it was told; last is the phase told last (0: the     *)
(* global model, -1: none).  What the provider finds in a history is an    *)
(* input, and so is the second period that explains most of what the first *)
(* leaves (0 when none gains enough).                                      *)
(***************************************************************************)
EXTENDS Selections, SequencesExt

CONSTANTS SeasonMinHistory,  \* 40 in the code
          SeasonRedetect,    \* 300
          SeasonMaxHistory,  \* 6000
          FirstBucket,       \* of the stream; buckets before 1970 are negative
          Gaps,              \* from one observation's bucket to the next
          FoundPeriods,      \* sequences of periods a provider may find
          MaxSeason          \* bound: values observed

ASSUME SeasonalAssumption ==
    /\ SeasonMinHistory \in Nat /\ SeasonRedetect \in Nat \ {0} /\ SeasonMaxHistory \in Nat \ {0}
    /\ FirstBucket \in Int /\ Gaps \subseteq Int
    /\ \A found \in FoundPeriods : found \in Seq(Int)

VARIABLE season
seasonVars == <<season>>

PhaseOf(bkt, p) == bkt % p   \* TLA+'s remainder is never negative

CandidatePeriods(periods, len) ==
    Subsequence(periods, {i \in DOMAIN periods : periods[i] >= 2 /\ periods[i] <= len \div 3})

NoComps == [of |-> 0, p1 |-> 0, p2 |-> 0]

NewSeasonal ==
    [hist |-> <<>>, idx |-> 0, since |-> 0, period |-> 0, period2 |-> 0, phases |-> <<>>,
     comps |-> NoComps, resid |-> <<>>, global |-> <<>>, last |-> -1, expected |-> 0]

MultiActive(m) == m.period2 >= 2 /\ m.comps # NoComps

(* detect with setupMulti.  The components are named by the history and    *)
(* the periods they were fitted to.                                        *)
SetUpMulti(m, p1, p2) ==
    LET comps == [of |-> Last(m.hist).n, p1 |-> p1, p2 |-> p2] IN
    IF p1 = m.period /\ p2 = m.period2 THEN m
    ELSE [m EXCEPT !.period = p1, !.period2 = p2, !.phases = <<>>, !.comps = comps,
                   !.resid = [i \in DOMAIN m.hist |-> [v |-> m.hist[i], less |-> comps]]]

SetUpPhases(m, p1) ==
    IF p1 = m.period /\ ~MultiActive(m) THEN m
    ELSE [m EXCEPT !.period = p1, !.period2 = 0, !.comps = NoComps, !.resid = <<>>,
                   !.phases = [i \in 1..p1 |->
                       Subsequence(m.hist, {k \in DOMAIN m.hist : PhaseOf(m.hist[k].bkt, p1) = i - 1})]]

Detected(m, found, second) ==
    LET cands == CandidatePeriods(found, Len(m.hist)) IN
    IF cands = <<>> THEN [m EXCEPT !.since = 0]
    ELSE IF second # 0 THEN SetUpMulti([m EXCEPT !.since = 0], cands[1], second)
    ELSE SetUpPhases([m EXCEPT !.since = 0], cands[1])

RedetectDue(m) == /\ Len(m.hist) >= SeasonMinHistory
                  /\ m.period = 0 \/ m.since + 1 >= SeasonRedetect

(* The part of Observe that tells a value to the model it belongs to.      *)
ToldTo(m, v) ==
    IF MultiActive(m)
    THEN [m EXCEPT !.expected = v.bkt, !.resid = Append(@, [v |-> v, less |-> m.comps])]
    ELSE IF m.period >= 2 /\ Len(m.phases) = m.period
    THEN LET ph == PhaseOf(v.bkt, m.period) + 1 IN
         [m EXCEPT !.last = ph, !.phases[ph] = Append(@, v)]
    ELSE [m EXCEPT !.last = 0, !.global = Append(@, v)]

Remembered(m, v) ==
    LET all == Append(m.hist, v) IN
    [m EXCEPT !.hist = IF Len(all) > SeasonMaxHistory
                       THEN SubSeq(all, Len(all) - SeasonMaxHistory + 1, Len(all)) ELSE all]

DetectAfterAppend(m, v, found, second) ==   \* faulty variant: the history has the value by then
    LET begun == [m EXCEPT !.idx = @ + 1, !.since = @ + 1] IN
    ToldTo(IF RedetectDue(m) THEN Detected(Remembered(begun, v), found, second) ELSE Remembered(begun, v), v)
SeasonObserve(m, v, found, second) ==
    LET begun == [m EXCEPT !.idx = @ + 1, !.since = @ + 1] IN
    Remembered(ToldTo(IF RedetectDue(m) THEN Detected(begun, found, second) ELSE begun, v), v)

(* Bounds, by what it is taken from                                        *)
BoundsFrom(m) == IF MultiActive(m) THEN <<m.expected, m.resid>>
                 ELSE IF m.last = -1 THEN <<"none">>
                 ELSE IF m.last = 0 THEN <<"global", m.global>>
                 ELSE IF m.last \in DOMAIN m.phases THEN <<m.last, m.phases[m.last]>>
                 ELSE <<"a model that is gone">>

(* State and SeasonalFromState: all but the model that was told last.      *)
RestoredSeasonal(m) == [m EXCEPT !.last = -1, !.expected = 0]

-----------------------------------------------------------------------------
(* told: what the models now active should have been told                  *)
SeasonInit ==
    season = [m |-> NewSeasonal, twin |-> NewSeasonal, fresh |-> FALSE,
              told |-> <<>>, hist |-> <<>>]

ObserveSeason(gap, found, second) ==
    LET s == season  m == s.m
        v == [n |-> m.idx + 1, bkt |-> IF m.idx = 0 THEN FirstBucket ELSE Last(m.hist).bkt + gap]
        next == SeasonObserve(m, v, found, second)
        changed == <<next.period, next.period2>> # <<m.period, m.period2>> IN
    /\ m.idx < MaxSeason
    /\ IF RedetectDue(m) THEN LET ps == CandidatePeriods(found, Len(m.hist)) IN
                      second # 0 => ps # <<>> /\ second # ps[1]
                                    /\ CandidatePeriods(<<second>>, Len(m.hist)) # <<>>
       ELSE found = <<>> /\ second = 0
    /\ season' = [m     |-> next,
                  twin  |-> SeasonObserve(s.twin, v, found, second),
                  fresh |-> FALSE,
                  told  |-> Append(IF changed THEN m.hist ELSE s.told, v),
                  hist  |-> Append(s.hist, v)]

RestoreSeason ==
    season' = [season EXCEPT !.twin = RestoredSeasonal(season.m), !.fresh = TRUE]

SeasonNext ==
    \/ \E gap \in Gaps, found \in FoundPeriods, second \in {0, 2, 3} :
         ObserveSeason(gap, found, second)
    \/ RestoreSeason

-----------------------------------------------------------------------------
(* Whatever periods are found, dropped or replaced: the models in force    *)
(* have been told every value of the history they were set up from and     *)
(* every one since, each once and in its own phase (buckets skipped and    *)
(* buckets before 1970 included), all residuals against the components in  *)
(* force; the global model is told nothing once there is a period.         *)
ToldOnce ==
    LET m == season.m IN
    IF MultiActive(m)
    THEN m.resid = [i \in DOMAIN season.told |-> [v |-> season.told[i], less |-> m.comps]]
    ELSE IF m.period = 0 THEN m.global = season.hist
    ELSE \A p \in 0..m.period - 1 :
           m.phases[p + 1] =
             Subsequence(season.told,
                         {k \in DOMAIN season.told : (season.told[k].bkt - p) % m.period = 0})

(* A restart goes unnoticed as soon as one value has been observed since;  *)
(* the bounds of a value are always taken from the model that scored it.   *)
SeasonResumes ==
    /\ season.fresh \/ BoundsFrom(season.twin) = BoundsFrom(season.m)
    /\ RestoredSeasonal(season.twin) = RestoredSeasonal(season.m)
    /\ BoundsFrom(season.m) # <<"a model that is gone">>

(* Detection may stand still only while no period was ever found, or for   *)
(* less than SeasonRedetect values; a period fits the history three times. *)
DetectionRecurs ==
    LET m == season.m IN
    /\ Len(m.hist) > SeasonMinHistory =>
         m.since < (IF m.period = 0 THEN 1 ELSE SeasonRedetect)
    /\ 3 * m.period <= Len(m.hist) /\ 3 * m.period2 <= Len(m.hist)
    /\ Len(m.hist) = (IF m.idx < SeasonMaxHistory THEN m.idx ELSE SeasonMaxHistory)
=============================================================================
