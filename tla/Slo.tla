--------------------------------- MODULE Slo ---------------------------------
(***************************************************************************)
(* Service-level objectives (slo/slo.go, api/slo.go): samples of good and  *)
(* total events are kept per named series, sorted and pruned to twice the  *)
(* window of the target; a report says how much of the error budget is     *)
(* left, how fast it burns over several windows and when it runs out.  The *)
(* handler of a POST takes the series' lock three times: to set the target, *)
(* to append, and to evaluate.                                             *)
(*                                                                         *)
(* The unit of time is the minute, the shortest burn window.  Ratios are   *)
(* pairs <<numerator, denominator>>; samples carry an identity, so that a  *)
(* set of them stands for the sorted slice.                                *)
(***************************************************************************)
EXTENDS Integers, FiniteSets, FiniteSetsExt

CONSTANTS SloNames,
          MaxSloSeries,   \* 2000 in the code
          MaxSloSamples,  \* 200000 in the code
          DefaultObjective, DefaultWindow,   \* <<999, 1000>> and 30 days
          FastLong, FastShort, SlowLong, SlowShort,  \* the shares of the window: 720, 8640, 120, 1440
          FastBurn, SlowBurn,                \* 14.4 and 6
          SampleTimes, ReportTimes, Windows, \* what requests carry; window 0 for none
          MaxSloPosts     \* bound: requests

Positive == Nat \ {0}

(* Ratios are of naturals, an objective is within 0 and 1, and the times of *)
(* samples come after the first.                                           *)
ASSUME SloAssumption ==
    /\ DefaultObjective \in Positive \X Positive /\ DefaultObjective[1] < DefaultObjective[2]
    /\ DefaultWindow \in Positive
    /\ {FastLong, FastShort, SlowLong, SlowShort} \subseteq Positive
    /\ FastBurn \in Nat \X Positive /\ SlowBurn \in Nat \X Positive
    /\ SampleTimes \subseteq Nat /\ ReportTimes \subseteq Nat /\ Windows \subseteq Nat

VARIABLE slos
sloVars == <<slos>>

Within(samples, from, to) == {x \in samples : from <= x.time /\ x.time <= to}
Good(samples)  == MapThenSumSet(LAMBDA x : x.good, samples)
Total(samples) == MapThenSumSet(LAMBDA x : x.total, samples)
Geq(r, s)      == r[1] * s[2] >= s[1] * r[2]

(* Evaluate's defaults *)
Objective(t)  == IF t.objective[1] <= 0 \/ t.objective[1] >= t.objective[2]
                 THEN DefaultObjective ELSE t.objective
TargetWindow(t) == IF t.window <= 0 THEN DefaultWindow ELSE t.window

AtLeastMinute(w) == IF w < 1 THEN 1 ELSE w

(* The error rate of some samples over the budget 1 - objective            *)
BurnOf(seen, objective) ==
    IF Total(seen) = 0 THEN <<0, 1>>
    ELSE <<(Total(seen) - Good(seen)) * objective[2],
           Total(seen) * (objective[2] - objective[1])>>

(* burnOver: the window is at least a minute.                              *)
BurnOver(samples, objective, now, w) ==
    BurnOf(Within(samples, now - AtLeastMinute(w), now), objective)

(* severity: a long and a short window must both burn.                     *)
Severity(samples, objective, now, win) ==
    LET burns(share, rate) == Geq(BurnOver(samples, objective, now, win \div share), rate) IN
    IF burns(FastLong, FastBurn) /\ burns(FastShort, FastBurn) THEN "critical"
    ELSE IF burns(SlowLong, SlowBurn) /\ burns(SlowShort, SlowBurn) THEN "warning"
    ELSE "ok"

(* displayWindows, those with a sample in them.  (Samples of a total of 0   *)
(* make the code's rate of such a window NaN: requests here send none.)    *)
DisplayWindows(samples, now, win) ==
    {w \in {AtLeastMinute(win \div f) : f \in {FastLong, SlowLong, 10}} :
        Within(samples, now - w, now) # {}}

(* projectExhaustion: the time to it, as a ratio                           *)
ProjectExhaustion(left, burn, win) ==
    IF burn[1] <= 0 \/ left[1] <= 0 THEN <<>>
    ELSE <<left[1] * win * burn[2], left[2] * burn[1]>>

(* Evaluate                                                                *)
Report(t, samples, now) ==
    LET obj  == Objective(t)
        win  == TargetWindow(t)
        seen == Within(samples, now - win, now)
        used == BurnOf(seen, obj)
        left == <<used[2] - used[1], used[2]>>
        burn == BurnOver(samples, obj, now, win \div FastLong) IN
    IF Total(seen) = 0 THEN [severity |-> "no_data", left |-> <<1, 1>>]
    ELSE [severity |-> Severity(samples, obj, now, win), left |-> left, burn |-> burn,
          windows |-> [w \in DisplayWindows(samples, now, win) |-> BurnOver(samples, obj, now, w)],
          exhausts |-> ProjectExhaustion(left, burn, win)]

Latest(samples) == IF samples = {} THEN 0 ELSE Max({x.time : x \in samples})

-----------------------------------------------------------------------------
SloInit == slos = [series |-> <<>>, posts |-> {}, sent |-> 0, last |-> <<>>]

NewSeries == [objective |-> <<0, 1>>, window |-> 0, samples |-> {},
              all |-> {}, narrow |-> 0, cut |-> FALSE]   \* these three for the property only

(* The last report, and the one all samples ever sent would have given     *)
Told(s, now) == <<[name |-> s, now |-> now, got |-> Report(slos.series[s], slos.series[s].samples, now)]>>

Change(s, f(_)) == [slos.series EXCEPT ![s] = f(@)]

(* appendSLO: the series is found or made, within the limit                *)
PostSlo(s, req) ==
    /\ slos.sent < MaxSloPosts
    /\ LET fresh == s \notin DOMAIN slos.series
           full  == fresh /\ Cardinality(DOMAIN slos.series) >= MaxSloSeries IN
       slos' = [slos EXCEPT
                  !.sent = @ + 1, !.last = <<>>,
                  !.series = IF fresh /\ ~full THEN [n \in DOMAIN @ \cup {s} |->
                                 IF n = s THEN NewSeries ELSE @[n]] ELSE @,
                  !.posts = IF full THEN @
                            ELSE @ \cup {[id |-> slos.sent, name |-> s, req |-> req, at |-> "target"]}]

Moves(p, at) == (slos.posts \ {p}) \cup {[p EXCEPT !.at = at]}

SetTarget(p) ==
    /\ p \in slos.posts /\ p.at = "target"
    /\ slos' = [slos EXCEPT !.posts = Moves(p, "append"), !.last = <<>>,
                  !.series = Change(p.name, LAMBDA s :
                     [s EXCEPT !.objective = IF p.req.objective[1] > 0 THEN p.req.objective ELSE @,
                               !.window = IF p.req.window > 0 THEN p.req.window ELSE @])]

(* append: all samples sorted, those older than twice the window before    *)
(* the latest dropped, and the oldest of what exceeds the cap.             *)
CutoffAtWindow(s, samples) ==   \* faulty variant: one window is kept
    IF s.window > 0 /\ samples # {} THEN Latest(samples) - s.window ELSE 0
Cutoff(s, samples) ==
    IF s.window > 0 /\ samples # {} THEN Latest(samples) - 2 * s.window ELSE 0

AppendSamples(p) ==
    /\ p \in slos.posts /\ p.at = "append"
    /\ LET s == slos.series[p.name]
           new == {[id |-> p.id, time |-> x.time, good |-> x.good, total |-> x.total] : x \in p.req.samples}
           both == s.samples \cup new
           inside == {x \in both : x.time >= Cutoff(s, both)} IN
       \E kept \in SUBSET inside :
          /\ Cardinality(kept) = Min({Cardinality(inside), MaxSloSamples})
          /\ \A x \in kept, y \in inside \ kept : x.time >= y.time
          /\ slos' = [slos EXCEPT !.posts = Moves(p, "answer"), !.last = <<>>,
                        !.series[p.name] =
                           [s EXCEPT !.samples = kept, !.all = @ \cup new,
                                     !.narrow = IF @ = 0 \/ (s.window > 0 /\ s.window < @)
                                                THEN s.window ELSE @,
                                     !.cut = @ \/ kept # inside]]

Answer(p) ==
    /\ p \in slos.posts /\ p.at = "answer"
    /\ slos' = [slos EXCEPT !.posts = @ \ {p},
                  !.last = Told(p.name, IF p.req.now >= 0 THEN p.req.now
                                        ELSE Latest(slos.series[p.name].samples))]

(* GET of one series, and of the list: a report of each, at its latest     *)
GetSlo(s) ==
    /\ s \in DOMAIN slos.series
    /\ slos' = [slos EXCEPT !.last = Told(s, Latest(slos.series[s].samples))]

SloRequests ==
    [objective : {<<1, 2>>}, window : Windows, now : {-1},
     samples : {{[time |-> t, good |-> g, total |-> 1]} : t \in SampleTimes, g \in 0..1}]
    \cup [objective : {<<0, 1>>}, window : {0}, now : ReportTimes, samples : {{}}]

SloNext ==
    \/ \E s \in SloNames, req \in SloRequests : PostSlo(s, req)
    \/ \E p \in slos.posts : SetTarget(p) \/ AppendSamples(p) \/ Answer(p)
    \/ \E s \in SloNames : GetSlo(s)

-----------------------------------------------------------------------------
(* Pruning never shows: as long as the cap was not reached, a report whose *)
(* window starts within twice the narrowest window ever set before the     *)
(* latest sample is the one all the samples ever sent would give, whatever *)
(* order they and the targets came in and however the requests overlapped. *)
PruningUnseen ==
    \A i \in DOMAIN slos.last :
       LET r == slos.last[i]  s == slos.series[r.name] IN
       (~s.cut /\ (s.narrow > 0 => r.now - TargetWindow(s) >= Latest(s.all) - 2 * s.narrow))
          => r.got = Report(s, s.all, r.now)

Grave == [ok |-> 0, warning |-> 1, critical |-> 2]

(* Errors never look better: turning a good sample into a bad one neither  *)
(* lowers the severity of a report nor raises what is left of the budget;  *)
(* and a report is critical of a fast burn only.                           *)
ErrorsNeverHelp ==
    \A i \in DOMAIN slos.last :
       LET r == slos.last[i]  s == slos.series[r.name] IN
       /\ r.got.severity # "no_data" =>
            \A x \in s.samples :
               LET worse == Report(s, (s.samples \ {x}) \cup {[x EXCEPT !.good = 0]}, r.now) IN
               /\ Grave[worse.severity] >= Grave[r.got.severity]
               /\ Geq(r.got.left, worse.left)
       /\ r.got.severity = "critical" => Geq(r.got.burn, FastBurn)
=============================================================================
