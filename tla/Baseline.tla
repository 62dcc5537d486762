------------------------------ MODULE Baseline ------------------------------
(***************************************************************************)
(* The baseline of one series (detect/model.go): a window of learned       *)
(* values, a warm-up without scores and a ramp after it, a second test     *)
(* over the last deviations, the detection of a lasting shift, which       *)
(* rebases the window, and the state that is saved and restored.           *)
(*                                                                         *)
(* The robust statistics are operators of the instance: Deviation(h, v)    *)
(* is the z-score of v against the history h, MultiDeviation(zs) that of   *)
(* the last deviations together, ScoreOf(side, z) the score of a z-score.  *)
(* A model that watches one side scores the upper tail beyond z, half of   *)
(* the distribution when z is 0, and so scores something where nothing     *)
(* deviates; one that watches both sides doubles the tail and scores 0.    *)
(***************************************************************************)
EXTENDS Integers, Sequences, SequencesExt

CONSTANTS BaseValues,    \* the finite values
          NoNumber,      \* NaN or an infinity
          Sides,         \* of {"both", "high", "low"}
          WindowSize, MultiWindow,   \* 1024 and 12 in the code
          Warmups,       \* the warm-ups models are made with
          DefaultWarmup, \* 20
          RampBuckets,   \* warmupRampBuckets: 8
          DriftLevel,    \* driftThresh: 2.0
          DriftBuckets,  \* 200
          Deviation(_, _), MultiDeviation(_), ScoreOf(_, _),
          MaxValues      \* bound: values observed

ASSUME BaselineAssumption ==
    /\ WindowSize \in Nat /\ MultiWindow \in Nat /\ RampBuckets \in Nat
    /\ Warmups \subseteq Nat /\ DefaultWarmup \in Nat \ {0}
    /\ DriftLevel \in Nat \ {0} /\ DriftBuckets \in Nat \ {0}
    /\ \A n \in 0..WindowSize : \A h \in [1..n -> BaseValues], v \in BaseValues :
         Deviation(h, v) \in Int

VARIABLE base
baseVars == <<base>>

Newest(s, n) == IF Len(s) > n THEN SubSeq(s, Len(s) - n + 1, Len(s)) ELSE s
Abs(z) == IF z < 0 THEN -z ELSE z
Values(m) == [i \in DOMAIN m.history |-> m.history[i].v]

(* NewModelWarmup keeps a warm-up of 0. *)
NewBaseline(side, warmup) ==
    [side |-> side, warmup |-> warmup, history |-> <<>>, recent |-> <<>>, run |-> 0, sign |-> 0]

(* evaluate: no score during the warm-up, what falls on the side that is   *)
(* not watched is taken for no deviation, and the score is in parts of     *)
(* RampBuckets + 1.                                                        *)
Sided(side, z) == IF (side = "high" /\ z < 0) \/ (side = "low" /\ z > 0) THEN 0 ELSE z

Ramp(m) == LET extra == Len(m.history) - m.warmup IN
           IF extra >= RampBuckets THEN RampBuckets + 1 ELSE extra + 1

ModelScore(m, v) ==
    IF v = NoNumber \/ Len(m.history) < m.warmup THEN [z |-> 0, score |-> 0]
    ELSE LET z == Sided(m.side, Deviation(Values(m), v)) IN
         [z |-> z, score |-> ScoreOf(m.side, Abs(z)) * Ramp(m)]

(* trackDrift: a run of deviations of one sign beyond the level; a long    *)
(* one leaves only the values that made it.                                *)
Tracked(m, z) ==
    LET sign == IF z >= DriftLevel THEN 1 ELSE IF z <= -DriftLevel THEN -1 ELSE 0
        run  == (IF sign = 0 \/ sign # m.sign THEN 0 ELSE m.run) + (IF sign = 0 THEN 0 ELSE 1) IN
    IF Len(m.history) < m.warmup THEN m
    ELSE IF run >= DriftBuckets
    THEN [NewBaseline(m.side, m.warmup) EXCEPT !.history = Newest(m.history, DriftBuckets)]
    ELSE [m EXCEPT !.run = run, !.sign = sign]

(* Learn and push; n is the number of the observation, kept for the        *)
(* properties only.                                                        *)
ModelLearn(m, v, n) ==
    IF v = NoNumber THEN m
    ELSE [m EXCEPT !.history = Newest(Append(@, [n |-> n, v |-> v]), WindowSize)]

(* Observe: the multi-bucket score counts when the window of deviations is *)
(* full and it is the higher one.                                          *)
ModelObserve(m, v, n) ==
    LET e    == ModelScore(m, v)
        warm == MultiWindow > 1 /\ Len(m.history) >= m.warmup
        zs   == IF warm THEN Newest(Append(m.recent, e.z), MultiWindow) ELSE m.recent
        mb   == IF warm /\ Len(zs) = MultiWindow
                THEN ScoreOf(m.side, Abs(MultiDeviation(zs))) * (RampBuckets + 1) ELSE 0 IN
    IF v = NoNumber THEN [m |-> m, score |-> 0, multi |-> FALSE, z |-> 0]
    ELSE [m |-> ModelLearn(Tracked([m EXCEPT !.recent = zs], e.z), v, n),
          score |-> IF mb > e.score THEN mb ELSE e.score, multi |-> mb > e.score, z |-> e.z]

(* State and ModelFromState: all but what the last score left for Bounds;  *)
(* a warm-up of 0 is taken for one that was not saved.                     *)
StateOfWindow(m) ==   \* faulty variant: the run of deviations is left out
    [side |-> m.side, warmup |-> m.warmup, history |-> m.history, recent |-> m.recent,
     run |-> 0, sign |-> 0]
StateOf(m) == [side |-> m.side, warmup |-> m.warmup, history |-> m.history,
               recent |-> m.recent, run |-> m.run, sign |-> m.sign]
FromState(s) == [side |-> s.side,
                 warmup |-> IF s.warmup = 0 THEN DefaultWarmup ELSE s.warmup,
                 history |-> s.history, recent |-> s.recent, run |-> s.run, sign |-> s.sign]

-----------------------------------------------------------------------------
BaselineInit == base = [kind |-> "none"]

CreateModel(side, warmup) ==
    /\ base.kind = "none"
    /\ LET new == NewBaseline(side, warmup) IN
       base' = [kind |-> "base", m |-> new, twin |-> new, zs |-> <<>>, n |-> 0, agree |-> TRUE]

(* Every value is observed by the model and by its twin, which is restored *)
(* from saved state at any time.                                           *)
ObserveValue(v) ==
    /\ base.kind = "base" /\ base.n < MaxValues
    /\ LET r == ModelObserve(base.m, v, base.n + 1)  t == ModelObserve(base.twin, v, base.n + 1) IN
       base' = [base EXCEPT !.m = r.m, !.twin = t.m, !.n = @ + 1,
                            !.zs = IF v = NoNumber THEN @ ELSE Append(@, r.z),
                            !.agree = @ /\ r.score = t.score /\ r.multi = t.multi]

(* Score and Learn apart: the population and the interim results score     *)
(* without learning, and a rule may skip the learning.                     *)
PeekValue(v) ==
    /\ base.kind = "base"
    /\ base' = [base EXCEPT !.agree = @ /\ ModelScore(base.m, v) = ModelScore(base.twin, v)]

RestoreModel ==
    /\ base.kind = "base"
    /\ base' = [base EXCEPT !.twin = FromState(StateOf(base.m))]

BaselineNext ==
    \/ \E side \in Sides, warmup \in Warmups : CreateModel(side, warmup)
    \/ \E v \in BaseValues \cup {NoNumber} : ObserveValue(v) \/ PeekValue(v)
    \/ RestoreModel

-----------------------------------------------------------------------------
(* A restart is not noticed: a model with a warm-up, restored from saved   *)
(* state at any moment, gives every later value the score the other gives  *)
(* (one made without a warm-up comes back with the default one, and scores *)
(* nothing until its window has that many values).  The window is the      *)
(* latest values, no others, and never grows past its size; a shift that   *)
(* lasts is accepted: when the last 2D - 1 deviations are all strong and   *)
(* of one sign (D the length of a drift), nothing older than 3D - 2        *)
(* observations is left in the window.                                     *)
BaselineAdapts ==
    base.kind = "base" =>
      LET h == base.m.history  zs == base.zs  total == Len(zs)  d == DriftBuckets IN
      /\ base.m.warmup > 0 => base.agree
      /\ Len(h) <= WindowSize /\ Len(base.m.recent) <= MultiWindow
      /\ \A i \in 1..Len(h) - 1 : h[i].n < h[i + 1].n
      /\ (/\ total >= 2 * d - 1
          /\ \/ \A i \in total - 2 * d + 2..total : zs[i] >= DriftLevel
             \/ \A i \in total - 2 * d + 2..total : zs[i] <= -DriftLevel)
           => Len(h) <= 3 * d - 1

(* No score comes from a history shorter than the warm-up, rebased ones    *)
(* included.  Whatever falls on the side that is not watched counts as no  *)
(* deviation, however far it is: it brings no drift nearer, and by itself  *)
(* it scores what a value that does not deviate scores, which is not 0 for *)
(* a model that watches one side.                                          *)
ScoresNeedHistory ==
    base.kind = "base" =>
      LET m == base.m IN
      \A v \in BaseValues \cup {NoNumber} :
         LET r == ModelObserve(m, v, 0) IN
         /\ r.score > 0 => Len(m.history) >= m.warmup
         /\ /\ v # NoNumber /\ Len(m.history) >= m.warmup
            /\ \/ m.side = "high" /\ Deviation(Values(m), v) <= 0
               \/ m.side = "low" /\ Deviation(Values(m), v) >= 0
            => /\ r.z = 0 /\ r.m.run = 0
               /\ ~r.multi => r.score = ScoreOf(m.side, 0) * Ramp(m)
=============================================================================
