-------------------------- MODULE MCAnalysis_proofs --------------------------
(***************************************************************************)
(* The components that MCAnalysis composes, for all values of their        *)
(* constants: the alarm policy's promise, recorded windows and budgets     *)
(* (AlarmGuard), the streaming pipeline (Pipeline), calendars and accepted *)
(* jobs (JobSpec), baselines (Baseline), seasons (Seasonal), what an       *)
(* engine learns (Emission) and the watch loop (WatchLoop).                *)
(***************************************************************************)
EXTENDS MCAnalysis, Selections_proofs, SequenceTheorems, TLAPS

-----------------------------------------------------------------------------
(* Numbers.                                                                *)

\* The remainder is the only number below the divisor that is so many
\* divisors away.
LEMMA RemainderOne ==
  ASSUME NEW per \in Nat \ {0}, NEW k \in Int, NEW r \in 0..per - 1, NEW s \in 0..per - 1,
         r - s = k * per
  PROVE  r = s /\ k = 0
<1>1. k >= 1 => k * per >= per
  OBVIOUS
<1>2. k <= -1 => k * per <= -per
  OBVIOUS
<1>. QED BY <1>1, <1>2

LEMMA RemainderZero ==
  ASSUME NEW per \in Nat \ {0}, NEW x \in Int, NEW p \in 0..per - 1
  PROVE  (x - p) % per = 0 <=> x % per = p
<1>. DEFINE q == x \div per
            r == x % per
            a == (x - p) \div per
            o == (x - p) % per
<1>1. q \in Int /\ r \in 0..per - 1 /\ x = per * q + r
  BY DivMod
<1>2. a \in Int /\ o \in 0..per - 1 /\ x - p = per * a + o
  <2>1. x - p \in Int
    OBVIOUS
  <2>. QED BY <2>1, DivMod
<1>. HIDE DEF q, r, a, o
<1>3. p + o - r = (q - a) * per
  <2>1. (q - a) * per = per * q - per * a
    BY <1>1, <1>2
  <2>. QED BY <1>1, <1>2, <2>1
<1>4. ASSUME o = 0 PROVE r = p
  <2>1. p - r = (q - a) * per /\ q - a \in Int
    BY <1>1, <1>2, <1>3, <1>4
  <2>. QED BY <1>1, <2>1, RemainderOne
<1>5. ASSUME r = p PROVE o = 0
  <2>1. o - 0 = (q - a) * per /\ q - a \in Int /\ 0 \in 0..per - 1
    BY <1>1, <1>2, <1>3, <1>5
  <2>. QED BY <1>2, <2>1, RemainderOne
<1>. QED BY <1>4, <1>5 DEF r, o

-----------------------------------------------------------------------------
(* The alarm policy (AlarmGuard).                                          *)

Entry == [over : BOOLEAN, muted : BOOLEAN, again : BOOLEAN, fired : BOOLEAN]

(* The verdicts that count at the i-th score.                              *)
Verdicts(log, i, of) == {j \in i - of + 1 .. i : j >= 1 /\ log[j].over}

Shape(g) ==
    g = [opt |-> g.opt, ring |-> g.ring, at |-> g.at, filled |-> g.filled, hot |-> g.hot,
         quiet |-> g.quiet, seen |-> g.seen, penalty |-> g.penalty, lastFire |-> g.lastFire]

OptTyped(opt) ==
    /\ opt.of \in Nat /\ opt.persist \in 1..opt.of
    /\ opt.refractory \in Nat /\ opt.warmup \in Nat
    /\ opt.cooldown \in Int /\ opt.threshold \in Int

Typed(g, log) ==
    /\ Shape(g) /\ OptTyped(g.opt) /\ log \in Seq(Entry)
    /\ g.ring \in [0..g.opt.of - 1 -> BOOLEAN] /\ g.at \in 0..g.opt.of - 1
    /\ g.filled = (IF Len(log) < g.opt.of THEN Len(log) ELSE g.opt.of)
    /\ g.seen = Len(log) /\ g.quiet \in Nat /\ g.penalty \in Int

(* The verdict of k scores ago is k places behind in the ring.             *)
Place(at, k, of) == IF k <= at THEN at - k ELSE at - k + of
RingHolds(g, log) ==
    \A k \in 1..g.filled : g.ring[Place(g.at, k, g.opt.of)] = log[Len(log) - k + 1].over

HotCounts(g, log) == g.hot = Cardinality(Verdicts(log, Len(log), g.opt.of))

(* The last alarm, and how much of the refractory period is left of it.    *)
LastKnown(g, log) ==
    /\ g.lastFire \in -1..Len(log) - 1
    /\ g.lastFire >= 0 => log[g.lastFire + 1].fired
    /\ \A j \in g.lastFire + 2..Len(log) : ~log[j].fired
Left(refractory, n, lastFire) ==
    LET left == refractory - (n - (lastFire + 1)) IN IF lastFire >= 0 /\ left > 0 THEN left ELSE 0
QuietLeft(g, log) == g.quiet = Left(g.opt.refractory, Len(log), g.lastFire)

PromisedAt(opt, log, i) ==
    log[i].fired <=>
      /\ i > opt.warmup
      /\ ~log[i].muted
      /\ Cardinality(Verdicts(log, i, opt.of)) >= opt.persist
      /\ \A j \in i - opt.refractory .. i - 1 : j >= 1 => ~log[j].fired
      /\ (opt.cooldown > 0 /\ \E j \in 1..i - 1 : log[j].fired) => log[i].again

GuardInv(g, log) ==
    /\ Typed(g, log) /\ RingHolds(g, log) /\ HotCounts(g, log)
    /\ LastKnown(g, log) /\ QuietLeft(g, log)
    /\ \A i \in 1..Len(log) : PromisedAt(g.opt, log, i)

(* The inductive invariant.                                                *)
AlarmInv ==
    \/ alarms.kind # "stream"
    \/ /\ alarms = [kind |-> "stream", guard |-> alarms.guard, log |-> alarms.log]
       /\ GuardInv(alarms.guard, alarms.log)

-----------------------------------------------------------------------------
LEMMA AppendFacts ==
  ASSUME NEW log \in Seq(Entry), NEW e \in Entry
  PROVE  /\ Append(log, e) \in Seq(Entry)
         /\ Len(log) \in Nat /\ Len(Append(log, e)) = Len(log) + 1
         /\ Append(log, e)[Len(log) + 1] = e
         /\ \A i \in 1..Len(log) : Append(log, e)[i] = log[i] /\ log[i] \in Entry
OBVIOUS

(* The ring's next place, without the remainder.                           *)
LEMMA NextPlace ==
  ASSUME NEW of \in Nat, NEW at \in 0..of - 1
  PROVE  (at + 1) % of = IF at + 1 = of THEN 0 ELSE at + 1
OBVIOUS

(* A verdict stays where it is when it grows older by one; the newest is   *)
(* just behind the place to write, the oldest of a full ring on it.        *)
LEMMA Places ==
  ASSUME NEW of \in Nat, NEW at \in 0..of - 1, NEW at2,
         at2 = (IF at + 1 = of THEN 0 ELSE at + 1)
  PROVE  Place(at2, 1, of) = at /\ Place(at, of, of) = at
BY DEF Place

LEMMA PlaceStays ==
  ASSUME NEW of \in Nat, NEW at \in 0..of - 1, NEW at2,
         at2 = (IF at + 1 = of THEN 0 ELSE at + 1), NEW k \in 1..of - 1
  PROVE  /\ Place(at2, k + 1, of) = Place(at, k, of)
         /\ Place(at, k, of) \in 0..of - 1 /\ Place(at, k, of) # at
BY DEF Place

LEMMA WindowFinite ==
  ASSUME NEW log, NEW n \in Nat, NEW of \in Nat
  PROVE  /\ IsFiniteSet(Verdicts(log, n, of)) /\ Cardinality(Verdicts(log, n, of)) \in Nat
         /\ Cardinality(Verdicts(log, n, of)) <= (IF n < of THEN n ELSE of)
<1>. DEFINE lo == IF n < of THEN 1 ELSE n - of + 1
<1>1. lo \in Int /\ Verdicts(log, n, of) \in SUBSET (lo..n)
  BY DEF Verdicts
<1>2. IsFiniteSet(lo..n) /\ Cardinality(lo..n) = (IF lo > n THEN 0 ELSE n - lo + 1)
  BY <1>1, FS_Interval
<1>3. IsFiniteSet(Verdicts(log, n, of))
      /\ Cardinality(Verdicts(log, n, of)) <= Cardinality(lo..n)
  BY <1>1, <1>2, FS_Subset
<1>4. Cardinality(Verdicts(log, n, of)) \in Nat
  BY <1>3, FS_CardinalityType
<1>. QED BY <1>2, <1>3, <1>4

(* A new verdict comes into the window, and the oldest of a full one goes. *)
LEMMA WindowMoves ==
  ASSUME NEW log \in Seq(Entry), NEW e \in Entry, NEW of \in Nat, of >= 1
  PROVE  LET n == Len(log)
             gone == n >= of /\ log[n - of + 1].over IN
         Cardinality(Verdicts(Append(log, e), n + 1, of)) =
           Cardinality(Verdicts(log, n, of)) - (IF gone THEN 1 ELSE 0) + (IF e.over THEN 1 ELSE 0)
<1>. DEFINE n == Len(log)
            new == Append(log, e)
            w == Verdicts(log, n, of)
            gone == n >= of /\ log[n - of + 1].over
            rest == w \ {n - of + 1}
<1>1. n \in Nat /\ new[n + 1] = e /\ \A i \in 1..n : new[i] = log[i]
  BY AppendFacts
<1>2. IsFiniteSet(w) /\ Cardinality(w) \in Nat
  BY <1>1, WindowFinite
<1>3. n - of + 1 \in w <=> gone
  BY <1>1 DEF Verdicts
<1>4. IsFiniteSet(rest) /\ Cardinality(rest) = Cardinality(w) - (IF gone THEN 1 ELSE 0)
  BY <1>2, <1>3, FS_RemoveElement
<1>5. n + 1 \notin rest
  BY <1>1 DEF Verdicts
<1>6. Verdicts(new, n + 1, of) = IF e.over THEN rest \cup {n + 1} ELSE rest
  BY <1>1 DEF Verdicts
<1>7. IsFiniteSet(rest \cup {n + 1}) /\ Cardinality(rest \cup {n + 1}) = Cardinality(rest) + 1
  BY <1>4, <1>5, FS_AddElement
<1>. HIDE DEF new, w, gone, rest
<1>8. Cardinality(Verdicts(new, n + 1, of))
        = Cardinality(rest) + (IF e.over THEN 1 ELSE 0)
  <2>1. Cardinality(rest) \in Nat
    BY <1>4, FS_CardinalityType
  <2>. QED BY <1>6, <1>7, <2>1
<1>. QED BY <1>2, <1>4, <1>8 DEF new, w, gone, n

-----------------------------------------------------------------------------
(* What push and Step do to the guard's parts.                             *)
Moved(g, h, over, fires) ==
    /\ h = [opt |-> g.opt, ring |-> h.ring, at |-> h.at, filled |-> h.filled, hot |-> h.hot,
            quiet |-> h.quiet, seen |-> g.seen + 1, penalty |-> g.penalty,
            lastFire |-> h.lastFire]
    /\ h.ring = [g.ring EXCEPT ![g.at] = over]
    /\ h.at = (IF g.at + 1 = g.opt.of THEN 0 ELSE g.at + 1)
    /\ h.filled = (IF g.filled < g.opt.of THEN g.filled + 1 ELSE g.filled)
    /\ h.hot = g.hot - (IF g.filled = g.opt.of /\ g.ring[g.at] THEN 1 ELSE 0)
                     + (IF over THEN 1 ELSE 0)
    /\ h.quiet = (IF g.quiet > 0 THEN g.quiet - 1
                  ELSE IF fires THEN g.opt.refractory ELSE g.quiet)
    /\ h.lastFire = (IF fires THEN g.seen ELSE g.lastFire)

LEMMA PushParts ==
  ASSUME NEW g, Shape(g), NEW over, NEW p, p = PushedTo(g, over)
  PROVE  /\ p = [opt |-> g.opt, ring |-> p.ring, at |-> p.at, filled |-> p.filled, hot |-> p.hot,
                 quiet |-> g.quiet, seen |-> g.seen, penalty |-> g.penalty,
                 lastFire |-> g.lastFire]
         /\ p.ring = [g.ring EXCEPT ![g.at] = over]
         /\ p.at = (g.at + 1) % g.opt.of
         /\ p.filled = (IF g.filled < g.opt.of THEN g.filled + 1 ELSE g.filled)
         /\ p.hot = g.hot - (IF g.filled = g.opt.of /\ g.ring[g.at] THEN 1 ELSE 0)
                          + (IF over THEN 1 ELSE 0)
<1>1. DOMAIN g = {"opt", "ring", "at", "filled", "hot", "quiet", "seen", "penalty", "lastFire"}
  BY DEF Shape
<1>2. /\ p.ring = [g.ring EXCEPT ![g.at] = over]
      /\ p.at = (g.at + 1) % g.opt.of
      /\ p.filled = (IF g.filled < g.opt.of THEN g.filled + 1 ELSE g.filled)
  BY <1>1 DEF PushedTo
<1>3. p.hot = g.hot - (IF g.filled = g.opt.of /\ g.ring[g.at] THEN 1 ELSE 0)
                    + (IF over THEN 1 ELSE 0)
  BY <1>1 DEF PushedTo
<1>4. /\ p.opt = g.opt /\ p.quiet = g.quiet /\ p.seen = g.seen
      /\ p.penalty = g.penalty /\ p.lastFire = g.lastFire
  BY <1>1 DEF PushedTo
<1>5. p = [opt |-> p.opt, ring |-> p.ring, at |-> p.at, filled |-> p.filled, hot |-> p.hot,
           quiet |-> p.quiet, seen |-> p.seen, penalty |-> p.penalty, lastFire |-> p.lastFire]
  BY <1>1 DEF PushedTo
<1>. QED BY <1>2, <1>3, <1>4, <1>5

LEMMA StepParts ==
  ASSUME NEW g, Shape(g), OptTyped(g.opt), g.at \in 0..g.opt.of - 1, NEW score,
         NEW over, over = (~Suppressed(g) /\ Over(score, Threshold(g))),
         NEW p, p = PushedTo(g, over), NEW h, h = Step(g, score).guard,
         NEW fires, fires = MayFire(g, p, score)
  PROVE  /\ Step(g, score).fired = fires
         /\ Moved(g, h, over, fires) /\ p.filled = h.filled /\ p.hot = h.hot
<1>1. /\ p = [opt |-> g.opt, ring |-> p.ring, at |-> p.at, filled |-> p.filled, hot |-> p.hot,
              quiet |-> g.quiet, seen |-> g.seen, penalty |-> g.penalty,
              lastFire |-> g.lastFire]
      /\ p.ring = [g.ring EXCEPT ![g.at] = over]
      /\ p.at = (g.at + 1) % g.opt.of
      /\ p.filled = (IF g.filled < g.opt.of THEN g.filled + 1 ELSE g.filled)
      /\ p.hot = g.hot - (IF g.filled = g.opt.of /\ g.ring[g.at] THEN 1 ELSE 0)
                       + (IF over THEN 1 ELSE 0)
  BY PushParts
<1>2. p.at = (IF g.at + 1 = g.opt.of THEN 0 ELSE g.at + 1)
  BY <1>1, NextPlace DEF OptTyped
<1>3. PushedTo(g, ~Suppressed(g) /\ Over(score, Threshold(g))) = p
  OBVIOUS
<1>4. Step(g, score) =
        [guard |-> [p EXCEPT !.seen = @ + 1,
                             !.quiet = IF g.quiet > 0 THEN @ - 1
                                       ELSE IF fires THEN g.opt.refractory ELSE @,
                             !.lastFire = IF fires THEN g.seen ELSE @],
         fired |-> fires]
  BY <1>3 DEF Step
<1>5. /\ p.quiet = g.quiet /\ p.seen = g.seen /\ p.penalty = g.penalty
      /\ p.lastFire = g.lastFire /\ p.opt = g.opt
      /\ DOMAIN p = {"opt", "ring", "at", "filled", "hot", "quiet", "seen", "penalty", "lastFire"}
  BY <1>1
<1>6. h = [p EXCEPT !.seen = @ + 1,
                    !.quiet = IF g.quiet > 0 THEN @ - 1
                              ELSE IF fires THEN g.opt.refractory ELSE @,
                    !.lastFire = IF fires THEN g.seen ELSE @]
      /\ Step(g, score).fired = fires
  BY <1>4
<1>7. /\ h.quiet = (IF g.quiet > 0 THEN g.quiet - 1
                    ELSE IF fires THEN g.opt.refractory ELSE g.quiet)
      /\ h.lastFire = (IF fires THEN g.seen ELSE g.lastFire)
      /\ h.seen = g.seen + 1 /\ h.ring = p.ring /\ h.at = p.at /\ h.filled = p.filled
      /\ h.hot = p.hot /\ h.opt = g.opt /\ h.penalty = g.penalty
  BY <1>5, <1>6
<1>8. h = [opt |-> h.opt, ring |-> h.ring, at |-> h.at, filled |-> h.filled, hot |-> h.hot,
           quiet |-> h.quiet, seen |-> h.seen, penalty |-> h.penalty, lastFire |-> h.lastFire]
  BY <1>5, <1>6
<1>. QED BY <1>1, <1>2, <1>6, <1>7, <1>8 DEF Moved

LEMMA RingMoves ==
  ASSUME NEW g, NEW h, NEW log, NEW e \in Entry, NEW fires, NEW new, new = Append(log, e),
         Typed(g, log), RingHolds(g, log), Moved(g, h, e.over, fires)
  PROVE  RingHolds(h, new)
<1>1. /\ Len(log) \in Nat /\ Len(new) = Len(log) + 1 /\ new[Len(log) + 1] = e
      /\ \A i \in 1..Len(log) : new[i] = log[i]
  BY AppendFacts DEF Typed
<1>2. /\ h.opt = g.opt /\ h.ring = [g.ring EXCEPT ![g.at] = e.over]
      /\ h.at = (IF g.at + 1 = g.opt.of THEN 0 ELSE g.at + 1)
      /\ h.filled = (IF g.filled < g.opt.of THEN g.filled + 1 ELSE g.filled)
  BY DEF Moved
<1>3. /\ g.opt.of \in Nat /\ g.opt.of >= 1 /\ g.at \in 0..g.opt.of - 1
      /\ g.ring \in [0..g.opt.of - 1 -> BOOLEAN]
      /\ g.filled \in 0..g.opt.of /\ g.filled <= Len(log)
  BY <1>1 DEF Typed, OptTyped
<1>5. /\ g.opt.of \in Nat /\ g.at \in 0..g.opt.of - 1
      /\ h.at = (IF g.at + 1 = g.opt.of THEN 0 ELSE g.at + 1)
  BY <1>2, <1>3
<1>4. ASSUME NEW k \in 1..h.filled
      PROVE  h.ring[Place(h.at, k, g.opt.of)] = new[Len(new) - k + 1].over
  <2>1. CASE k = 1
    <3>1. Place(h.at, 1, g.opt.of) = g.at
      BY <1>5, Places
    <3>2. h.ring[g.at] = e.over /\ new[Len(new) - 1 + 1] = e
      BY <1>1, <1>2, <1>3
    <3>. QED BY <2>1, <3>1, <3>2
  <2>2. CASE k > 1
    <3>1. k - 1 \in 1..g.filled /\ k - 1 \in 1..g.opt.of - 1 /\ k \in Int /\ (k - 1) + 1 = k
      BY SMTT(30), <1>2, <1>3, <2>2
    <3>2. /\ Place(h.at, (k - 1) + 1, g.opt.of) = Place(g.at, k - 1, g.opt.of)
          /\ Place(g.at, k - 1, g.opt.of) \in 0..g.opt.of - 1
          /\ Place(g.at, k - 1, g.opt.of) # g.at
      BY <1>5, <3>1, PlaceStays
    <3>3. h.ring[Place(h.at, k, g.opt.of)] = g.ring[Place(g.at, k - 1, g.opt.of)]
      BY <1>2, <1>3, <3>1, <3>2
    <3>4. g.ring[Place(g.at, k - 1, g.opt.of)] = log[Len(log) - (k - 1) + 1].over
      BY <3>1 DEF RingHolds
    <3>5. new[Len(new) - k + 1] = log[Len(log) - (k - 1) + 1]
      BY <1>1, <1>3, <3>1
    <3>. QED BY <3>3, <3>4, <3>5
  <2>3. k = 1 \/ k > 1
    BY <1>2, <1>3
  <2>. QED BY <2>1, <2>2, <2>3
<1>. QED BY <1>2, <1>4 DEF RingHolds

LEMMA HotMoves ==
  ASSUME NEW g, NEW h, NEW log, NEW e \in Entry, NEW fires, NEW new, new = Append(log, e),
         Typed(g, log), RingHolds(g, log), HotCounts(g, log), Moved(g, h, e.over, fires)
  PROVE  HotCounts(h, new)
<1>. DEFINE n == Len(log)
            of == g.opt.of
            gone == n >= of /\ log[n - of + 1].over
<1>1. /\ of \in Nat /\ of >= 1 /\ n \in Nat /\ log \in Seq(Entry) /\ g.at \in 0..of - 1
      /\ g.filled = (IF n < of THEN n ELSE of) /\ Len(new) = n + 1
  BY AppendFacts DEF Typed, OptTyped
<1>2. /\ h.opt = g.opt
      /\ h.hot = g.hot - (IF g.filled = of /\ g.ring[g.at] THEN 1 ELSE 0)
                       + (IF e.over THEN 1 ELSE 0)
  BY DEF Moved
<1>3. g.filled = of /\ g.ring[g.at] <=> gone
  <2>1. g.filled = of <=> n >= of
    BY <1>1
  <2>2. ASSUME n >= of PROVE g.ring[g.at] = log[n - of + 1].over
    <3>1. Place(g.at, of, of) = g.at
      BY <1>1, Places
    <3>2. of \in 1..g.filled
      BY <1>1, <2>1, <2>2
    <3>. QED BY <3>1, <3>2 DEF RingHolds
  <2>. QED BY <2>1, <2>2
<1>4. Cardinality(Verdicts(new, n + 1, of))
        = Cardinality(Verdicts(log, n, of)) - (IF gone THEN 1 ELSE 0) + (IF e.over THEN 1 ELSE 0)
  BY <1>1, WindowMoves
<1>5. g.hot = Cardinality(Verdicts(log, n, of))
  BY DEF HotCounts
<1>6. h.hot = Cardinality(Verdicts(new, Len(new), h.opt.of))
  <2>. HIDE DEF gone, n, of
  <2>1. Len(new) = n + 1 /\ h.opt.of = of
    BY <1>1, <1>2 DEF of
  <2>. QED BY <1>2, <1>3, <1>4, <1>5, <2>1
<1>. QED BY <1>6 DEF HotCounts

LEMMA TypeMoves ==
  ASSUME NEW g, NEW h, NEW log, NEW e \in Entry, NEW fires, NEW new, new = Append(log, e),
         Typed(g, log), Moved(g, h, e.over, fires)
  PROVE  Typed(h, new)
<1>1. new \in Seq(Entry) /\ Len(log) \in Nat /\ Len(new) = Len(log) + 1
  BY AppendFacts DEF Typed
<1>2. /\ h.opt = g.opt /\ h.seen = g.seen + 1 /\ h.penalty = g.penalty /\ Shape(h)
  BY DEF Moved, Shape
<1>3. OptTyped(h.opt) /\ h.seen = Len(new) /\ h.penalty \in Int
  BY <1>1, <1>2 DEF Typed
<1>4. h.ring \in [0..h.opt.of - 1 -> BOOLEAN] /\ h.at \in 0..h.opt.of - 1
  <2>1. e.over \in BOOLEAN
    BY DEF Entry
  <2>2. h.ring = [g.ring EXCEPT ![g.at] = e.over]
        /\ h.at = (IF g.at + 1 = g.opt.of THEN 0 ELSE g.at + 1)
    BY DEF Moved
  <2>3. g.opt.of \in Nat /\ g.at \in 0..g.opt.of - 1 /\ g.ring \in [0..g.opt.of - 1 -> BOOLEAN]
    BY DEF Typed, OptTyped
  <2>4. h.ring \in [0..g.opt.of - 1 -> BOOLEAN]
    BY <2>1, <2>2, <2>3
  <2>5. h.at \in 0..g.opt.of - 1
    BY <2>2, <2>3
  <2>. QED BY <1>2, <2>4, <2>5
<1>5. h.filled = (IF Len(new) < h.opt.of THEN Len(new) ELSE h.opt.of)
  BY <1>1, <1>2 DEF Moved, Typed, OptTyped
<1>6. h.quiet \in Nat
  BY SMTT(30) DEF Moved, Typed, OptTyped
<1>. QED BY <1>1, <1>2, <1>3, <1>4, <1>5, <1>6 DEF Typed

LEMMA LeftCounts ==
  ASSUME NEW r, NEW n, NEW fire, r \in Nat, n \in Nat, fire \in Int, -1 <= fire, fire <= n - 1
  PROVE  /\ Left(r, n + 1, fire) = (IF Left(r, n, fire) > 0 THEN Left(r, n, fire) - 1 ELSE 0)
         /\ Left(r, n + 1, n) = r /\ Left(r, n, fire) \in Nat
         /\ Left(r, n, fire) = 0 <=> (fire >= 0 => fire + r < n)
BY DEF Left

(* The last alarm and the rest of its quiet period.  An alarm is only      *)
(* raised when the guard is not quiet.                                     *)
LEMMA QuietMoves ==
  ASSUME NEW g, NEW h, NEW log, NEW e \in Entry, NEW new, new = Append(log, e),
         Typed(g, log), Moved(g, h, e.over, e.fired), e.fired => g.quiet = 0,
         LastKnown(g, log), QuietLeft(g, log)
  PROVE  LastKnown(h, new) /\ QuietLeft(h, new)
<1>1. /\ Len(log) \in Nat /\ Len(new) = Len(log) + 1 /\ new[Len(log) + 1] = e
      /\ \A i \in 1..Len(log) : new[i] = log[i]
  BY AppendFacts DEF Typed
<1>2. /\ h.lastFire = (IF e.fired THEN Len(log) ELSE g.lastFire) /\ h.opt = g.opt
      /\ h.quiet = (IF g.quiet > 0 THEN g.quiet - 1
                    ELSE IF e.fired THEN g.opt.refractory ELSE g.quiet)
  BY DEF Moved, Typed
<1>3. /\ g.opt.refractory \in Nat /\ g.quiet \in Nat /\ g.lastFire \in -1..Len(log) - 1
  BY DEF Typed, OptTyped, LastKnown
<1>4. LastKnown(h, new)
  <2>1. h.lastFire \in -1..Len(new) - 1
    BY <1>1, <1>2, <1>3
  <2>2. h.lastFire >= 0 => new[h.lastFire + 1].fired
    BY <1>1, <1>2, <1>3 DEF LastKnown
  <2>3. ASSUME NEW j \in h.lastFire + 2..Len(new) PROVE ~new[j].fired
    <3>1. CASE e.fired
      BY <1>1, <1>2, <3>1
    <3>2. CASE ~e.fired
      BY <1>1, <1>2, <1>3, <3>2 DEF LastKnown
    <3>. QED BY <3>1, <3>2
  <2>. QED BY <2>1, <2>2, <2>3 DEF LastKnown
<1>5. QuietLeft(h, new)
  <2>1. Len(log) \in Nat /\ g.quiet = Left(g.opt.refractory, Len(log), g.lastFire)
    BY <1>1 DEF QuietLeft
  <2>2. CASE e.fired
    <3>1. h.quiet = g.opt.refractory /\ h.lastFire = Len(log)
      BY <1>2, <1>3, <2>2
    <3>2. Left(g.opt.refractory, Len(log) + 1, Len(log)) = g.opt.refractory
      BY <1>3, <2>1, LeftCounts
    <3>. QED BY <1>1, <1>2, <3>1, <3>2 DEF QuietLeft
  <2>3. CASE ~e.fired
    <3>1. h.quiet = (IF g.quiet > 0 THEN g.quiet - 1 ELSE 0) /\ h.lastFire = g.lastFire
      BY <1>2, <1>3, <2>3
    <3>2. Left(g.opt.refractory, Len(log) + 1, g.lastFire)
            = (IF g.quiet > 0 THEN g.quiet - 1 ELSE 0)
      BY <1>3, <2>1, LeftCounts
    <3>. QED BY <1>1, <1>2, <3>1, <3>2 DEF QuietLeft
  <2>. QED BY <2>2, <2>3
<1>. QED BY <1>4, <1>5

-----------------------------------------------------------------------------
(* What is in the log stays as promised.                                   *)
LEMMA OldPromises ==
  ASSUME NEW opt, NEW log \in Seq(Entry), NEW e \in Entry, NEW new, new = Append(log, e),
         NEW i \in 1..Len(log), PromisedAt(opt, log, i), opt.of \in Nat, opt.refractory \in Nat
  PROVE  PromisedAt(opt, new, i)
<1>1. /\ Len(log) \in Nat /\ \A j \in 1..Len(log) : new[j] = log[j]
  BY AppendFacts
<1>2. Verdicts(new, i, opt.of) = Verdicts(log, i, opt.of)
  BY <1>1 DEF Verdicts
<1>3. (\A j \in i - opt.refractory .. i - 1 : j >= 1 => ~new[j].fired)
        <=> (\A j \in i - opt.refractory .. i - 1 : j >= 1 => ~log[j].fired)
  BY <1>1
<1>4. (\E j \in 1..i - 1 : new[j].fired) <=> (\E j \in 1..i - 1 : log[j].fired)
  BY <1>1
<1>5. new[i] = log[i]
  BY <1>1
<1>. QED BY <1>2, <1>3, <1>4, <1>5 DEF PromisedAt

(* Step's decision about a score is the promise about its verdict.         *)
LEMMA NewPromise ==
  ASSUME NEW g, NEW h, NEW log, NEW e \in Entry, NEW new, new = Append(log, e),
         NEW i, i = Len(new),
         Typed(g, log), LastKnown(g, log), QuietLeft(g, log), HotCounts(h, new), Typed(h, new),
         h.opt = g.opt,
         e.fired <=> /\ g.quiet = 0 /\ ~e.muted /\ g.seen >= g.opt.warmup
                     /\ h.filled >= g.opt.persist /\ h.hot >= g.opt.persist
                     /\ (g.opt.cooldown > 0 /\ g.lastFire >= 0) => e.again
  PROVE  PromisedAt(g.opt, new, i)
<1>1. /\ i \in Nat /\ i >= 1 /\ Len(log) = i - 1 /\ new[i] = e
      /\ \A j \in 1..i - 1 : new[j] = log[j]
  <2>1. /\ Len(log) \in Nat /\ i = Len(log) + 1 /\ new[Len(log) + 1] = e
        /\ \A j \in 1..Len(log) : new[j] = log[j]
    BY AppendFacts DEF Typed
  <2>2. Len(log) = i - 1
    BY <2>1
  <2>. QED BY <2>1, <2>2
<1>2. /\ g.opt.of \in Nat /\ g.opt.persist \in 1..g.opt.of /\ g.opt.refractory \in Nat
      /\ g.opt.warmup \in Nat /\ g.seen = i - 1 /\ g.lastFire \in -1..i - 2
      /\ h.filled = (IF i < g.opt.of THEN i ELSE g.opt.of)
  BY <1>1 DEF Typed, OptTyped, LastKnown
<1>3. h.filled >= g.opt.persist /\ h.hot >= g.opt.persist
        <=> Cardinality(Verdicts(new, i, g.opt.of)) >= g.opt.persist
  <2>1. h.hot = Cardinality(Verdicts(new, i, g.opt.of))
    BY <1>1 DEF HotCounts
  <2>2. /\ Cardinality(Verdicts(new, i, g.opt.of)) \in Nat
        /\ Cardinality(Verdicts(new, i, g.opt.of)) <= h.filled
    BY <1>1, <1>2, WindowFinite
  <2>. QED BY <1>2, <2>1, <2>2
<1>4. g.quiet = 0 <=> \A j \in i - g.opt.refractory .. i - 1 : j >= 1 => ~new[j].fired
  <2>1. \A j \in g.lastFire + 2..i - 1 : ~new[j].fired
    BY <1>1, <1>2 DEF LastKnown
  <2>2. g.quiet = 0 <=> (g.lastFire >= 0 => g.lastFire + g.opt.refractory < i - 1)
    <3>1. g.quiet = Left(g.opt.refractory, i - 1, g.lastFire)
      BY <1>1 DEF QuietLeft
    <3>2. i - 1 \in Nat /\ g.lastFire \in Int /\ -1 <= g.lastFire /\ g.lastFire <= i - 1 - 1
      BY <1>1, <1>2
    <3>3. Left(g.opt.refractory, i - 1, g.lastFire) = 0
            <=> (g.lastFire >= 0 => g.lastFire + g.opt.refractory < i - 1)
      BY <1>2, <3>2, LeftCounts
    <3>. QED BY <3>1, <3>3, Zenon
  <2>3. CASE g.lastFire = -1
    BY <1>1, <1>2, <2>1, <2>2, <2>3
  <2>4. CASE g.lastFire >= 0
    <3>1. new[g.lastFire + 1].fired /\ g.lastFire + 1 \in 1..i - 1
      BY <1>1, <1>2, <2>4 DEF LastKnown
    <3>2. ASSUME g.quiet = 0, NEW j \in i - g.opt.refractory .. i - 1, j >= 1
          PROVE  ~new[j].fired
      <4>1. j \in g.lastFire + 2..i - 1
        BY SMTT(30), <1>1, <1>2, <2>2, <2>4, <3>2
      <4>. QED BY <2>1, <4>1
    <3>3. ASSUME g.quiet # 0
          PROVE  \E j \in i - g.opt.refractory .. i - 1 : j >= 1 /\ new[j].fired
      <4>1. g.lastFire + 1 \in i - g.opt.refractory .. i - 1 /\ g.lastFire + 1 >= 1
        BY <1>1, <1>2, <2>2, <3>1, <3>3
      <4>. QED BY <3>1, <4>1
    <3>. QED BY <3>2, <3>3
  <2>. QED BY <1>2, <2>3, <2>4
<1>5. g.lastFire >= 0 <=> \E j \in 1..i - 1 : new[j].fired
  BY <1>1, <1>2 DEF LastKnown
<1>6. g.seen >= g.opt.warmup <=> i > g.opt.warmup
  BY <1>1, <1>2
<1>7. new[i].fired <=>
        /\ i > g.opt.warmup /\ ~new[i].muted
        /\ Cardinality(Verdicts(new, i, g.opt.of)) >= g.opt.persist
        /\ \A j \in i - g.opt.refractory .. i - 1 : j >= 1 => ~new[j].fired
        /\ (g.opt.cooldown > 0 /\ \E j \in 1..i - 1 : new[j].fired) => new[i].again
  BY <1>1, <1>3, <1>4, <1>5, <1>6
<1>. QED BY <1>7, Zenon DEF PromisedAt

-----------------------------------------------------------------------------
(* One score: the guard and the log go on together.                        *)
Verdict(g, score) ==
    [over  |-> ~Suppressed(g) /\ Over(score, Threshold(g)), muted |-> Suppressed(g),
     again |-> score = NotANumber \/ score >= g.opt.cooldown * Threshold(g),
     fired |-> Step(g, score).fired]

LEMMA StepMoves ==
  ASSUME NEW g, NEW log, GuardInv(g, log), NEW score, score = NotANumber \/ score \in Int,
         NEW over, over = (~Suppressed(g) /\ Over(score, Threshold(g))),
         NEW p, p = PushedTo(g, over), NEW h, h = Step(g, score).guard,
         NEW fires, fires = MayFire(g, p, score),
         NEW e, e = Verdict(g, score), NEW new, new = Append(log, e)
  PROVE  GuardInv(h, new)
<1>1. /\ Typed(g, log) /\ RingHolds(g, log) /\ HotCounts(g, log)
      /\ LastKnown(g, log) /\ QuietLeft(g, log)
      /\ \A i \in 1..Len(log) : PromisedAt(g.opt, log, i)
  BY DEF GuardInv
<1>2. Shape(g) /\ OptTyped(g.opt) /\ g.at \in 0..g.opt.of - 1
  BY <1>1 DEF Typed
<1>3. /\ Step(g, score).fired = fires /\ Moved(g, h, over, fires)
      /\ p.filled = h.filled /\ p.hot = h.hot
  BY <1>2, StepParts
<1>4. over \in BOOLEAN /\ fires \in BOOLEAN /\ Suppressed(g) \in BOOLEAN
  BY DEF Over, MayFire, Suppressed
<1>5. /\ e.over = over /\ e.muted = Suppressed(g) /\ e.fired = fires
      /\ e.again = (score = NotANumber \/ score >= g.opt.cooldown * Threshold(g))
  BY <1>3 DEF Verdict
<1>6. e \in Entry
  BY <1>3, <1>4 DEF Verdict, Entry
<1>7. Moved(g, h, e.over, e.fired)
  BY <1>3, <1>5
<1>8. h.opt = g.opt
  BY <1>7 DEF Moved
<1>9. g.opt.cooldown * Threshold(g) \in Int
  BY <1>1 DEF Typed, OptTyped, Threshold
<1>10. fires <=> /\ g.quiet = 0 /\ ~Suppressed(g) /\ g.seen >= g.opt.warmup
                 /\ h.filled >= g.opt.persist /\ h.hot >= g.opt.persist
                 /\ ~ /\ g.opt.cooldown > 0 /\ g.lastFire >= 0
                      /\ score # NotANumber /\ score < g.opt.cooldown * Threshold(g)
  BY <1>3 DEF MayFire
<1>11. e.again <=> ~(score # NotANumber /\ score < g.opt.cooldown * Threshold(g))
  <2>1. ASSUME NEW x \in Int
        PROVE  (score = NotANumber \/ score >= x) <=> ~(score # NotANumber /\ score < x)
    OBVIOUS
  <2>. QED BY <1>5, <1>9, <2>1, Zenon
<1>12. e.fired <=> /\ g.quiet = 0 /\ ~e.muted /\ g.seen >= g.opt.warmup
                   /\ h.filled >= g.opt.persist /\ h.hot >= g.opt.persist
                   /\ (g.opt.cooldown > 0 /\ g.lastFire >= 0) => e.again
  <2>. HIDE DEF Verdict
  <2>. QED BY <1>5, <1>10, <1>11, Zenon
<1>13. Typed(h, new)
  BY <1>1, <1>6, <1>7, TypeMoves
<1>14. RingHolds(h, new)
  BY <1>1, <1>6, <1>7, RingMoves
<1>15. HotCounts(h, new)
  BY <1>1, <1>6, <1>7, HotMoves
<1>16. LastKnown(h, new) /\ QuietLeft(h, new)
  <2>1. e.fired => g.quiet = 0
    BY <1>12
  <2>. QED BY <1>1, <1>6, <1>7, <2>1, QuietMoves
<1>17. PromisedAt(g.opt, new, Len(new))
  BY <1>1, <1>6, <1>8, <1>12, <1>13, <1>15, NewPromise
<1>18. ASSUME NEW i \in 1..Len(new) PROVE PromisedAt(h.opt, new, i)
  <2>1. Len(log) \in Nat /\ Len(new) = Len(log) + 1 /\ log \in Seq(Entry)
    BY <1>1, <1>6, AppendFacts DEF Typed
  <2>2. CASE i = Len(new)
    BY <1>8, <1>17, <2>2
  <2>3. CASE i \in 1..Len(log)
    <3>1. g.opt.of \in Nat /\ g.opt.refractory \in Nat
      BY <1>2 DEF OptTyped
    <3>. QED BY <1>1, <1>6, <1>8, <2>1, <2>3, <3>1, OldPromises
  <2>. QED BY <2>1, <2>2, <2>3
<1>. QED BY <1>13, <1>14, <1>15, <1>16, <1>18 DEF GuardInv

(* A fresh guard has seen nothing.                                         *)
LEMMA FreshGuard ==
  ASSUME NEW opt \in Policies
  PROVE  GuardInv(NewGuard(opt), <<>>)
<1>. DEFINE g == NewGuard(opt)
<1>1. opt \in [persist : Int, of : Int, refractory : Nat, warmup : Nat, cooldown : Int,
               threshold : Int, suppress : SUBSET (Int \X Int)] /\ Infinite \in Int
  BY PoliciesAssumption
<1>2. OptTyped(Resolved(opt))
  BY <1>1 DEF OptTyped, Resolved
<1>3. /\ g.opt = Resolved(opt) /\ g.ring = [i \in 0..Resolved(opt).of - 1 |-> FALSE]
      /\ g.at = 0 /\ g.filled = 0 /\ g.hot = 0 /\ g.quiet = 0 /\ g.seen = 0
      /\ g.penalty = 0 /\ g.lastFire = -1 /\ Shape(g)
  BY DEF NewGuard, Shape
<1>4. /\ g.opt.of \in Nat /\ g.opt.of >= 1 /\ g.opt.refractory \in Nat
      /\ g.ring \in [0..g.opt.of - 1 -> BOOLEAN]
  BY <1>2, <1>3 DEF OptTyped
<1>. HIDE DEF g
<1>5. Len(<<>>) = 0 /\ <<>> \in Seq(Entry)
  OBVIOUS
<1>6. Typed(g, <<>>)
  BY <1>2, <1>3, <1>4, <1>5 DEF Typed
<1>7. RingHolds(g, <<>>)
  BY <1>3 DEF RingHolds
<1>8. HotCounts(g, <<>>)
  <2>1. Verdicts(<<>>, 0, g.opt.of) = {}
    BY <1>4 DEF Verdicts
  <2>. QED BY <1>3, <1>5, <2>1, FS_EmptySet DEF HotCounts
<1>9. LastKnown(g, <<>>) /\ QuietLeft(g, <<>>)
  BY <1>3, <1>4, <1>5 DEF LastKnown, QuietLeft, Left
<1>. QED BY <1>5, <1>6, <1>7, <1>8, <1>9 DEF GuardInv, g

(* Feedback moves the penalty only.                                        *)
LEMMA PenaltyMoves ==
  ASSUME NEW g, NEW log, GuardInv(g, log), NEW x \in Int, NEW h, h = [g EXCEPT !.penalty = x]
  PROVE  GuardInv(h, log)
<1>1. DOMAIN g = {"opt", "ring", "at", "filled", "hot", "quiet", "seen", "penalty", "lastFire"}
  BY DEF GuardInv, Typed, Shape
<1>2. /\ h.opt = g.opt /\ h.ring = g.ring /\ h.at = g.at /\ h.filled = g.filled
      /\ h.hot = g.hot /\ h.quiet = g.quiet /\ h.seen = g.seen /\ h.penalty = x
      /\ h.lastFire = g.lastFire
  BY <1>1
<1>3. Shape(h)
  BY <1>1 DEF Shape
<1>4. Typed(h, log)
  BY <1>2, <1>3 DEF GuardInv, Typed
<1>5. RingHolds(h, log) /\ HotCounts(h, log) /\ LastKnown(h, log) /\ QuietLeft(h, log)
  BY <1>2 DEF GuardInv, RingHolds, HotCounts, LastKnown, QuietLeft
<1>. QED BY <1>2, <1>4, <1>5 DEF GuardInv

-----------------------------------------------------------------------------
LEMMA FeedMoves ==
  ASSUME AlarmInv, NEW s \in Scores \cup {NotANumber}, Feed(s)
  PROVE  AlarmInv'
<1>. DEFINE g == alarms.guard
            log == alarms.log
<1>1. /\ alarms = [kind |-> "stream", guard |-> g, log |-> log] /\ GuardInv(g, log)
  BY DEF AlarmInv, Feed
<1>2. alarms' = [kind |-> "stream", guard |-> Step(g, s).guard,
                 log |-> Append(log, Verdict(g, s))]
  BY DEF Feed, Verdict
<1>3. s = NotANumber \/ s \in Int
  BY PoliciesAssumption
<1>4. GuardInv(Step(g, s).guard, Append(log, Verdict(g, s)))
  <2>. HIDE DEF g, log
  <2>. QED BY <1>1, <1>3, StepMoves
<1>6. /\ alarms'.guard = Step(g, s).guard /\ alarms'.log = Append(log, Verdict(g, s))
      /\ alarms' = [kind |-> "stream", guard |-> alarms'.guard, log |-> alarms'.log]
  BY <1>2
<1>. QED BY <1>4, <1>6 DEF AlarmInv

LEMMA FeedbackMoves ==
  ASSUME AlarmInv, Penalize(1) \/ ClearPenalty
  PROVE  AlarmInv'
<1>. DEFINE g == alarms.guard
<1>1. alarms = [kind |-> "stream", guard |-> g, log |-> alarms.log] /\ GuardInv(g, alarms.log)
  BY DEF AlarmInv, Penalize, ClearPenalty
<1>2. g.penalty \in Int /\ "penalty" \in DOMAIN g
  BY <1>1 DEF GuardInv, Typed, Shape
<1>3. PICK x \in Int : alarms' = [alarms EXCEPT !.guard.penalty = x]
  BY <1>1, <1>2, PoliciesAssumption DEF Penalize, ClearPenalty
<1>4. GuardInv([g EXCEPT !.penalty = x], alarms.log)
  BY <1>1, PenaltyMoves
<1>5. alarms' = [kind |-> "stream", guard |-> [g EXCEPT !.penalty = x], log |-> alarms.log]
  BY <1>1, <1>3
<1>6. /\ alarms'.guard = [g EXCEPT !.penalty = x] /\ alarms'.log = alarms.log
      /\ alarms' = [kind |-> "stream", guard |-> alarms'.guard, log |-> alarms'.log]
  BY <1>5
<1>. QED BY <1>4, <1>6 DEF AlarmInv

LEMMA OpenMoves ==
  ASSUME NEW opt \in Policies, OpenGuard(opt)
  PROVE  AlarmInv'
<1>1. alarms' = [kind |-> "stream", guard |-> NewGuard(opt), log |-> <<>>]
  BY DEF OpenGuard
<1>2. /\ alarms'.guard = NewGuard(opt) /\ alarms'.log = <<>>
      /\ alarms' = [kind |-> "stream", guard |-> alarms'.guard, log |-> alarms'.log]
  BY <1>1
<1>. QED BY <1>2, FreshGuard DEF AlarmInv

(* The promise is part of what the guard knows.                            *)
LEMMA PromiseHolds ==
  ASSUME AlarmInv
  PROVE  FiresAsPromised
<1>. SUFFICES ASSUME alarms.kind = "stream", NEW i \in DOMAIN alarms.log
              PROVE  PromisedAt(alarms.guard.opt, alarms.log, i)
  BY DEF FiresAsPromised, PromisedAt, Verdicts
<1>1. GuardInv(alarms.guard, alarms.log)
  BY DEF AlarmInv
<1>2. i \in 1..Len(alarms.log)
  BY <1>1 DEF GuardInv, Typed
<1>. QED BY <1>1, <1>2 DEF GuardInv

LEMMA AlarmKeeps == AlarmInv /\ [AlarmNext]_alarmVars => AlarmInv'
<1>. SUFFICES ASSUME AlarmInv, [AlarmNext]_alarmVars
              PROVE  AlarmInv'
  OBVIOUS
<1>1. CASE \E opt \in Policies : OpenGuard(opt)
  BY <1>1, OpenMoves
<1>2. CASE \E s \in Scores \cup {NotANumber} : Feed(s)
  BY <1>2, FeedMoves
<1>3. CASE Penalize(1) \/ ClearPenalty
  BY <1>3, FeedbackMoves
<1>4. CASE \E w \in RecordedScores, t \in Scores, gap \in 0..1 : Group(w, t, gap)
  BY <1>4 DEF Group, AlarmInv
<1>5. CASE \E w \in RecordedScores, opt \in Policies : Spend(w, <<1, MaxWindow>>, opt)
  BY <1>5 DEF Spend, AlarmInv
<1>6. CASE UNCHANGED alarmVars
  BY <1>6 DEF AlarmInv, alarmVars
<1>. QED BY <1>1, <1>2, <1>3, <1>4, <1>5, <1>6 DEF AlarmNext

(* Whatever the policy, the scores and the feedback: an alarm is raised    *)
(* exactly when the policy says so (Guard.Step, Penalize).                 *)
THEOREM AlarmsAsPromised == AlarmSpec => []FiresAsPromised
<1>1. AlarmInit => AlarmInv
  BY DEF AlarmInit, AlarmInv, None
<1>2. AlarmInv /\ [AlarmNext]_alarmVars => AlarmInv'
  BY AlarmKeeps
<1>3. AlarmInv => FiresAsPromised
  BY PromiseHolds
<1>. QED BY <1>1, <1>2, <1>3, PTL DEF AlarmSpec

-----------------------------------------------------------------------------
(* Calendars and accepted jobs.                                            *)

\* What a question about a calendar, or the loading of a job, leaves behind.
SpecInv ==
  \/ spec = [kind |-> "none"]
  \/ \E c \in Calendars, t \in AskedTimes :
       spec = [kind |-> "calendar", cal |-> c, time |-> t, covered |-> Covers(c, t)]
  \/ \E d \in DetectorSpecs, auto \in BOOLEAN :
       spec = [kind |-> "job", file |-> d,
               job |-> Parsed([name |-> 1, span |-> 1, detectors |-> <<d>>, auto |-> auto])]

\* The window was last opened so long ago, in whole periods.
LEMMA OffsetIs ==
  ASSUME NEW per \in Nat \ {0}, NEW t \in Int, NEW a \in Int
  PROVE  Offset(t, a, per) = (t - a) % per
<1>. DEFINE x == (t % per) - (a % per) + per
            q == (t \div per) - (a \div per) - 1
            o == x % per
            k == (t - a) \div per
<1>1. /\ t = per * (t \div per) + (t % per) /\ t \div per \in Int /\ t % per \in 0..per - 1
      /\ a = per * (a \div per) + (a % per) /\ a \div per \in Int /\ a % per \in 0..per - 1
  BY DivMod
<1>2. q \in Int /\ x \in Int
  BY <1>1
<1>3. t - a = per * q + x
  <2>1. per * q = per * (t \div per) - per * (a \div per) - per
    BY <1>1
  <2>. QED BY <2>1, <1>1
<1>. HIDE DEF x, q
<1>4. x = per * (x \div per) + o /\ x \div per \in Int /\ o \in 0..per - 1
  BY <1>2, DivMod
<1>. DEFINE y == x \div per
            m == (t - a) % per
<1>5. t - a = per * k + m /\ k \in Int /\ m \in 0..per - 1
  <2>1. t - a \in Int
    OBVIOUS
  <2>. QED BY <2>1, DivMod
<1>. HIDE DEF k, o, y, m
<1>6. m - o = (q + y - k) * per /\ q + y - k \in Int
  <2>1. /\ q \in Int /\ y \in Int /\ k \in Int /\ m \in Int /\ o \in Int /\ x = per * y + o
    BY <1>2, <1>4, <1>5 DEF y
  <2>2. per * k + m = per * q + (per * y + o)
    BY <2>1, <1>3, <1>5
  <2>3. (q + y - k) * per = per * q + per * y - per * k
    BY <2>1
  <2>. QED BY <2>1, <2>2, <2>3
<1>7. m = o
  BY <1>6, <1>4, <1>5, RemainderOne
<1>. QED BY <1>7 DEF Offset, o, x, m

LEMMA TimesBound ==
  ASSUME NEW per \in Nat \ {0}, NEW x \in Int
  PROVE  x \div per \in -Size(x)..Size(x)
<1>. DEFINE k == x \div per
<1>1. k \in Int /\ x % per \in 0..per - 1 /\ x = per * k + (x % per)
  BY DivMod
<1>. HIDE DEF k
<1>2. k >= 0 => per * k >= k
  BY <1>1
<1>3. k <= -1 => x <= k
  <2>1. k <= -1 => per * (k + 1) <= k + 1
    BY <1>1
  <2>2. per * (k + 1) = per * k + per
    BY <1>1
  <2>. QED BY <1>1, <2>1, <2>2
<1>4. Size(x) = (IF x < 0 THEN -x ELSE x)
  BY DEF Size
<1>. QED BY <1>1, <1>2, <1>3, <1>4 DEF k

\* The window of a recurring calendar, moved by whole periods.
LEMMA EveryRepeats ==
  ASSUME NEW per \in Nat \ {0}, NEW a \in Int, NEW e \in Int, NEW t \in Int, a < e,
         NEW far, far = Size(t - a)
  PROVE  (e - a >= per \/ Offset(t, a, per) \in 0..e - a - 1)
           <=> \E k \in -far..far : a + k * per <= t /\ t < e + k * per
<1>. DEFINE w == (t - a) \div per
<1>. DEFINE r == (t - a) % per
<1>0. t - a \in Int
  OBVIOUS
<1>1. w \in Int /\ r \in 0..per - 1 /\ t - a = per * w + r
  BY <1>0, DivMod
<1>2. w \in -far..far
  BY <1>0, TimesBound
<1>3. Offset(t, a, per) = r
  BY OffsetIs
<1>. HIDE DEF w, r
<1>4. per * w = w * per
  BY <1>1
<1>5. ASSUME e - a >= per \/ r \in 0..e - a - 1
      PROVE  a + w * per <= t /\ t < e + w * per
  BY <1>1, <1>4, <1>5
<1>6. ASSUME NEW k \in -far..far, a + k * per <= t, t < e + k * per, e - a < per
      PROVE  r \in 0..e - a - 1
  <2>1. far \in Int
    BY DEF Size
  <2>2. k \in Int /\ k * per \in Int
    BY <2>1
  <2>3. t - a - k * per \in 0..per - 1
    BY <1>6, <2>2
  <2>4. r - (t - a - k * per) = (k - w) * per /\ k - w \in Int
    <3>1. (k - w) * per = k * per - w * per
      BY <2>2, <1>1
    <3>. QED BY <3>1, <1>1, <1>4, <2>2
  <2>5. r = t - a - k * per
    <3>. DEFINE s == t - a - k * per
    <3>1. s \in 0..per - 1 /\ r \in 0..per - 1 /\ r - s = (k - w) * per
      BY <2>3, <2>4, <1>1
    <3>. HIDE DEF s
    <3>. QED BY <3>1, <2>4, RemainderOne DEF s
  <2>. QED BY <1>6, <2>2, <2>5
<1>. QED BY <1>2, <1>3, <1>5, <1>6, <1>1, <1>4

LEMMA CalendarTells ==
  ASSUME NEW c \in Calendars, NEW t \in AskedTimes,
         spec = [kind |-> "calendar", cal |-> c, time |-> t, covered |-> Covers(c, t)]
  PROVE  CalendarsRepeat
<1>1. /\ c.start \in Int /\ c.end \in Int /\ t \in Int /\ c.recur \in {"none", "daily", "weekly"}
      /\ DayLen \in Nat \ {0} /\ WeekLen \in Nat \ {0}
  <2>1. c.start \in CalendarTimes /\ c.end \in CalendarTimes /\ c.recur \in {"none", "daily", "weekly"}
    BY DEF Calendars
  <2>2. DayLen \in Nat \ {0} /\ CalendarTimes \subseteq Int /\ AskedTimes \subseteq Int
    BY CalendarAssumption
  <2>3. WeekLen \in Nat \ {0}
    BY <2>2 DEF WeekLen
  <2>. QED BY <2>1, <2>2, <2>3
<1>. DEFINE far == Size(t - c.start)
            Shifted(per) == \E k \in -far..far : c.start + k * per <= t /\ t < c.end + k * per
<1>2. ASSUME NEW per \in Nat \ {0}
      PROVE  c.end > c.start /\ CoversEvery(c, t, per) <=> Shifted(per)
  <2>1. far \in Int
    BY <1>1 DEF Size
  <2>2. CASE c.end > c.start
    BY <1>1, <2>2, EveryRepeats DEF CoversEvery
  <2>3. CASE ~(c.end > c.start)
    <3>1. ASSUME NEW k \in -far..far, c.start + k * per <= t, t < c.end + k * per
          PROVE  FALSE
      <4>1. k * per \in Int
        BY <2>1
      <4>. QED BY <1>1, <2>3, <3>1, <4>1
    <3>. QED BY <2>3, <3>1
  <2>. QED BY <2>2, <2>3
<1>3. ASSUME NEW per, c.recur # "none", per = (IF c.recur = "daily" THEN DayLen ELSE WeekLen)
      PROVE  Covers(c, t) <=> Shifted(per)
  BY <1>1, <1>2, <1>3 DEF Covers
<1>4. CASE c.recur = "none"
  <2>1. Covers(c, t) <=> c.start <= t /\ t < c.end
    BY <1>1, <1>4 DEF Covers
  <2>. QED BY <1>1, <1>4, <2>1 DEF CalendarsRepeat
<1>5. CASE c.recur # "none"
  <2>. DEFINE period == IF c.recur = "daily" THEN DayLen ELSE WeekLen
  <2>1. Covers(c, t) <=> Shifted(period)
    BY <1>3, <1>5
  <2>2. Shifted(period) <=> \E m \in {k * period : k \in -far..far} : c.start + m <= t /\ t < c.end + m
    OBVIOUS
  <2>. QED BY <1>5, <2>1, <2>2 DEF CalendarsRepeat
<1>. QED BY <1>4, <1>5

\* A function that is aggregated has a value for a bucket with points.
LEMMA AggregateHasValue ==
  ASSUME NEW fn \in Aggregates \cup {"count"}, NEW vals \in Seq(Int), Len(vals) # 0
  PROVE  Aggregate(fn, vals) # NoAggregate
<1>1. Len(vals) \in Nat
  OBVIOUS
<1>2. \A x, y : <<x, y>> # <<>>
  OBVIOUS
<1>. QED BY <1>1, <1>2 DEF Aggregate, Aggregates, NoAggregate

LEMMA EmptyCounts ==
  ASSUME NEW fn \in {"count", "distinct_count"}
  PROVE  Aggregate(fn, <<>>) = <<0, 1>>
<1>1. ToSet(<<>>) = {}
  BY DEF ToSet
<1>2. Cardinality(ToSet(<<>>)) = 0 /\ Len(<<>>) = 0
  BY <1>1, FS_EmptySet
<1>3. Aggregate("count", <<>>) = <<Len(<<>>), 1>>
  BY DEF Aggregate
<1>4. Aggregate("distinct_count", <<>>) = <<Cardinality(ToSet(<<>>)), 1>>
  BY DEF Aggregate
<1>. QED BY <1>2, <1>3, <1>4

LEMMA NothingAggregates ==
  ASSUME NEW fn, fn \notin {"count", "distinct_count"}
  PROVE  Aggregate(fn, <<>>) = NoAggregate
<1>1. Len(<<>>) = 0
  OBVIOUS
<1>. QED BY <1>1 DEF Aggregate

\* Neither a rate nor a function that is not a known one is aggregated.
LEMMA RateAggregatesNothing ==
  ASSUME NEW fn \in {"rate", "misspelled"}, NEW vals
  PROVE  Aggregate(fn, vals) = NoAggregate
BY DEF Aggregate

LEMMA JobTells ==
  ASSUME NEW d \in DetectorSpecs, NEW auto \in BOOLEAN,
         spec = [kind |-> "job", file |-> d,
                 job |-> Parsed([name |-> 1, span |-> 1, detectors |-> <<d>>, auto |-> auto])]
  PROVE  ScoresOfAccepted
<1>. SUFFICES ASSUME spec.job.name # 0 PROVE ScoresOfAccepted
  BY DEF ScoresOfAccepted
<1>. DEFINE job == [name |-> 1, span |-> 1, detectors |-> <<d>>, auto |-> FALSE]
<1>1. spec.job = job /\ Valid(job)
  <2>1. [[name |-> 1, span |-> 1, detectors |-> <<d>>, auto |-> auto] EXCEPT !.auto = FALSE] = job
    <3>1. \A ds, x, y : [[name |-> 1, span |-> 1, detectors |-> ds, auto |-> x] EXCEPT !.auto = y]
                          = [name |-> 1, span |-> 1, detectors |-> ds, auto |-> y]
      OBVIOUS
    <3>. QED BY <3>1, Zenon
  <2>3. spec.job = (IF Valid(job) THEN job ELSE [name |-> 0])
    BY <2>1, Zenon DEF Parsed
  <2>2. [name |-> 0].name = 0
    OBVIOUS
  <2>. HIDE DEF job
  <2>. QED BY <2>3, <2>2
<1>2. ValidDetector(d) /\ spec.job.detectors[1] = d
  <2>1. job.detectors = <<d>> /\ <<d>>[1] = d /\ 1 \in DOMAIN <<d>>
    OBVIOUS
  <2>2. \A i \in DOMAIN job.detectors : ValidDetector(job.detectors[i])
    BY <1>1 DEF Valid
  <2>. QED BY <1>1, <2>1, <2>2
<1>3. d.fn \in KnownFunctions \cup {"", "misspelled"}
  BY DEF DetectorSpecs
<1>4. Path(d) \in {"rare", "info"} => d.by # 0
  BY <1>2, <1>3 DEF Path, ValidDetector, ValidDetectorOf
<1>5. Path(d) = "ratio" => d.field # 0 /\ d.denom # 0
  BY <1>2, <1>3 DEF Path, ValidDetector, ValidDetectorOf
<1>6. ASSUME Path(d) \in {"temporal", "population"}
      PROVE  /\ BucketValue(d, <<1, 0, 1>>) = NoAggregate
                  <=> d.fn \notin KnownFunctions \/ (d.fn = "rate" /\ d.over # 0)
             /\ d.fn \in Aggregates => d.field # 0
             /\ BucketValue(d, <<>>) # NoAggregate =>
                  d.fn \in {"count", "distinct_count"} \/ (d.fn = "rate" /\ d.field = 0)
  <2>. DEFINE three == <<1, 0, 1>>
  <2>1. /\ ~IsMultivariate(d) /\ d.fn # ""
        /\ d.fn \notin {"rare", "freq_rare", "info_content", "time_of_day", "time_of_week",
                        "lat_long", "ratio"}
    BY <1>2, <1>6 DEF Path, ValidDetector, ValidDetectorOf
  <2>2. d.fn \in Aggregates \cup {"count", "rate", "misspelled"}
    BY <1>3, <2>1 DEF KnownFunctions
  <2>3. three \in Seq(Int) /\ Len(three) # 0 /\ three # <<>>
    OBVIOUS
  <2>4. d.fn \in Aggregates => d.field # 0
    BY <1>2, <2>1 DEF ValidDetector, ValidDetectorOf, NeedsField
  <2>. HIDE DEF three
  <2>5. CASE d.fn \in Aggregates \cup {"count"}
    <3>1. d.fn # "rate" /\ d.fn \in KnownFunctions
      BY <2>5 DEF Aggregates, KnownFunctions
    <3>2. BucketValue(d, three) # NoAggregate
      BY <2>3, <2>5, <3>1, AggregateHasValue DEF BucketValue
    <3>3. d.fn \notin {"count", "distinct_count"} => BucketValue(d, <<>>) = NoAggregate
      BY <3>1, NothingAggregates DEF BucketValue
    <3>. QED BY <3>1, <3>2, <3>3, <2>4 DEF three
  <2>6. CASE d.fn = "rate"
    <3>1. d.fn \in KnownFunctions
      BY <2>6 DEF KnownFunctions
    <3>2. \A x, y : <<x, y>> # <<>>
      OBVIOUS
    <3>3. d.over = 0 => BucketValue(d, three) # NoAggregate
      BY <2>3, <2>6, <3>2 DEF BucketValue, RateOf, NoAggregate
    <3>4. d.over # 0 => BucketValue(d, three) = NoAggregate /\ BucketValue(d, <<>>) = NoAggregate
      BY <2>6, RateAggregatesNothing, NothingAggregates DEF BucketValue
    <3>5. d.over = 0 /\ d.field # 0 => BucketValue(d, <<>>) = NoAggregate
      BY <2>6 DEF BucketValue, RateOf
    <3>. QED BY <2>4, <2>6, <3>1, <3>3, <3>4, <3>5 DEF three
  <2>7. CASE d.fn = "misspelled"
    <3>1. d.fn \notin KnownFunctions /\ d.fn # "rate"
      BY <2>7 DEF KnownFunctions, Aggregates
    <3>2. BucketValue(d, three) = NoAggregate /\ BucketValue(d, <<>>) = NoAggregate
      BY <2>7, <3>1, RateAggregatesNothing, NothingAggregates DEF BucketValue
    <3>. QED BY <2>4, <3>1, <3>2 DEF three
  <2>. QED BY <2>2, <2>5, <2>6, <2>7
<1>7. ASSUME CountsEmptyAsZero(d) \/ CountFamilySplit(d)
      PROVE  Path(d) = "temporal" /\ BucketValue(d, <<>>) = <<0, 1>>
  <2>1. d.over = 0 /\ ~IsMultivariate(d)
    BY <1>7 DEF CountsEmptyAsZero, CountFamilySplit
  <2>2. \/ d.fn \in {"count", "distinct_count"}
        \/ d.fn = "rate" /\ d.field = 0
    BY <1>7 DEF CountsEmptyAsZero, CountFamilySplit
  <2>3. Path(d) = "temporal"
    BY <2>1, <2>2 DEF Path
  <2>4. CASE d.fn \in {"count", "distinct_count"}
    BY <2>3, <2>4, EmptyCounts DEF BucketValue
  <2>5. CASE d.fn = "rate" /\ d.field = 0
    <3>1. Len(<<>>) = 0
      OBVIOUS
    <3>. QED BY <2>1, <2>3, <2>5, <3>1 DEF BucketValue, RateOf
  <2>. QED BY <2>2, <2>3, <2>4, <2>5
<1>8. ~(CountsEmptyAsZero(d) /\ CountFamilySplit(d))
  BY DEF CountsEmptyAsZero, CountFamilySplit
<1>. QED BY <1>2, <1>4, <1>5, <1>6, <1>7, <1>8 DEF ScoresOfAccepted

LEMMA SpecStarts == SpecInit => SpecInv
BY DEF SpecInit, SpecInv

LEMMA SpecKeeps == SpecInv /\ [SpecNext]_specVars => SpecInv'
<1>. SUFFICES ASSUME SpecInv, [SpecNext]_specVars PROVE SpecInv'
  OBVIOUS
<1>1. CASE \E c \in Calendars, t \in AskedTimes : AskCalendar(c, t)
  BY <1>1 DEF AskCalendar, SpecInv
<1>2. CASE \E d \in DetectorSpecs, auto \in BOOLEAN : LoadJob(d, auto)
  BY <1>2 DEF LoadJob, SpecInv
<1>3. CASE UNCHANGED specVars
  BY <1>3 DEF SpecInv, specVars
<1>. QED BY <1>1, <1>2, <1>3 DEF SpecNext

LEMMA SpecTells == SpecInv => CalendarsRepeat /\ ScoresOfAccepted
<1>. SUFFICES ASSUME SpecInv PROVE CalendarsRepeat /\ ScoresOfAccepted
  OBVIOUS
<1>1. CASE spec = [kind |-> "none"]
  BY <1>1 DEF CalendarsRepeat, ScoresOfAccepted
<1>2. CASE \E c \in Calendars, t \in AskedTimes :
             spec = [kind |-> "calendar", cal |-> c, time |-> t, covered |-> Covers(c, t)]
  BY <1>2, CalendarTells DEF ScoresOfAccepted
<1>3. CASE \E d \in DetectorSpecs, auto \in BOOLEAN :
             spec = [kind |-> "job", file |-> d,
                     job |-> Parsed([name |-> 1, span |-> 1, detectors |-> <<d>>, auto |-> auto])]
  BY <1>3, JobTells DEF CalendarsRepeat
<1>. QED BY <1>1, <1>2, <1>3 DEF SpecInv

-----------------------------------------------------------------------------
(* Baselines.                                                              *)

Learned == [n : Int, v : BaseValues]
Models ==
  [side : Sides, warmup : Warmups, history : Seq(Learned), recent : Seq(Int),
   run : 0..DriftBuckets - 1, sign : {-1, 0, 1}]

\* A deviation beyond the level, of this sign.
Strong(sign, z) == IF sign = 1 THEN z >= DriftLevel ELSE z <= -DriftLevel

\* The window keeps to its size, and its values to the order they came in.
WindowOf(m, n) ==
  /\ Len(m.history) <= WindowSize /\ Len(m.recent) <= MultiWindow
  /\ \A i \in 1..Len(m.history) : m.history[i].n <= n
  /\ \A i \in 1..Len(m.history) - 1 : m.history[i].n < m.history[i + 1].n

\* The last deviations make the run.  What is in the window, of this length,
\* came with it or with the rebase before it, unless the deviation before it
\* was another one.
RunHolds(warm, run, sign, len, zs, n) ==
  /\ run = 0 <=> sign = 0
  /\ run > 0 => len >= warm
  /\ run <= n
  /\ \A i \in n - run + 1..n : Strong(sign, zs[i])
  /\ \A sg \in {-1, 1} :
       run < n /\ Strong(sg, zs[n - run]) /\ (run > 0 => sign = sg)
         => len <= DriftBuckets + 1 + run
RunOf(m, zs) == RunHolds(m.warmup, m.run, m.sign, Len(m.history), zs, Len(zs))

\* The twin, restored at any time, is the model, if that has a warm-up.
BaseRecord(m, twin, zs, n, agree) ==
  [kind |-> "base", m |-> m, twin |-> twin, zs |-> zs, n |-> n, agree |-> agree]
TwinAlike(m, twin, agree) == m.warmup > 0 => twin = m /\ agree = TRUE
BaseInv ==
  base.kind = "base" =>
    /\ base = BaseRecord(base.m, base.twin, base.zs, base.n, base.agree)
    /\ TwinAlike(base.m, base.twin, base.agree)
    /\ base.m \in Models /\ base.zs \in Seq(Int) /\ base.n \in Nat
    /\ WindowOf(base.m, base.n) /\ RunOf(base.m, base.zs)

LEMMA NewestIs ==
  ASSUME NEW S, NEW s \in Seq(S), NEW n \in Nat
  PROVE  /\ Newest(s, n) \in Seq(S)
         /\ Len(Newest(s, n)) = (IF Len(s) > n THEN n ELSE Len(s))
         /\ \A i \in 1..Len(Newest(s, n)) : Newest(s, n)[i] = s[Len(s) - Len(Newest(s, n)) + i]
<1>. DEFINE len == Len(s)
            a   == len - n + 1
<1>1. len \in Nat /\ \A i \in 1..len : s[i] \in S
  OBVIOUS
<1>2. CASE len <= n
  <2>1. Newest(s, n) = s
    BY <1>1, <1>2 DEF Newest
  <2>2. ~(Len(s) > n)
    BY <1>1, <1>2
  <2>3. \A i \in 1..len : s[i] = s[len - len + i]
    <3>. HIDE DEF len
    <3>. QED BY <1>1
  <2>. QED BY <2>1, <2>2, <2>3
<1>3. CASE len > n
  <2>1. Newest(s, n) = SubSeq(s, a, len)
    BY <1>3 DEF Newest
  <2>2. a \in 1..len + 1 /\ len - a + 1 = n
    <3>. HIDE DEF len
    <3>. QED BY <1>1, <1>3
  <2>3. SubSeq(s, a, len) \in Seq(S) /\ Len(SubSeq(s, a, len)) = n
    BY <1>1, <2>2, SubSeqProperties
  <2>4. \A i \in 1..n : SubSeq(s, a, len)[i] = s[len - n + i]
    BY <1>1, <2>2, SubSeqProperties
  <2>. QED BY <1>3, <2>1, <2>3, <2>4
<1>. QED BY <1>1, <1>2, <1>3

LEMMA WarmupsNumbers == \A w \in Warmups : w \in Nat
BY BaselineAssumption

\* What the model deviates by is a number, 0 during the warm-up.
LEMMA DeviationIs ==
  ASSUME NEW m \in Models, NEW v \in BaseValues, v # NoNumber, Len(m.history) <= WindowSize
  PROVE  /\ ModelScore(m, v).z \in Int
         /\ Len(m.history) < m.warmup => ModelScore(m, v) = [z |-> 0, score |-> 0]
         /\ Len(m.history) >= m.warmup =>
              /\ Deviation(Values(m), v) \in Int
              /\ ModelScore(m, v).z = Sided(m.side, Deviation(Values(m), v))
              /\ ModelScore(m, v).score = ScoreOf(m.side, Abs(ModelScore(m, v).z)) * Ramp(m)
<1>1. m.history \in Seq(Learned) /\ Len(m.history) \in Nat /\ m.warmup \in Nat
  BY WarmupsNumbers DEF Models
<1>2. CASE Len(m.history) < m.warmup
  BY <1>1, <1>2, BaselineAssumption DEF ModelScore
<1>3. CASE Len(m.history) >= m.warmup
  <2>1. Values(m) \in [1..Len(m.history) -> BaseValues]
    <3>1. \A x \in Learned : x.v \in BaseValues
      BY DEF Learned
    <3>2. \A i \in 1..Len(m.history) : m.history[i].v \in BaseValues
      BY <1>1, <3>1
    <3>. QED BY <1>1, <3>2 DEF Values
  <2>2. Len(m.history) \in 0..WindowSize
    BY <1>1, BaselineAssumption
  <2>3. Deviation(Values(m), v) \in Int
    BY <2>1, <2>2, BaselineAssumption
  <2>4. ~(Len(m.history) < m.warmup)
    BY <1>1, <1>3, BaselineAssumption
  <2>. QED BY <1>3, <2>3, <2>4 DEF ModelScore, Sided
<1>. QED BY <1>1, <1>2, <1>3, BaselineAssumption

SignOf(z) == IF z >= DriftLevel THEN 1 ELSE IF z <= -DriftLevel THEN -1 ELSE 0

RunAfter(m, z) ==
  IF SignOf(z) = 0 THEN 0 ELSE IF SignOf(z) # m.sign THEN 1 ELSE m.run + 1

LEMMA ModelShape ==
  ASSUME NEW m \in Models
  PROVE  /\ m = [side |-> m.side, warmup |-> m.warmup, history |-> m.history, recent |-> m.recent,
                 run |-> m.run, sign |-> m.sign]
         /\ m.side \in Sides /\ m.warmup \in Warmups /\ m.warmup \in Nat
         /\ m.history \in Seq(Learned) /\ m.recent \in Seq(Int)
         /\ m.run \in 0..DriftBuckets - 1 /\ m.sign \in {-1, 0, 1}
         /\ Len(m.history) \in Nat /\ Len(m.recent) \in Nat
BY WarmupsNumbers DEF Models

\* The drift detection, case by case.
Tracks(m, z, t) ==
  /\ t \in Models /\ t.side = m.side /\ t.warmup = m.warmup
  /\ Len(m.history) < m.warmup => t = m
  /\ Len(m.history) >= m.warmup /\ RunAfter(m, z) >= DriftBuckets =>
       /\ t.history = Newest(m.history, DriftBuckets)
       /\ t.recent = <<>> /\ t.run = 0 /\ t.sign = 0
  /\ Len(m.history) >= m.warmup /\ RunAfter(m, z) < DriftBuckets =>
       /\ t.history = m.history /\ t.recent = m.recent
       /\ t.run = RunAfter(m, z) /\ t.sign = SignOf(z)

LEMMA TrackedIs ==
  ASSUME NEW m \in Models, NEW z \in Int
  PROVE  Tracks(m, z, Tracked(m, z))
<1>. DEFINE t == Tracked(m, z)
            sign == SignOf(z)
            run == RunAfter(m, z)
<1>1. /\ m.side \in Sides /\ m.warmup \in Warmups /\ m.history \in Seq(Learned) /\ m.recent \in Seq(Int)
      /\ m.run \in 0..DriftBuckets - 1 /\ Len(m.history) \in Nat
      /\ m = [side |-> m.side, warmup |-> m.warmup, history |-> m.history,
              recent |-> m.recent, run |-> m.run, sign |-> m.sign]
      /\ DriftBuckets \in Nat \ {0} /\ m.warmup \in Nat /\ DriftLevel \in Nat \ {0}
  BY ModelShape, BaselineAssumption
<1>2. sign \in {-1, 0, 1} /\ run \in Nat
  BY <1>1 DEF SignOf, RunAfter
<1>3. (IF sign = 0 \/ sign # m.sign THEN 0 ELSE m.run) + (IF sign = 0 THEN 0 ELSE 1) = run
  BY <1>1 DEF RunAfter
<1>4. t = (IF Len(m.history) < m.warmup THEN m
           ELSE IF run >= DriftBuckets
           THEN [NewBaseline(m.side, m.warmup) EXCEPT !.history = Newest(m.history, DriftBuckets)]
           ELSE [m EXCEPT !.run = run, !.sign = sign])
  <2>. HIDE DEF run
  <2>. QED BY <1>3 DEF Tracked, SignOf
<1>. HIDE DEF t, sign, run
<1>5. ASSUME Len(m.history) < m.warmup PROVE Tracks(m, z, t)
  BY <1>1, <1>4, <1>5 DEF Tracks
<1>6. ASSUME Len(m.history) >= m.warmup, run >= DriftBuckets PROVE Tracks(m, z, t)
  <2>0. ~(Len(m.history) < m.warmup)
    BY <1>1, <1>6
  <2>1. t = [side |-> m.side, warmup |-> m.warmup, recent |-> <<>>,
             history |-> Newest(m.history, DriftBuckets), run |-> 0, sign |-> 0]
    <3>1. t = [NewBaseline(m.side, m.warmup) EXCEPT !.history = Newest(m.history, DriftBuckets)]
      BY <1>4, <1>6, <2>0
    <3>. QED BY <3>1 DEF NewBaseline
  <2>2. Newest(m.history, DriftBuckets) \in Seq(Learned)
    BY <1>1, NewestIs
  <2>3. t \in Models
    BY <1>1, <2>1, <2>2 DEF Models
  <2>. QED BY <1>1, <1>2, <1>6, <2>1, <2>3 DEF run, Tracks
<1>7. ASSUME Len(m.history) >= m.warmup, run < DriftBuckets PROVE Tracks(m, z, t)
  <2>0. ~(Len(m.history) < m.warmup) /\ ~(run >= DriftBuckets)
    BY <1>1, <1>2, <1>7
  <2>1. t = [side |-> m.side, warmup |-> m.warmup, history |-> m.history,
             recent |-> m.recent, run |-> run, sign |-> sign]
    <3>1. t = [m EXCEPT !.run = run, !.sign = sign]
      BY <1>4, <2>0
    <3>. QED BY <1>1, <3>1
  <2>2. run \in 0..DriftBuckets - 1
    BY <1>1, <1>2, <1>7
  <2>3. t \in Models
    BY <1>1, <1>2, <2>1, <2>2 DEF Models
  <2>. QED BY <1>1, <1>2, <1>7, <2>1, <2>3 DEF run, sign, Tracks
<1>. QED BY <1>1, <1>2, <1>5, <1>6, <1>7 DEF t

\* The model that has observed one more value.
LEMMA ObserveIs ==
  ASSUME NEW m \in Models, NEW v \in BaseValues, v # NoNumber, NEW n \in Int,
         Len(m.history) <= WindowSize, Len(m.recent) <= MultiWindow
  PROVE  \E t, w \in Models :
            LET z == ModelScore(m, v).z
                x == ModelObserve(m, v, n).m IN
            /\ w.history = m.history /\ w.run = m.run /\ w.sign = m.sign /\ w.warmup = m.warmup
            /\ t = Tracked(w, z)
            /\ x \in Models /\ Len(x.recent) <= MultiWindow
            /\ x.run = t.run /\ x.sign = t.sign /\ x.warmup = m.warmup
            /\ x.history = Newest(Append(t.history, [n |-> n, v |-> v]), WindowSize)
            /\ ModelObserve(m, v, n).z = z
<1>. DEFINE e    == ModelScore(m, v)
            z    == e.z
            warm == MultiWindow > 1 /\ Len(m.history) >= m.warmup
            zs   == IF warm THEN Newest(Append(m.recent, z), MultiWindow) ELSE m.recent
            w    == [m EXCEPT !.recent = zs]
            t    == Tracked(w, z)
            x    == ModelObserve(m, v, n).m
            y    == [n |-> n, v |-> v]
            h    == Newest(Append(t.history, y), WindowSize)
<1>1. /\ m = [side |-> m.side, warmup |-> m.warmup, history |-> m.history,
              recent |-> m.recent, run |-> m.run, sign |-> m.sign]
      /\ m.side \in Sides /\ m.warmup \in Warmups /\ m.history \in Seq(Learned) /\ m.recent \in Seq(Int)
      /\ m.run \in 0..DriftBuckets - 1 /\ m.sign \in {-1, 0, 1}
      /\ MultiWindow \in Nat /\ WindowSize \in Nat
  BY ModelShape, BaselineAssumption
<1>2. z \in Int
  BY DeviationIs
<1>3. x = ModelLearn(t, v, n) /\ ModelObserve(m, v, n).z = z
  BY DEF ModelObserve
<1>. HIDE DEF e, z, x
<1>4. zs \in Seq(Int) /\ Len(zs) <= MultiWindow
  <2>1. Append(m.recent, z) \in Seq(Int)
    BY <1>1, <1>2
  <2>2. Newest(Append(m.recent, z), MultiWindow) \in Seq(Int)
        /\ Len(Newest(Append(m.recent, z), MultiWindow)) <= MultiWindow
    <3>. DEFINE s == Append(m.recent, z)
    <3>1. s \in Seq(Int) /\ Len(s) \in Nat
      BY <2>1
    <3>. HIDE DEF s
    <3>2. /\ Newest(s, MultiWindow) \in Seq(Int)
          /\ Len(Newest(s, MultiWindow)) = (IF Len(s) > MultiWindow THEN MultiWindow ELSE Len(s))
      BY <1>1, <3>1, NewestIs
    <3>3. Len(Newest(s, MultiWindow)) <= MultiWindow
      BY <1>1, <3>1, <3>2
    <3>. QED BY <3>2, <3>3 DEF s
  <2>. QED BY <1>1, <2>2
<1>. HIDE DEF zs
<1>5. w = [side |-> m.side, warmup |-> m.warmup, history |-> m.history, recent |-> zs,
           run |-> m.run, sign |-> m.sign]
  BY <1>1
<1>6. w \in Models
  BY <1>1, <1>4, <1>5 DEF Models
<1>. HIDE DEF w
<1>7. t \in Models /\ t.warmup = m.warmup /\ (t.recent = zs \/ t.recent = <<>>)
  <2>1. /\ Len(w.history) \in Nat /\ w.warmup \in Nat /\ DriftBuckets \in Nat /\ RunAfter(w, z) \in Int
    BY <1>5, <1>6, ModelShape, BaselineAssumption DEF RunAfter
  <2>2. \/ Len(w.history) < w.warmup
        \/ Len(w.history) >= w.warmup /\ RunAfter(w, z) >= DriftBuckets
        \/ Len(w.history) >= w.warmup /\ RunAfter(w, z) < DriftBuckets
    BY <2>1
  <2>3. w.recent = zs /\ w.warmup = m.warmup
    BY <1>5
  <2>. QED BY <1>2, <1>6, <2>2, <2>3, TrackedIs DEF Tracks
<1>. HIDE DEF t
<1>8. x = [t EXCEPT !.history = h]
  BY <1>3 DEF ModelLearn
<1>9. h \in Seq(Learned)
  <2>1. y \in Learned
    BY DEF Learned
  <2>2. t.history \in Seq(Learned)
    BY <1>7, ModelShape
  <2>3. Append(t.history, y) \in Seq(Learned)
    BY <2>1, <2>2
  <2>. QED BY <1>1, <2>3, NewestIs
<1>10. t = [side |-> t.side, warmup |-> t.warmup, history |-> t.history,
            recent |-> t.recent, run |-> t.run, sign |-> t.sign]
  BY <1>7, ModelShape
<1>. HIDE DEF h
<1>11. x = [side |-> t.side, warmup |-> t.warmup, history |-> h, recent |-> t.recent,
            run |-> t.run, sign |-> t.sign]
  BY <1>8, <1>10
<1>12. x \in Models /\ Len(x.recent) <= MultiWindow
  <2>1. t.side \in Sides /\ t.warmup \in Warmups /\ t.recent \in Seq(Int) /\ t.run \in 0..DriftBuckets - 1 /\ t.sign \in {-1, 0, 1}
    BY <1>7, ModelShape
  <2>2. x \in Models
    BY <1>9, <1>11, <2>1 DEF Models
  <2>3. Len(t.recent) <= MultiWindow
    BY <1>1, <1>4, <1>7
  <2>. QED BY <1>11, <2>2, <2>3
<1>. QED BY <1>3, <1>5, <1>6, <1>7, <1>11, <1>12 DEF t, h, x, z, e

\* How long the window is after a value.
Grows(h, y, u) ==
  /\ u \in Seq(Learned) /\ Len(u) \in Nat /\ Len(h) \in Nat
  /\ Len(u) = (IF Len(h) + 1 > WindowSize THEN WindowSize ELSE Len(h) + 1)
  /\ \A i \in 1..Len(u) : u[i] = Append(h, y)[Len(h) + 1 - Len(u) + i]

LEMMA WindowGrows ==
  ASSUME NEW h \in Seq(Learned), NEW y \in Learned
  PROVE  Grows(h, y, Newest(Append(h, y), WindowSize))
<1>. DEFINE s == Append(h, y)
            u == Newest(s, WindowSize)
<1>1. s \in Seq(Learned) /\ Len(s) = Len(h) + 1 /\ Len(h) \in Nat /\ WindowSize \in Nat
  BY BaselineAssumption
<1>. HIDE DEF s, u
<1>2. /\ u \in Seq(Learned)
      /\ Len(u) = (IF Len(s) > WindowSize THEN WindowSize ELSE Len(s))
      /\ \A i \in 1..Len(u) : u[i] = s[Len(s) - Len(u) + i]
  BY <1>1, NewestIs DEF u
<1>3. Len(u) \in Nat
  BY <1>2
<1>4. Len(u) = (IF Len(h) + 1 > WindowSize THEN WindowSize ELSE Len(h) + 1)
  BY <1>1, <1>2
<1>5. ASSUME NEW i \in 1..Len(u) PROVE u[i] = s[Len(h) + 1 - Len(u) + i]
  <2>1. Len(h) + 1 - Len(u) = Len(s) - Len(u)
    BY <1>1, <1>3
  <2>. QED BY <1>2, <2>1
<1>. QED BY <1>1, <1>2, <1>3, <1>4, <1>5 DEF s, u, Grows

\* A window whose values are in order stays so when an older part goes and a
\* newer value comes.
Ordered(h, n) ==
  /\ \A i \in 1..Len(h) : h[i].n <= n
  /\ \A i \in 1..Len(h) - 1 : h[i].n < h[i + 1].n

LEMMA OrderedNewest ==
  ASSUME NEW h \in Seq(Learned), NEW k \in Nat, NEW n \in Nat, Ordered(h, n)
  PROVE  Ordered(Newest(h, k), n)
<1>. DEFINE u == Newest(h, k)
            d == Len(h) - Len(u)
<1>1. /\ u \in Seq(Learned) /\ Len(u) \in Nat /\ Len(h) \in Nat /\ d \in Nat
      /\ \A i \in 1..Len(u) : u[i] = h[d + i]
  BY NewestIs
<1>. HIDE DEF u, d
<1>2. Len(h) = Len(u) + d
  BY <1>1 DEF d
<1>3. ASSUME NEW i \in 1..Len(u) PROVE u[i].n <= n
  <2>1. d + i \in 1..Len(h)
    BY <1>1, <1>2
  <2>. QED BY <1>1, <2>1 DEF Ordered
<1>4. ASSUME NEW i \in 1..Len(u) - 1 PROVE u[i].n < u[i + 1].n
  <2>1. d + i \in 1..Len(h) - 1 /\ i \in 1..Len(u) /\ i + 1 \in 1..Len(u) /\ d + (i + 1) = d + i + 1
    BY <1>1, <1>2
  <2>2. u[i] = h[d + i] /\ u[i + 1] = h[d + i + 1]
    BY <1>1, <2>1
  <2>. QED BY <2>1, <2>2 DEF Ordered
<1>. QED BY <1>3, <1>4 DEF Ordered, u

LEMMA OrderedAppend ==
  ASSUME NEW h \in Seq(Learned), NEW n \in Nat, Ordered(h, n),
         NEW y \in Learned, y.n = n + 1
  PROVE  Ordered(Append(h, y), n + 1)
<1>. DEFINE s == Append(h, y)
<1>1. /\ Len(h) \in Nat /\ Len(s) = Len(h) + 1 /\ s[Len(h) + 1] = y
      /\ \A i \in 1..Len(h) : s[i] = h[i] /\ h[i] \in Learned
  OBVIOUS
<1>2. \A x \in Learned : x.n \in Int
  BY DEF Learned
<1>. HIDE DEF s
<1>3. ASSUME NEW i \in 1..Len(s) PROVE s[i].n <= n + 1
  BY <1>1, <1>2 DEF Ordered
<1>4. ASSUME NEW i \in 1..Len(s) - 1 PROVE s[i].n < s[i + 1].n
  BY <1>1, <1>2 DEF Ordered
<1>. QED BY <1>3, <1>4 DEF Ordered, s

\* What one more deviation, all[n + 1], does to the run: it ends, it goes on,
\* or another one starts.
LEMMA RunStops ==
  ASSUME NEW warm \in Nat, NEW n \in Nat, NEW all, ~Strong(1, all[n + 1]), ~Strong(-1, all[n + 1]), NEW len
  PROVE  RunHolds(warm, 0, 0, len, all, n + 1)
<1>1. n + 1 - 0 = n + 1 /\ n + 1 - 0 + 1 = n + 2 /\ 0 <= n + 1 /\ ~(0 > 0) /\ n + 2..n + 1 = {}
  OBVIOUS
<1>. HIDE DEF Strong
<1>. QED BY <1>1 DEF RunHolds

LEMMA RunRebased ==
  ASSUME NEW warm \in Nat, NEW n \in Nat, NEW all, NEW len \in Nat, len <= DriftBuckets + 1
  PROVE  RunHolds(warm, 0, 0, len, all, n + 1)
<1>1. n + 1 - 0 + 1 = n + 2 /\ 0 <= n + 1 /\ ~(0 > 0) /\ n + 2..n + 1 = {}
  OBVIOUS
<1>2. len <= DriftBuckets + 1 + 0
  BY BaselineAssumption
<1>. QED BY <1>1, <1>2 DEF RunHolds

Continues(all, zs, n) == \A i \in 1..n : all[i] = zs[i] /\ zs[i] \in Int

LEMMA RunGoesOn ==
  ASSUME NEW warm \in Nat, NEW n \in Nat, NEW zs, NEW all, Continues(all, zs, n),
         NEW run \in Nat, NEW sign \in {-1, 1}, NEW len \in Nat, RunHolds(warm, run, sign, len, zs, n),
         Strong(sign, all[n + 1]),
         NEW longer \in Nat, longer <= len + 1, longer >= warm
  PROVE  RunHolds(warm, run + 1, sign, longer, all, n + 1)
<1>1. DriftBuckets \in Nat
  BY BaselineAssumption
<1>2. run > 0 /\ run <= n
  BY DEF RunHolds
<1>3. n + 1 - (run + 1) = n - run /\ n + 1 - (run + 1) + 1 = n - run + 1
  BY <1>2
<1>4. ASSUME NEW i \in n - run + 1..n + 1 PROVE Strong(sign, all[i])
  <2>1. CASE i = n + 1
    BY <2>1
  <2>2. CASE i # n + 1
    <3>1. i \in n - run + 1..n /\ i \in 1..n
      BY <1>2, <2>2
    <3>2. Strong(sign, zs[i])
      BY <3>1 DEF RunHolds
    <3>. QED BY <3>1, <3>2 DEF Continues
  <2>. QED BY <2>1, <2>2
<1>5. ASSUME NEW sg \in {-1, 1}, run + 1 < n + 1, Strong(sg, all[n - run]), sign = sg
      PROVE  longer <= DriftBuckets + 1 + (run + 1)
  <2>1. n - run \in 1..n /\ run < n
    BY <1>2, <1>5
  <2>2. Strong(sg, zs[n - run])
    BY <1>5, <2>1 DEF Continues
  <2>3. len <= DriftBuckets + 1 + run
    BY <1>5, <2>1, <2>2 DEF RunHolds
  <2>. QED BY <1>1, <2>3
<1>6. run + 1 > 0 /\ run + 1 # 0 /\ sign # 0 /\ run + 1 <= n + 1
  BY <1>2
<1>. QED BY <1>3, <1>4, <1>5, <1>6 DEF RunHolds

LEMMA RunStarts ==
  ASSUME NEW warm \in Nat, NEW n \in Nat, NEW zs, NEW all, Continues(all, zs, n),
         NEW run \in Nat, NEW sign \in {-1, 0, 1}, NEW len \in Nat, RunHolds(warm, run, sign, len, zs, n),
         NEW other \in {-1, 1}, other # sign, Strong(other, all[n + 1]),
         NEW longer \in Nat, longer <= len + 1, longer >= warm
  PROVE  RunHolds(warm, 1, other, longer, all, n + 1)
<1>1. DriftBuckets \in Nat /\ DriftLevel \in Nat \ {0}
  BY BaselineAssumption
<1>3. n + 1 - 1 = n /\ n + 1 - 1 + 1 = n + 1
  OBVIOUS
<1>4. ASSUME NEW i \in n + 1..n + 1 PROVE Strong(other, all[i])
  <2>1. i = n + 1
    OBVIOUS
  <2>. QED BY <2>1
<1>5. ASSUME NEW sg \in {-1, 1}, 1 < n + 1, Strong(sg, all[n]), other = sg
      PROVE  longer <= DriftBuckets + 1 + 1
  <2>1. n \in 1..n /\ all[n] = zs[n] /\ zs[n] \in Int
    BY <1>5 DEF Continues
  <2>2. CASE run = 0
    <3>1. n - run = n /\ run < n
      BY <1>5, <2>2
    <3>2. len <= DriftBuckets + 1 + run
      BY <1>5, <2>1, <2>2, <3>1 DEF RunHolds
    <3>. QED BY <1>1, <2>2, <3>2
  <2>3. CASE run > 0
    <3>1. run <= n /\ sign # 0
      BY <2>3 DEF RunHolds
    <3>2. n \in n - run + 1..n
      BY <2>3, <3>1
    <3>3. Strong(sign, zs[n])
      BY <3>2 DEF RunHolds
    <3>4. Strong(sg, zs[n]) /\ sg # sign
      BY <1>5, <2>1
    <3>. QED BY <1>1, <2>1, <3>1, <3>3, <3>4 DEF Strong
  <2>. QED BY <2>2, <2>3
<1>6. 1 > 0 /\ 1 # 0 /\ other # 0 /\ 1 <= n + 1
  OBVIOUS
<1>. QED BY <1>3, <1>4, <1>5, <1>6 DEF RunHolds

\* One more deviation, in the model.
LEMMA RunMoves ==
  ASSUME NEW m \in Models, NEW zs \in Seq(Int), RunOf(m, zs), NEW z \in Int,
         Len(m.history) < m.warmup => z = 0,
         NEW w \in Models, w.history = m.history, w.run = m.run, w.sign = m.sign,
         w.warmup = m.warmup,
         NEW t \in Models, t = Tracked(w, z),
         NEW x \in Models, x.run = t.run, x.sign = t.sign, x.warmup = m.warmup,
         Len(x.history) <= Len(t.history) + 1,
         Len(m.history) >= m.warmup /\ Len(t.history) = Len(m.history)
           => Len(x.history) >= m.warmup
  PROVE  RunOf(x, Append(zs, z))
<1>. DEFINE all == Append(zs, z)
            n   == Len(zs)
            h   == Len(m.history)
            len == Len(x.history)
            run == RunAfter(w, z)
            warm == m.warmup
            sign == SignOf(z)
<1>1. /\ n \in Nat /\ all \in Seq(Int) /\ Len(all) = n + 1 /\ all[n + 1] = z
      /\ \A i \in 1..n : all[i] = zs[i] /\ zs[i] \in Int
  OBVIOUS
<1>2. /\ m.run \in Nat /\ m.sign \in {-1, 0, 1} /\ h \in Nat /\ len \in Nat
      /\ m.history \in Seq(Learned)
  BY ModelShape
<1>3. warm \in Nat /\ DriftLevel \in Nat \ {0} /\ DriftBuckets \in Nat \ {0}
  BY ModelShape, BaselineAssumption
<1>4. RunHolds(warm, m.run, m.sign, h, zs, n)
  BY DEF RunOf
<1>5. sign \in {-1, 0, 1}
  BY <1>3 DEF SignOf
<1>6. sign = 0 => ~Strong(1, z) /\ ~Strong(-1, z)
  BY <1>3 DEF SignOf, Strong
<1>7. sign # 0 => Strong(sign, z)
  BY <1>3 DEF SignOf, Strong
<1>8. run = (IF sign = 0 THEN 0 ELSE IF sign # m.sign THEN 1 ELSE m.run + 1) /\ run \in Nat
  BY <1>2 DEF RunAfter
<1>9. /\ h < warm => t = w
      /\ h >= warm /\ run >= DriftBuckets =>
           t.history = Newest(m.history, DriftBuckets) /\ t.run = 0 /\ t.sign = 0
      /\ h >= warm /\ run < DriftBuckets =>
           t.history = m.history /\ t.run = run /\ t.sign = sign
  <2>1. Len(w.history) = h /\ w.history = m.history /\ w.warmup = warm
    OBVIOUS
  <2>. HIDE DEF h, run, sign, n, len, all, warm
  <2>2. /\ Len(w.history) < w.warmup => t = w
        /\ Len(w.history) >= w.warmup /\ RunAfter(w, z) >= DriftBuckets =>
             t.history = Newest(w.history, DriftBuckets) /\ t.run = 0 /\ t.sign = 0
        /\ Len(w.history) >= w.warmup /\ RunAfter(w, z) < DriftBuckets =>
             t.history = w.history /\ t.run = RunAfter(w, z) /\ t.sign = SignOf(z)
    BY TrackedIs DEF Tracks
  <2>. QED BY <2>1, <2>2 DEF run, sign
<1>17. Continues(all, zs, n)
  BY <1>1 DEF Continues
<1>10. len <= Len(t.history) + 1
  OBVIOUS
<1>11. h >= warm /\ Len(t.history) = h => len >= warm
  OBVIOUS
<1>12. RunHolds(warm, x.run, x.sign, len, all, n + 1) => RunOf(x, all)
  BY <1>1 DEF RunOf
<1>18. h < warm => z = 0
  OBVIOUS
<1>. HIDE DEF all, n, len, run, sign, warm
<1>13. CASE h < warm
  <2>1. z = 0 /\ t = w
    BY <1>9, <1>13, <1>18
  <2>2. m.run = 0 /\ m.sign = 0
    <3>. HIDE DEF h
    <3>. QED BY <1>2, <1>3, <1>4, <1>13 DEF RunHolds
  <2>3. x.run = 0 /\ x.sign = 0
    BY <2>1, <2>2
  <2>4. ~Strong(1, all[n + 1]) /\ ~Strong(-1, all[n + 1])
    BY <1>1, <1>3, <2>1 DEF Strong
  <2>. QED BY <1>1, <1>3, <1>12, <2>3, <2>4, RunStops DEF all
<1>14. CASE h >= warm /\ run >= DriftBuckets
  <2>1. x.run = 0 /\ x.sign = 0 /\ t.history = Newest(m.history, DriftBuckets)
    BY <1>9, <1>14
  <2>2. Len(t.history) = (IF h > DriftBuckets THEN DriftBuckets ELSE h)
    BY <1>2, <1>3, <2>1, NewestIs
  <2>. HIDE DEF h
  <2>3. len <= DriftBuckets + 1
    BY <1>2, <1>3, <1>10, <2>2
  <2>. QED BY <1>1, <1>2, <1>3, <1>12, <2>1, <2>3, RunRebased DEF all
<1>15. CASE h >= warm /\ run < DriftBuckets
  <2>1. x.run = run /\ x.sign = sign /\ len >= warm /\ len <= h + 1
    BY <1>9, <1>10, <1>11, <1>15
  <2>. HIDE DEF h
  <2>2. CASE sign = 0
    <3>1. x.run = 0 /\ x.sign = 0
      BY <1>8, <2>1, <2>2
    <3>2. ~Strong(1, all[n + 1]) /\ ~Strong(-1, all[n + 1])
      BY <1>1, <1>6, <2>2
    <3>. QED BY <1>1, <1>3, <1>12, <3>1, <3>2, RunStops DEF all
  <2>3. CASE sign # 0 /\ sign = m.sign
    <3>1. x.run = m.run + 1 /\ x.sign = m.sign /\ m.sign \in {-1, 1}
      BY <1>5, <1>8, <2>1, <2>3
    <3>2. Strong(m.sign, all[n + 1])
      BY <1>1, <1>7, <2>3
    <3>3. /\ n \in Nat /\ m.run \in Nat /\ h \in Nat /\ len \in Nat
          /\ len <= h + 1 /\ len >= warm
      BY <1>1, <1>2, <2>1
    <3>4. RunHolds(warm, m.run + 1, m.sign, len, all, n + 1)
      BY <1>3, <1>4, <1>17, <3>1, <3>2, <3>3, RunGoesOn
    <3>. QED BY <1>12, <3>1, <3>4 DEF all
  <2>4. CASE sign # 0 /\ sign # m.sign
    <3>1. x.run = 1 /\ x.sign = sign /\ sign \in {-1, 1}
      BY <1>5, <1>8, <2>1, <2>4
    <3>2. Strong(sign, all[n + 1])
      BY <1>1, <1>7, <2>4
    <3>3. /\ n \in Nat /\ m.run \in Nat /\ m.sign \in {-1, 0, 1} /\ h \in Nat /\ len \in Nat
          /\ len <= h + 1 /\ len >= warm
      BY <1>1, <1>2, <2>1
    <3>4. RunHolds(warm, 1, sign, len, all, n + 1)
      BY <1>3, <1>4, <1>17, <2>4, <3>1, <3>2, <3>3, RunStarts
    <3>. QED BY <1>12, <3>1, <3>4 DEF all
  <2>. QED BY <2>2, <2>3, <2>4
<1>16. \/ h < warm
       \/ h >= warm /\ run >= DriftBuckets
       \/ h >= warm /\ run < DriftBuckets
  <2>. HIDE DEF h
  <2>. QED BY <1>2, <1>3, <1>8
<1>. QED BY <1>13, <1>14, <1>15, <1>16 DEF all

LEMMA ObserveKeeps ==
  ASSUME NEW m \in Models, NEW n \in Nat, NEW zs \in Seq(Int), WindowOf(m, n), RunOf(m, zs),
         NEW v \in BaseValues, v # NoNumber
  PROVE  LET r == ModelObserve(m, v, n + 1) IN
         /\ r.m \in Models /\ r.m.warmup = m.warmup /\ r.z \in Int
         /\ WindowOf(r.m, n + 1) /\ RunOf(r.m, Append(zs, r.z))
<1>. DEFINE z == ModelScore(m, v).z
            x == ModelObserve(m, v, n + 1).m
            y == [n |-> n + 1, v |-> v]
<1>1. /\ Len(m.history) <= WindowSize /\ Len(m.recent) <= MultiWindow /\ Ordered(m.history, n)
      /\ n + 1 \in Int /\ WindowSize \in Nat /\ DriftBuckets \in Nat /\ m.warmup \in Nat
  BY ModelShape, BaselineAssumption DEF WindowOf, Ordered
<1>2. PICK t \in Models, w \in Models :
         /\ w.history = m.history /\ w.run = m.run /\ w.sign = m.sign /\ w.warmup = m.warmup
         /\ t = Tracked(w, z)
         /\ x \in Models /\ Len(x.recent) <= MultiWindow
         /\ x.run = t.run /\ x.sign = t.sign /\ x.warmup = m.warmup
         /\ x.history = Newest(Append(t.history, y), WindowSize)
         /\ ModelObserve(m, v, n + 1).z = z
  BY <1>1, ObserveIs
<1>3. z \in Int /\ (Len(m.history) < m.warmup => z = 0)
  BY <1>1, DeviationIs
<1>. HIDE DEF x, z
<1>4. /\ t.history \in Seq(Learned) /\ y \in Learned /\ m.history \in Seq(Learned)
      /\ x.history \in Seq(Learned) /\ Len(m.history) \in Nat
  BY <1>1, <1>2, ModelShape DEF Learned
<1>5. t.history \in {m.history, Newest(m.history, DriftBuckets)}
  <2>0. w.run \in 0..DriftBuckets - 1
    BY ModelShape
  <2>1. RunAfter(w, z) \in Int
    BY <1>1, <2>0 DEF RunAfter
  <2>2. \/ Len(w.history) < w.warmup
        \/ Len(w.history) >= w.warmup /\ RunAfter(w, z) >= DriftBuckets
        \/ Len(w.history) >= w.warmup /\ RunAfter(w, z) < DriftBuckets
    BY <1>1, <1>2, <1>4, <2>1
  <2>3. Tracks(w, z, t)
    BY <1>2, <1>3, TrackedIs
  <2>4. t.history \in {w.history, Newest(w.history, DriftBuckets)}
    BY <2>2, <2>3 DEF Tracks
  <2>. QED BY <1>2, <2>4
<1>6. Ordered(t.history, n)
  BY <1>1, <1>4, <1>5, OrderedNewest
<1>7. Ordered(Append(t.history, y), n + 1)
  BY <1>4, <1>6, OrderedAppend
<1>8. Ordered(x.history, n + 1)
  <2>1. Append(t.history, y) \in Seq(Learned) /\ n + 1 \in Nat
    BY <1>4
  <2>. QED BY <1>1, <1>2, <1>7, <2>1, OrderedNewest
<1>9. /\ Len(x.history) \in Nat /\ Len(t.history) \in Nat
      /\ Len(x.history) = (IF Len(t.history) + 1 > WindowSize THEN WindowSize
                           ELSE Len(t.history) + 1)
  <2>. HIDE DEF y
  <2>1. x.history = Newest(Append(t.history, y), WindowSize)
    BY <1>2
  <2>2. Grows(t.history, y, x.history)
    BY <1>4, <2>1, WindowGrows
  <2>. QED BY <2>2 DEF Grows
<1>10. WindowOf(x, n + 1)
  <2>1. Len(x.history) <= WindowSize
    BY <1>1, <1>9
  <2>. QED BY <1>2, <1>8, <2>1 DEF WindowOf, Ordered
<1>11. RunOf(x, Append(zs, z))
  <2>1. Len(x.history) <= Len(t.history) + 1
    BY <1>1, <1>9
  <2>2. Len(m.history) >= m.warmup /\ Len(t.history) = Len(m.history) => Len(x.history) >= m.warmup
    BY <1>1, <1>9
  <2>. QED BY <1>2, <1>3, <1>9, <2>1, <2>2, RunMoves
<1>. QED BY <1>2, <1>3, <1>10, <1>11 DEF x

LEMMA BaseStarts == BaselineInit => BaseInv
BY DEF BaselineInit, BaseInv

\* A base record with a new model and twin, as Observe leaves it.
Renewed(b, m, twin, zs, n, agree) ==
  [b EXCEPT !.m = m, !.twin = twin, !.n = n, !.zs = zs, !.agree = agree]

LEMMA RenewedIs ==
  ASSUME NEW m, NEW twin, NEW zs, NEW n, NEW agree,
         NEW nm, NEW ntwin, NEW nzs, NEW nn, NEW nagree
  PROVE  Renewed(BaseRecord(m, twin, zs, n, agree), nm, ntwin, nzs, nn, nagree)
           = BaseRecord(nm, ntwin, nzs, nn, nagree)
<1>. DEFINE b == BaseRecord(m, twin, zs, n, agree)
            e == Renewed(b, nm, ntwin, nzs, nn, nagree)
            c == BaseRecord(nm, ntwin, nzs, nn, nagree)
<1>1. DOMAIN e = DOMAIN b /\ DOMAIN b = {"kind", "m", "twin", "zs", "n", "agree"}
  BY DEF Renewed, BaseRecord
<1>2. /\ e.kind = "base" /\ e.m = nm /\ e.twin = ntwin /\ e.zs = nzs /\ e.n = nn
      /\ e.agree = nagree
  BY DEF Renewed, BaseRecord
<1>3. e = [x \in DOMAIN e |-> e[x]]
  BY DEF Renewed, BaseRecord
<1>. HIDE DEF e, b
<1>4. c = [x \in DOMAIN b |-> e[x]]
  BY <1>1, <1>2 DEF BaseRecord
<1>5. e = c
  BY <1>1, <1>3, <1>4
<1>. QED BY <1>5 DEF e, b

\* What a base record holds, and what makes the invariant.
LEMMA RecordHolds ==
  ASSUME NEW m, NEW twin, NEW zs, NEW n, NEW agree, base = BaseRecord(m, twin, zs, n, agree)
  PROVE  /\ base.kind = "base" /\ base.m = m /\ base.twin = twin /\ base.zs = zs
         /\ base.n = n /\ base.agree = agree
BY DEF BaseRecord

LEMMA MakesBaseInv ==
  ASSUME NEW m \in Models, NEW twin, NEW zs \in Seq(Int), NEW n \in Nat, NEW agree,
         base' = BaseRecord(m, twin, zs, n, agree),
         TwinAlike(m, twin, agree), WindowOf(m, n), RunOf(m, zs)
  PROVE  BaseInv'
<1>1. /\ base'.m = m /\ base'.twin = twin /\ base'.zs = zs /\ base'.n = n /\ base'.agree = agree
  BY DEF BaseRecord
<1>2. base' = BaseRecord(base'.m, base'.twin, base'.zs, base'.n, base'.agree)
  BY <1>1
<1>. QED BY <1>1, <1>2 DEF BaseInv

LEMMA BaseKeeps == BaseInv /\ [BaselineNext]_baseVars => BaseInv'
<1>. SUFFICES ASSUME BaseInv, [BaselineNext]_baseVars PROVE BaseInv'
  OBVIOUS
<1>1. ASSUME NEW side \in Sides, NEW warmup \in Warmups, CreateModel(side, warmup) PROVE BaseInv'
  <2>. DEFINE new == NewBaseline(side, warmup)
  <2>1. base' = BaseRecord(new, new, <<>>, 0, TRUE)
    BY <1>1 DEF CreateModel, BaseRecord
  <2>2. /\ new = [side |-> side, warmup |-> warmup, history |-> <<>>, recent |-> <<>>,
                  run |-> 0, sign |-> 0]
        /\ new \in Models
    BY BaselineAssumption DEF NewBaseline, Models
  <2>3. WindowOf(new, 0)
    BY <2>2, BaselineAssumption DEF WindowOf
  <2>4. RunOf(new, <<>>)
    <3>1. Len(new.history) = 0 /\ Len(<<>>) = 0 /\ new.run = 0 /\ new.sign = 0
          /\ new.warmup = warmup
      BY <2>2
    <3>. HIDE DEF new
    <3>2. RunHolds(warmup, 0, 0, 0, <<>>, 0)
      BY BaselineAssumption DEF RunHolds
    <3>. QED BY <3>1, <3>2 DEF RunOf
  <2>5. TwinAlike(new, new, TRUE)
    BY DEF TwinAlike
  <2>6. <<>> \in Seq(Int) /\ 0 \in Nat
    OBVIOUS
  <2>. HIDE DEF new
  <2>. QED BY <2>6, <2>1, <2>2, <2>3, <2>4, <2>5, MakesBaseInv
<1>2. ASSUME NEW v \in BaseValues \cup {NoNumber}, ObserveValue(v) PROVE BaseInv'
  <2>. DEFINE m == base.m
              twin == base.twin
              r == ModelObserve(m, v, base.n + 1)
              t == ModelObserve(twin, v, base.n + 1)
              all == IF v = NoNumber THEN base.zs ELSE Append(base.zs, r.z)
  <2>1. /\ base = BaseRecord(m, twin, base.zs, base.n, base.agree)
        /\ TwinAlike(m, twin, base.agree)
        /\ m \in Models /\ base.zs \in Seq(Int) /\ base.n \in Nat
        /\ WindowOf(m, base.n) /\ RunOf(m, base.zs)
    BY <1>2 DEF ObserveValue, BaseInv
  <2>2. PICK ok : ok = (base.agree /\ r.score = t.score /\ r.multi = t.multi)
    OBVIOUS
  <2>3. base' = BaseRecord(r.m, t.m, all, base.n + 1, ok)
    <3>1. PICK k : k = base.n + 1
      OBVIOUS
    <3>2. base' = [base EXCEPT !.m = r.m, !.twin = t.m, !.n = k, !.zs = all, !.agree = ok]
      BY <1>2, <2>2, <3>1 DEF ObserveValue
    <3>3. base' = Renewed(base, r.m, t.m, all, k, ok)
      BY <3>2 DEF Renewed
    <3>. HIDE DEF r, t, all, m, twin
    <3>4. base' = BaseRecord(r.m, t.m, all, k, ok)
      BY <2>1, <3>3, RenewedIs
    <3>. QED BY <3>1, <3>4
  <2>4. ASSUME r.m.warmup = m.warmup PROVE TwinAlike(r.m, t.m, ok)
    <3>1. CASE m.warmup > 0
      <4>1. twin = m /\ base.agree = TRUE
        BY <2>1, <3>1 DEF TwinAlike
      <4>2. t = r
        BY <4>1
      <4>. HIDE DEF r, t, m, twin
      <4>3. ok = TRUE
        BY <2>2, <4>1, <4>2, Zenon
      <4>. QED BY <4>2, <4>3 DEF TwinAlike
    <3>2. CASE ~(m.warmup > 0)
      BY <2>4, <3>2 DEF TwinAlike
    <3>. QED BY <3>1, <3>2
  <2>5. CASE v = NoNumber
    <3>1. r.m = m
      BY <2>5 DEF ModelObserve
    <3>2. WindowOf(m, base.n + 1)
      <4>1. m.history \in Seq(Learned) /\ Len(m.history) \in Nat
        BY <2>1, ModelShape
      <4>. HIDE DEF m
      <4>2. \A x \in Learned : x.n \in Int
        BY DEF Learned
      <4>3. \A i \in 1..Len(m.history) : m.history[i] \in Learned
        BY <4>1
      <4>. QED BY <2>1, <4>2, <4>3 DEF WindowOf
    <3>3. all = base.zs /\ base.n + 1 \in Nat /\ TwinAlike(r.m, t.m, ok)
      BY <2>1, <2>4, <2>5, <3>1
    <3>. HIDE DEF r, t, m, twin, all
    <3>. QED BY <2>1, <2>3, <3>1, <3>2, <3>3, MakesBaseInv
  <2>6. CASE v # NoNumber
    <3>1. /\ r.m \in Models /\ r.m.warmup = m.warmup /\ r.z \in Int
          /\ WindowOf(r.m, base.n + 1) /\ RunOf(r.m, Append(base.zs, r.z))
      BY <2>1, <2>6, ObserveKeeps
    <3>2. TwinAlike(r.m, t.m, ok)
      BY <2>4, <3>1
    <3>. HIDE DEF r, t, m, twin
    <3>3. all \in Seq(Int) /\ all = Append(base.zs, r.z) /\ base.n + 1 \in Nat
      BY <2>1, <2>6, <3>1
    <3>. HIDE DEF all
    <3>. QED BY <2>3, <3>1, <3>2, <3>3, MakesBaseInv
  <2>. QED BY <2>5, <2>6
<1>3. ASSUME NEW v \in BaseValues \cup {NoNumber}, PeekValue(v) PROVE BaseInv'
  <2>. DEFINE m == base.m
              twin == base.twin
  <2>1. /\ base = BaseRecord(m, twin, base.zs, base.n, base.agree)
        /\ TwinAlike(m, twin, base.agree)
        /\ m \in Models /\ base.zs \in Seq(Int) /\ base.n \in Nat
        /\ WindowOf(m, base.n) /\ RunOf(m, base.zs)
    BY <1>3 DEF PeekValue, BaseInv
  <2>2. PICK ok : ok = (base.agree /\ ModelScore(m, v) = ModelScore(twin, v))
    OBVIOUS
  <2>3. base' = [base EXCEPT !.agree = ok]
    BY <1>3, <2>2 DEF PeekValue
  <2>4. TwinAlike(m, twin, ok)
    <3>1. CASE m.warmup > 0
      <4>1. twin = m /\ base.agree = TRUE
        BY <2>1, <3>1 DEF TwinAlike
      <4>2. ModelScore(m, v) = ModelScore(twin, v)
        BY <4>1
      <4>. HIDE DEF m, twin
      <4>3. ok = TRUE
        BY <2>2, <4>1, <4>2, Zenon
      <4>. QED BY <4>1, <4>3 DEF TwinAlike
    <3>2. CASE ~(m.warmup > 0)
      BY <3>2 DEF TwinAlike
    <3>. QED BY <3>1, <3>2
  <2>. HIDE DEF m, twin
  <2>5. base' = BaseRecord(m, twin, base.zs, base.n, ok)
    BY <2>1, <2>3 DEF BaseRecord
  <2>. QED BY <2>1, <2>4, <2>5, MakesBaseInv
<1>4. CASE RestoreModel
  <2>. DEFINE m == base.m
              restored == FromState(StateOf(m))
  <2>1. /\ base = BaseRecord(m, base.twin, base.zs, base.n, base.agree)
        /\ TwinAlike(m, base.twin, base.agree)
        /\ m \in Models /\ base.zs \in Seq(Int) /\ base.n \in Nat
        /\ WindowOf(m, base.n) /\ RunOf(m, base.zs)
        /\ base' = [base EXCEPT !.twin = restored]
    BY <1>4 DEF RestoreModel, BaseInv
  <2>2. m.warmup > 0 => restored = m
    BY <2>1, ModelShape DEF FromState, StateOf
  <2>. HIDE DEF m, restored
  <2>3. base' = BaseRecord(m, restored, base.zs, base.n, base.agree)
    BY <2>1 DEF BaseRecord
  <2>4. TwinAlike(m, restored, base.agree)
    BY <2>1, <2>2 DEF TwinAlike
  <2>. QED BY <2>1, <2>3, <2>4, MakesBaseInv
<1>5. CASE UNCHANGED baseVars
  BY <1>5 DEF BaseInv, baseVars
<1>. QED BY <1>1, <1>2, <1>3, <1>4, <1>5 DEF BaselineNext

\* A run of 2D - 1 strong deviations of one sign, D the length of a drift, has
\* the drift in it, and the rebase with it.
LEMMA RunBounds ==
  ASSUME NEW n \in Nat, NEW zs, NEW run \in 0..DriftBuckets - 1, NEW sign \in {-1, 0, 1},
         NEW len \in Nat, NEW warm \in Nat, RunHolds(warm, run, sign, len, zs, n),
         \A i \in 1..n : zs[i] \in Int,
         n >= 2 * DriftBuckets - 1, NEW sg \in {-1, 1},
         \A i \in n - 2 * DriftBuckets + 2..n : Strong(sg, zs[i])
  PROVE  len <= 3 * DriftBuckets - 1
<1>1. DriftBuckets \in Nat \ {0} /\ DriftLevel \in Nat \ {0}
  BY BaselineAssumption
<1>2. n - run \in n - 2 * DriftBuckets + 2..n /\ run < n /\ n \in 1..n /\ n \in n - 2 * DriftBuckets + 2..n
  BY <1>1
<1>3. Strong(sg, zs[n - run]) /\ Strong(sg, zs[n]) /\ zs[n] \in Int
  BY <1>2
<1>4. ASSUME run > 0 PROVE sign = sg
  <2>1. n \in n - run + 1..n /\ sign # 0
    BY <1>4 DEF RunHolds
  <2>2. Strong(sign, zs[n])
    BY <2>1 DEF RunHolds
  <2>. QED BY <1>1, <1>3, <2>1, <2>2 DEF Strong
<1>5. len <= DriftBuckets + 1 + run
  BY <1>2, <1>3, <1>4 DEF RunHolds
<1>. QED BY <1>1, <1>5

LEMMA BaseAdapts == BaseInv => BaselineAdapts
<1>. SUFFICES ASSUME BaseInv, base.kind = "base" PROVE BaselineAdapts
  BY DEF BaselineAdapts
<1>. DEFINE m == base.m
            h == m.history
            zs == base.zs
            n == Len(zs)
<1>1. /\ TwinAlike(m, base.twin, base.agree) /\ m \in Models /\ zs \in Seq(Int) /\ base.n \in Nat
      /\ WindowOf(m, base.n) /\ RunOf(m, zs)
  BY DEF BaseInv
<1>2. /\ n \in Nat /\ Len(h) \in Nat /\ m.run \in 0..DriftBuckets - 1 /\ m.sign \in {-1, 0, 1}
      /\ m.warmup \in Nat /\ \A i \in 1..n : zs[i] \in Int
  BY <1>1, ModelShape
<1>3. RunHolds(m.warmup, m.run, m.sign, Len(h), zs, n)
  BY <1>1 DEF RunOf
<1>4. /\ Len(h) <= WindowSize /\ Len(m.recent) <= MultiWindow
      /\ \A i \in 1..Len(h) - 1 : h[i].n < h[i + 1].n
  BY <1>1 DEF WindowOf
<1>. HIDE DEF h, zs, n, m
<1>5. ASSUME n >= 2 * DriftBuckets - 1,
             \A i \in n - 2 * DriftBuckets + 2..n : zs[i] >= DriftLevel
      PROVE  Len(h) <= 3 * DriftBuckets - 1
  <2>1. 1 \in {-1, 1} /\ \A i \in n - 2 * DriftBuckets + 2..n : Strong(1, zs[i])
    BY <1>5 DEF Strong
  <2>. QED BY <1>2, <1>3, <1>5, <2>1, RunBounds
<1>6. ASSUME n >= 2 * DriftBuckets - 1,
             \A i \in n - 2 * DriftBuckets + 2..n : zs[i] <= -DriftLevel
      PROVE  Len(h) <= 3 * DriftBuckets - 1
  <2>1. -1 \in {-1, 1} /\ \A i \in n - 2 * DriftBuckets + 2..n : Strong(-1, zs[i])
    BY <1>6 DEF Strong
  <2>. QED BY <1>2, <1>3, <1>6, <2>1, RunBounds
<1>7. m.warmup > 0 => base.agree
  BY <1>1 DEF TwinAlike
<1>. QED BY <1>4, <1>5, <1>6, <1>7 DEF BaselineAdapts, h, zs, n, m

LEMMA BaseScores == BaseInv => ScoresNeedHistory
<1>. SUFFICES ASSUME BaseInv, base.kind = "base", NEW v \in BaseValues \cup {NoNumber}
              PROVE  LET m == base.m
                         r == ModelObserve(m, v, 0) IN
                     /\ r.score > 0 => Len(m.history) >= m.warmup
                     /\ /\ v # NoNumber /\ Len(m.history) >= m.warmup
                        /\ \/ m.side = "high" /\ Deviation(Values(m), v) <= 0
                           \/ m.side = "low" /\ Deviation(Values(m), v) >= 0
                        => /\ r.z = 0 /\ r.m.run = 0
                           /\ ~r.multi => r.score = ScoreOf(m.side, 0) * Ramp(m)
  BY DEF ScoresNeedHistory
<1>. DEFINE m == base.m
            e == ModelScore(m, v)
            r == ModelObserve(m, v, 0)
            warm == MultiWindow > 1 /\ Len(m.history) >= m.warmup
            zs == IF warm THEN Newest(Append(m.recent, e.z), MultiWindow) ELSE m.recent
            mb == IF warm /\ Len(zs) = MultiWindow
                  THEN ScoreOf(m.side, Abs(MultiDeviation(zs))) * (RampBuckets + 1) ELSE 0
            dev == Deviation(Values(m), v)
<1>1. m \in Models /\ Len(m.history) <= WindowSize /\ Len(m.recent) <= MultiWindow
  BY DEF BaseInv, WindowOf
<1>2. v # NoNumber =>
        r.score = (IF mb > e.score THEN mb ELSE e.score) /\ r.multi = (mb > e.score)
  BY DEF ModelObserve
<1>3. v # NoNumber =>
        /\ Len(m.history) < m.warmup => e = [z |-> 0, score |-> 0]
        /\ Len(m.history) >= m.warmup =>
             /\ dev \in Int
             /\ e.z = Sided(m.side, dev)
             /\ e.score = ScoreOf(m.side, Abs(e.z)) * Ramp(m)
  BY <1>1, DeviationIs
<1>4. Len(m.history) \in Nat /\ m.warmup \in Nat /\ DriftLevel \in Nat \ {0}
  BY <1>1, ModelShape, BaselineAssumption
<1>5. ~warm => mb = 0
  OBVIOUS
<1>6. v # NoNumber =>
        \E t, w \in Models :
            /\ w.history = m.history /\ w.warmup = m.warmup /\ t = Tracked(w, e.z)
            /\ r.m.run = t.run /\ r.z = e.z
  <2>. SUFFICES ASSUME v # NoNumber
                PROVE  \E t, w \in Models :
                          /\ w.history = m.history /\ w.warmup = m.warmup /\ t = Tracked(w, e.z)
                          /\ r.m.run = t.run /\ r.z = e.z
    OBVIOUS
  <2>1. 0 \in Int /\ v \in BaseValues
    OBVIOUS
  <2>2. PICK t \in Models, w \in Models :
          /\ w.history = m.history /\ w.run = m.run /\ w.sign = m.sign /\ w.warmup = m.warmup
          /\ t = Tracked(w, e.z)
          /\ r.m \in Models /\ Len(r.m.recent) <= MultiWindow
          /\ r.m.run = t.run /\ r.m.sign = t.sign /\ r.m.warmup = m.warmup
          /\ r.m.history = Newest(Append(t.history, [n |-> 0, v |-> v]), WindowSize)
          /\ r.z = e.z
    BY <1>1, <2>1, ObserveIs
  <2>. HIDE DEF r, e, m
  <2>. QED BY <2>2
<1>7. v = NoNumber => r.score = 0
  BY DEF ModelObserve
<1>8. v # NoNumber => e.z \in Int
  BY <1>1, DeviationIs
<1>. HIDE DEF mb, zs, r, e, m, dev
<1>9. ASSUME r.score > 0 PROVE Len(m.history) >= m.warmup
  <2>1. CASE Len(m.history) < m.warmup
    <3>1. ~warm /\ v # NoNumber
      BY <1>4, <1>7, <1>9, <2>1
    <3>2. e.score = 0
      BY <1>3, <2>1, <3>1
    <3>. HIDE DEF warm
    <3>3. mb = 0 /\ r.score = 0
      BY <1>2, <1>5, <3>1, <3>2
    <3>. QED BY <1>9, <3>3
  <2>. QED BY <1>4, <2>1
<1>10. ASSUME v # NoNumber, Len(m.history) >= m.warmup,
              (m.side = "high" /\ dev <= 0) \/ (m.side = "low" /\ dev >= 0)
       PROVE  /\ r.z = 0 /\ r.m.run = 0
              /\ ~r.multi => r.score = ScoreOf(m.side, 0) * Ramp(m)
  <2>1. e.z = 0
    BY <1>3, <1>10 DEF Sided
  <2>2. PICK t \in Models, w \in Models :
            /\ w.history = m.history /\ w.warmup = m.warmup /\ t = Tracked(w, e.z)
            /\ r.m.run = t.run /\ r.z = e.z
    BY <1>6, <1>10
  <2>3. Tracks(w, e.z, t)
    BY <1>8, <1>10, <2>2, TrackedIs
  <2>4. RunAfter(w, e.z) = 0 /\ DriftBuckets \in Nat \ {0}
    BY <1>4, <2>1, BaselineAssumption DEF RunAfter, SignOf
  <2>5. t.run = 0
    BY <1>10, <2>2, <2>3, <2>4 DEF Tracks
  <2>6. Abs(e.z) = 0
    BY <2>1 DEF Abs
  <2>7. ~r.multi => r.score = ScoreOf(m.side, 0) * Ramp(m)
    BY <1>2, <1>3, <1>10, <2>6
  <2>. QED BY <2>1, <2>2, <2>5, <2>7
<1>11. /\ r.score > 0 => Len(m.history) >= m.warmup
       /\ /\ v # NoNumber /\ Len(m.history) >= m.warmup
          /\ \/ m.side = "high" /\ dev <= 0
             \/ m.side = "low" /\ dev >= 0
          => /\ r.z = 0 /\ r.m.run = 0
             /\ ~r.multi => r.score = ScoreOf(m.side, 0) * Ramp(m)
  BY <1>9, <1>10
<1>. QED BY <1>11, Zenon DEF r, m, dev

-----------------------------------------------------------------------------
(* Seasons.                                                                *)

\* What a sequence that grows holds there.
LEMMA SubsequenceStays ==
  ASSUME NEW S, NEW s \in Seq(S), NEW at, \A j \in at : j \in 1..Len(s), NEW v \in S
  PROVE  Subsequence(Append(s, v), at) = Subsequence(s, at)
<1>1. \A k \in 1..Cardinality(at) : KthOf(at, k) \in 1..Len(s)
  BY SubsequenceIs
<1>2. \A i \in 1..Len(s) : Append(s, v)[i] = s[i]
  OBVIOUS
<1>. QED BY <1>1, <1>2 DEF Subsequence

With(at, n) == at \cup {n}
Adds(longer, s, v) == longer = Append(s, v)

LEMMA SubsequenceGrows ==
  ASSUME NEW S, NEW s \in Seq(S), NEW at, \A j \in at : j \in 1..Len(s), NEW v \in S
  PROVE  Adds(Subsequence(Append(s, v), With(at, Len(s) + 1)), Subsequence(s, at), v)
<1>. USE DEF With
<1>. DEFINE more == With(at, Len(s) + 1)
            n == Len(s)
            c == Cardinality(at)
            all == Append(s, v)
<1>1. n \in Nat /\ all \in Seq(S) /\ Len(all) = n + 1 /\ all[n + 1] = v /\ \A i \in 1..n : all[i] = s[i]
  OBVIOUS
<1>2. (\A j \in more : j \in 1..n + 1) /\ n + 1 \notin at
  BY <1>1
<1>3. IsFiniteSet(at) /\ c \in Nat /\ Upto(at, n) = at /\ Upto(more, n) = at /\ Upto(more, n + 1) = more
  <2>1. Upto(at, n) = at /\ Upto(more, n) = at /\ Upto(more, n + 1) = more
    BY <1>1 DEF Upto
  <2>. HIDE DEF n
  <2>2. \A j \in at : j \in 1..n
    BY DEF n
  <2>3. IsFiniteSet(Upto(at, n)) /\ Cardinality(Upto(at, n)) \in Nat
    BY <1>1, <2>2, UptoGrows
  <2>. QED BY <2>1, <2>3
<1>4. Cardinality(more) = c + 1
  BY <1>2, <1>3, FS_AddElement
<1>5. ASSUME NEW k \in 1..c PROVE KthOf(more, k) = KthOf(at, k)
  <2>. DEFINE A == {i \in at : Cardinality({j \in at : j <= i}) = k}
              B == {i \in more : Cardinality({j \in more : j <= i}) = k}
  <2>1. ASSUME NEW i \in at PROVE {j \in more : j <= i} = {j \in at : j <= i}
    BY <1>1
  <2>2. {j \in more : j <= n + 1} = more
    BY <1>3 DEF Upto
  <2>3. Cardinality({j \in more : j <= n + 1}) # k
    <3>. HIDE DEF c, n
    <3>1. k # c + 1
      BY <1>3
    <3>. QED BY <1>4, <2>2, <3>1
  <2>4. \A i : (i \in more /\ Cardinality({j \in more : j <= i}) = k)
                 <=> (i \in at /\ Cardinality({j \in at : j <= i}) = k)
    BY <2>1, <2>3
  <2>. QED BY <2>4 DEF KthOf
<1>6. KthOf(more, c + 1) = n + 1
  <2>1. KthOf(more, c + 1) \in more /\ Cardinality(Upto(more, KthOf(more, c + 1))) = c + 1
    BY <1>1, <1>2, <1>3, <1>4, KthExists
  <2>2. ASSUME KthOf(more, c + 1) \in at PROVE FALSE
    <3>1. Upto(more, KthOf(more, c + 1)) \subseteq at
      BY <1>1, <2>2 DEF Upto
    <3>2. Cardinality(Upto(more, KthOf(more, c + 1))) <= c
      BY <1>3, <3>1, FS_Subset
    <3>. QED BY <1>3, <2>1, <3>2
  <2>. QED BY <2>1, <2>2
<1>. DEFINE sub == Subsequence(s, at)
<1>7. /\ sub \in Seq(S) /\ Len(sub) = c
      /\ \A k \in 1..c : KthOf(at, k) \in 1..n /\ sub[k] = s[KthOf(at, k)]
  BY SubsequenceIs
<1>8. Subsequence(all, more) = [k \in 1..c + 1 |-> all[KthOf(more, k)]]
  BY <1>4 DEF Subsequence
<1>. HIDE DEF sub, all, n, c
<1>9. Append(sub, v) = [k \in 1..c + 1 |-> IF k \in 1..c THEN sub[k] ELSE v]
  <2>1. /\ Append(sub, v) \in Seq(S) /\ Len(Append(sub, v)) = c + 1
        /\ \A k \in 1..c : Append(sub, v)[k] = sub[k]
        /\ Append(sub, v)[c + 1] = v
    BY <1>3, <1>7, AppendProperties
  <2>2. ASSUME NEW k \in 1..c + 1
        PROVE  Append(sub, v)[k] = (IF k \in 1..c THEN sub[k] ELSE v)
    <3>1. k \in 1..c \/ k = c + 1
      BY <1>3
    <3>2. c + 1 \notin 1..c
      BY <1>3
    <3>. QED BY <2>1, <3>1, <3>2
  <2>3. Append(sub, v) = [k \in 1..c + 1 |-> Append(sub, v)[k]]
    <3>. DEFINE x == Append(sub, v)
    <3>. HIDE DEF x
    <3>1. x \in [1..Len(x) -> S]
      BY <2>1, LenProperties DEF x
    <3>2. x \in [1..c + 1 -> S]
      BY <2>1, <3>1 DEF x
    <3>. QED BY <3>2 DEF x
  <2>. QED BY <2>2, <2>3
<1>10. ASSUME NEW k \in 1..c + 1
       PROVE  all[KthOf(more, k)] = (IF k \in 1..c THEN sub[k] ELSE v)
  <2>1. CASE k \in 1..c
    BY <1>1, <1>5, <1>7, <2>1
  <2>2. CASE k \notin 1..c
    <3>1. k = c + 1
      BY <1>3, <2>2
    <3>. QED BY <1>1, <1>6, <2>2, <3>1
  <2>. QED BY <2>1, <2>2
<1>11. Subsequence(all, more) = Append(sub, v)
  BY <1>8, <1>9, <1>10
<1>. QED BY <1>11 DEF sub, all, n, Adds

\* Models, as functions of their fields.
Fields == {"hist", "idx", "since", "period", "period2", "phases", "comps", "resid", "global",
           "last", "expected"}
IsModel(m) == m = [x \in Fields |-> m[x]]

\* A model and one restored from it: all but what the last value left.
Twins(m, t) ==
  /\ IsModel(m) /\ IsModel(t)
  /\ t.hist = m.hist /\ t.idx = m.idx /\ t.since = m.since
  /\ t.period = m.period /\ t.period2 = m.period2 /\ t.phases = m.phases
  /\ t.comps = m.comps /\ t.resid = m.resid /\ t.global = m.global

Begins(m, b) ==
  /\ IsModel(b) /\ b.idx = m.idx + 1 /\ b.since = m.since + 1
  /\ b.hist = m.hist /\ b.period = m.period /\ b.period2 = m.period2
  /\ b.phases = m.phases /\ b.comps = m.comps /\ b.resid = m.resid
  /\ b.global = m.global /\ b.last = m.last /\ b.expected = m.expected

LEMMA BegunIs ==
  ASSUME NEW m, IsModel(m)
  PROVE  Begins(m, [m EXCEPT !.idx = @ + 1, !.since = @ + 1])
<1>. DEFINE b == [m EXCEPT !.idx = @ + 1, !.since = @ + 1]
<1>1. DOMAIN m = Fields
  BY DEF IsModel
<1>2. DOMAIN b = Fields /\ b = [x \in DOMAIN b |-> b[x]]
  BY <1>1
<1>. QED BY <1>1, <1>2 DEF Begins, IsModel, Fields

\* What detection does: nothing, models of two periods, or models of one.
Outcome(m, cands, second) ==
  IF cands = <<>> THEN "same"
  ELSE IF second # 0
  THEN IF cands[1] = m.period /\ second = m.period2 THEN "same" ELSE "multi"
  ELSE IF cands[1] = m.period /\ ~MultiActive(m) THEN "same" ELSE "single"

CompsOf(m, p1, p2) == [of |-> Last(m.hist).n, p1 |-> p1, p2 |-> p2]
Against(s, comps) == [i \in DOMAIN s |-> [v |-> s[i], less |-> comps]]
At(s, p, i) == {k \in DOMAIN s : PhaseOf(s[k].bkt, p) = i}
PhasesOf(s, p) == [i \in 1..p |-> Subsequence(s, At(s, p, i - 1))]

SameSeason(m, d) ==
  /\ d.period = m.period /\ d.period2 = m.period2
  /\ d.phases = m.phases /\ d.comps = m.comps /\ d.resid = m.resid

MultiSeason(m, d, p1, p2) ==
  /\ d.period = p1 /\ d.period2 = p2 /\ d.phases = <<>>
  /\ d.comps = CompsOf(m, p1, p2) /\ d.resid = Against(m.hist, d.comps)

OneSeason(m, d, p1) ==
  /\ d.period = p1 /\ d.period2 = 0 /\ d.comps = NoComps /\ d.resid = <<>>
  /\ d.phases = PhasesOf(m.hist, p1)

Detecting(m, d, cands, second) ==
  /\ IsModel(d) /\ d.hist = m.hist /\ d.idx = m.idx /\ d.since = 0
  /\ d.global = m.global /\ d.last = m.last /\ d.expected = m.expected
  /\ Outcome(m, cands, second) = "same"   => SameSeason(m, d)
  /\ Outcome(m, cands, second) = "multi"  => MultiSeason(m, d, cands[1], second)
  /\ Outcome(m, cands, second) = "single" => OneSeason(m, d, cands[1])

LEMMA DetectedIs ==
  ASSUME NEW m, IsModel(m), NEW listed, NEW second
  PROVE  Detecting(m, Detected(m, listed, second), CandidatePeriods(listed, Len(m.hist)), second)
<1>. DEFINE cands == CandidatePeriods(listed, Len(m.hist))
            d == Detected(m, listed, second)
            z == [m EXCEPT !.since = 0]
            p1 == cands[1]
<1>. SUFFICES Detecting(m, d, cands, second)
  OBVIOUS
<1>1. DOMAIN m = Fields
  BY DEF IsModel
<1>2. /\ DOMAIN z = Fields /\ z = [x \in DOMAIN z |-> z[x]] /\ z.since = 0
      /\ z.hist = m.hist /\ z.idx = m.idx /\ z.period = m.period /\ z.period2 = m.period2
      /\ z.phases = m.phases /\ z.comps = m.comps /\ z.resid = m.resid
      /\ z.global = m.global /\ z.last = m.last /\ z.expected = m.expected
  BY <1>1 DEF Fields
<1>3. MultiActive(z) <=> MultiActive(m)
  BY <1>2 DEF MultiActive
<1>4. d = (IF cands = <<>> THEN z
           ELSE IF second # 0 THEN SetUpMulti(z, p1, second) ELSE SetUpPhases(z, p1))
  BY DEF Detected
<1>. HIDE DEF d, z, cands
<1>5. ASSUME d = z, Outcome(m, cands, second) = "same"
      PROVE  Detecting(m, d, cands, second)
  BY <1>2, <1>5 DEF Detecting, SameSeason, IsModel
<1>6. CASE cands = <<>>
  BY <1>4, <1>5, <1>6 DEF Outcome
<1>7. CASE cands # <<>> /\ second # 0
  <2>1. d = SetUpMulti(z, p1, second)
    BY <1>4, <1>7
  <2>2. CASE p1 = m.period /\ second = m.period2
    <3>1. d = z
      BY <1>2, <2>1, <2>2 DEF SetUpMulti
    <3>. QED BY <1>5, <1>7, <2>2, <3>1 DEF Outcome
  <2>3. CASE ~(p1 = m.period /\ second = m.period2)
    <3>. DEFINE comps == CompsOf(m, p1, second)
    <3>1. d = [z EXCEPT !.period = p1, !.period2 = second, !.phases = <<>>, !.comps = comps,
                        !.resid = Against(m.hist, comps)]
      BY <1>2, <2>1, <2>3 DEF SetUpMulti, CompsOf, Against
    <3>. HIDE DEF comps
    <3>2. IsModel(d)
      <4>1. DOMAIN d = Fields /\ d = [x \in DOMAIN d |-> d[x]]
        BY <1>2, <3>1
      <4>. QED BY <4>1 DEF IsModel
    <3>3. /\ d.hist = m.hist /\ d.idx = m.idx /\ d.since = 0
          /\ d.global = m.global /\ d.last = m.last /\ d.expected = m.expected
      BY <1>2, <3>1 DEF Fields
    <3>4. /\ d.period = p1 /\ d.period2 = second /\ d.phases = <<>> /\ d.comps = comps
          /\ d.resid = Against(m.hist, comps)
      BY <1>2, <3>1 DEF Fields
    <3>5. Outcome(m, cands, second) = "multi"
      BY <1>7, <2>3 DEF Outcome
    <3>. QED BY <3>2, <3>3, <3>4, <3>5 DEF Detecting, MultiSeason, comps
  <2>. QED BY <2>2, <2>3
<1>8. CASE cands # <<>> /\ second = 0
  <2>1. d = SetUpPhases(z, p1)
    BY <1>4, <1>8
  <2>2. CASE p1 = m.period /\ ~MultiActive(m)
    <3>1. d = z
      BY <1>2, <1>3, <2>1, <2>2 DEF SetUpPhases
    <3>. QED BY <1>5, <1>8, <2>2, <3>1 DEF Outcome
  <2>3. CASE ~(p1 = m.period /\ ~MultiActive(m))
    <3>1. d = [z EXCEPT !.period = p1, !.period2 = 0, !.comps = NoComps, !.resid = <<>>,
                        !.phases = PhasesOf(m.hist, p1)]
      BY <1>2, <1>3, <2>1, <2>3 DEF SetUpPhases, PhasesOf, At
    <3>2. IsModel(d)
      <4>1. DOMAIN d = Fields /\ d = [x \in DOMAIN d |-> d[x]]
        BY <1>2, <3>1
      <4>. QED BY <4>1 DEF IsModel
    <3>3. /\ d.hist = m.hist /\ d.idx = m.idx /\ d.since = 0
          /\ d.global = m.global /\ d.last = m.last /\ d.expected = m.expected
      BY <1>2, <3>1 DEF Fields
    <3>4. /\ d.period = p1 /\ d.period2 = 0 /\ d.comps = NoComps /\ d.resid = <<>>
          /\ d.phases = PhasesOf(m.hist, p1)
      BY <1>2, <3>1 DEF Fields
    <3>5. Outcome(m, cands, second) = "single"
      BY <1>8, <2>3 DEF Outcome
    <3>. QED BY <3>2, <3>3, <3>4, <3>5 DEF Detecting, OneSeason
  <2>. QED BY <2>2, <2>3
<1>. QED BY <1>6, <1>7, <1>8

\* Which model a value is told to, and what that leaves.
Mode(m) ==
  IF MultiActive(m) THEN "multi"
  ELSE IF m.period >= 2 /\ Len(m.phases) = m.period THEN "phase" ELSE "global"
PhasePlace(m, v) == PhaseOf(v.bkt, m.period) + 1

Tells(d, t, v) ==
  /\ IsModel(t) /\ t.hist = d.hist /\ t.idx = d.idx /\ t.since = d.since
  /\ t.period = d.period /\ t.period2 = d.period2 /\ t.comps = d.comps
  /\ Mode(d) = "multi" =>
       /\ t.resid = Append(d.resid, [v |-> v, less |-> d.comps]) /\ t.expected = v.bkt
       /\ t.phases = d.phases /\ t.global = d.global /\ t.last = d.last
  /\ Mode(d) = "phase" =>
       /\ t.phases = [d.phases EXCEPT ![PhasePlace(d, v)] = Append(@, v)] /\ t.last = PhasePlace(d, v)
       /\ t.resid = d.resid /\ t.global = d.global /\ t.expected = d.expected
  /\ Mode(d) = "global" =>
       /\ t.global = Append(d.global, v) /\ t.last = 0
       /\ t.resid = d.resid /\ t.phases = d.phases /\ t.expected = d.expected

LEMMA ToldIs ==
  ASSUME NEW d, IsModel(d), NEW v
  PROVE  Tells(d, ToldTo(d, v), v)
<1>. DEFINE t == ToldTo(d, v)
            ph == PhasePlace(d, v)
            one == Append(d.resid, [v |-> v, less |-> d.comps])
<1>1. DOMAIN d = Fields
  BY DEF IsModel
<1>2. CASE Mode(d) = "multi"
  <2>1. t = [d EXCEPT !.expected = v.bkt, !.resid = one]
    BY <1>2 DEF ToldTo, Mode
  <2>. HIDE DEF t, one
  <2>2. DOMAIN t = Fields /\ t = [x \in DOMAIN t |-> t[x]]
    BY <1>1, <2>1
  <2>3. /\ t.hist = d.hist /\ t.idx = d.idx /\ t.since = d.since
        /\ t.period = d.period /\ t.period2 = d.period2 /\ t.comps = d.comps
        /\ t.resid = one /\ t.expected = v.bkt
        /\ t.phases = d.phases /\ t.global = d.global /\ t.last = d.last
    BY <1>1, <2>1 DEF Fields
  <2>. QED BY <1>2, <2>2, <2>3 DEF Tells, IsModel, t, one
<1>3. CASE Mode(d) = "phase"
  <2>. DEFINE phases == [d.phases EXCEPT ![ph] = Append(@, v)]
  <2>1. t = [d EXCEPT !.last = ph, !.phases = phases]
    BY <1>1, <1>3 DEF ToldTo, Mode, PhasePlace, Fields
  <2>. HIDE DEF t, ph, phases
  <2>2. DOMAIN t = Fields /\ t = [x \in DOMAIN t |-> t[x]]
    BY <1>1, <2>1
  <2>3. /\ t.hist = d.hist /\ t.idx = d.idx /\ t.since = d.since
        /\ t.period = d.period /\ t.period2 = d.period2 /\ t.comps = d.comps
        /\ t.phases = phases /\ t.last = ph
        /\ t.resid = d.resid /\ t.global = d.global /\ t.expected = d.expected
    BY <1>1, <2>1 DEF Fields
  <2>. QED BY <1>3, <2>2, <2>3 DEF Tells, IsModel, t, ph, phases
<1>4. CASE Mode(d) = "global"
  <2>1. t = [d EXCEPT !.last = 0, !.global = Append(@, v)]
    BY <1>4 DEF ToldTo, Mode
  <2>. HIDE DEF t
  <2>2. DOMAIN t = Fields /\ t = [x \in DOMAIN t |-> t[x]]
    BY <1>1, <2>1
  <2>3. /\ t.hist = d.hist /\ t.idx = d.idx /\ t.since = d.since
        /\ t.period = d.period /\ t.period2 = d.period2 /\ t.comps = d.comps
        /\ t.global = Append(d.global, v) /\ t.last = 0
        /\ t.resid = d.resid /\ t.phases = d.phases /\ t.expected = d.expected
    BY <1>1, <2>1 DEF Fields
  <2>. QED BY <1>4, <2>2, <2>3 DEF Tells, IsModel, t
<1>5. Mode(d) \in {"multi", "phase", "global"}
  BY DEF Mode
<1>. QED BY <1>2, <1>3, <1>4, <1>5

Cut(all) == IF Len(all) > SeasonMaxHistory
            THEN SubSeq(all, Len(all) - SeasonMaxHistory + 1, Len(all)) ELSE all

Remembers(t, r, v) ==
  /\ IsModel(r) /\ r.hist = Cut(Append(t.hist, v)) /\ r.idx = t.idx /\ r.since = t.since
  /\ r.period = t.period /\ r.period2 = t.period2 /\ r.phases = t.phases /\ r.comps = t.comps
  /\ r.resid = t.resid /\ r.global = t.global /\ r.last = t.last /\ r.expected = t.expected

LEMMA RememberedIs ==
  ASSUME NEW t, IsModel(t), NEW v
  PROVE  Remembers(t, Remembered(t, v), v)
<1>. DEFINE r == Remembered(t, v)
            h == Cut(Append(t.hist, v))
<1>1. DOMAIN t = Fields
  BY DEF IsModel
<1>2. r = [t EXCEPT !.hist = h]
  BY DEF Remembered, Cut
<1>. HIDE DEF r, h
<1>3. DOMAIN r = Fields /\ r = [x \in DOMAIN r |-> r[x]]
  BY <1>1, <1>2
<1>4. /\ r.hist = h /\ r.idx = t.idx /\ r.since = t.since
      /\ r.period = t.period /\ r.period2 = t.period2 /\ r.phases = t.phases
      /\ r.comps = t.comps /\ r.resid = t.resid /\ r.global = t.global /\ r.last = t.last
      /\ r.expected = t.expected
  BY <1>1, <1>2 DEF Fields
<1>. QED BY <1>3, <1>4 DEF Remembers, IsModel, r, h

\* What observing a value does, step by step.
Observes(m, n, v, cands, second) ==
  \E b, d, t :
    /\ Begins(m, b)
    /\ RedetectDue(m) => Detecting(b, d, cands, second)
    /\ ~RedetectDue(m) => d = b
    /\ IsModel(d) /\ Tells(d, t, v) /\ Remembers(t, n, v)

LEMMA SeasonObserveIs ==
  ASSUME NEW m, IsModel(m), NEW v, NEW listed, NEW second
  PROVE  Observes(m, SeasonObserve(m, v, listed, second), v,
                  CandidatePeriods(listed, Len(m.hist)), second)
<1>. DEFINE b == [m EXCEPT !.idx = @ + 1, !.since = @ + 1]
            d == IF RedetectDue(m) THEN Detected(b, listed, second) ELSE b
            t == ToldTo(d, v)
            n == Remembered(t, v)
            cands == CandidatePeriods(listed, Len(m.hist))
<1>1. SeasonObserve(m, v, listed, second) = n
  BY DEF SeasonObserve
<1>2. Begins(m, b)
  BY BegunIs
<1>. HIDE DEF b
<1>3. IsModel(b) /\ b.hist = m.hist
  BY <1>2 DEF Begins
<1>4. Detecting(b, Detected(b, listed, second), cands, second)
  BY <1>3, DetectedIs
<1>5. RedetectDue(m) => Detecting(b, d, cands, second)
  BY <1>4
<1>6. ~RedetectDue(m) => d = b
  OBVIOUS
<1>. HIDE DEF d, cands
<1>7. IsModel(d)
  BY <1>3, <1>5, <1>6 DEF Detecting
<1>8. Tells(d, t, v)
  BY <1>7, ToldIs
<1>. HIDE DEF t
<1>9. Remembers(t, n, v)
  BY <1>8, RememberedIs DEF Tells
<1>. HIDE DEF n
<1>. QED BY <1>1, <1>2, <1>5, <1>6, <1>7, <1>8, <1>9 DEF Observes, cands

\* The bounds of the last value are taken from the same model.
Agree(m, t) == IF MultiActive(m) THEN t.expected = m.expected ELSE t.last = m.last

LEMMA TwinsObserve ==
  ASSUME NEW m, NEW t, Twins(m, t), NEW v, NEW cands, NEW second,
         NEW n, Observes(m, n, v, cands, second), NEW o, Observes(t, o, v, cands, second)
  PROVE  Twins(n, o) /\ Agree(n, o)
<1>1. PICK b, d, x :
        /\ Begins(m, b)
        /\ RedetectDue(m) => Detecting(b, d, cands, second)
        /\ ~RedetectDue(m) => d = b
        /\ IsModel(d) /\ Tells(d, x, v) /\ Remembers(x, n, v)
  BY DEF Observes
<1>2. PICK c, e, y :
        /\ Begins(t, c)
        /\ RedetectDue(t) => Detecting(c, e, cands, second)
        /\ ~RedetectDue(t) => e = c
        /\ IsModel(e) /\ Tells(e, y, v) /\ Remembers(y, o, v)
  BY DEF Observes
<1>3. RedetectDue(m) <=> RedetectDue(t)
  BY DEF Twins, RedetectDue
<1>4. Twins(b, c)
  BY <1>1, <1>2 DEF Twins, Begins
<1>5. Twins(d, e)
  <2>1. CASE RedetectDue(m)
    <3>1. Detecting(b, d, cands, second) /\ Detecting(c, e, cands, second)
      BY <1>1, <1>2, <1>3, <2>1
    <3>2. Outcome(c, cands, second) = Outcome(b, cands, second)
      BY <1>4 DEF Outcome, Twins, MultiActive
    <3>3. Outcome(b, cands, second) \in {"same", "multi", "single"}
      BY DEF Outcome
    <3>4. CASE Outcome(b, cands, second) = "same"
      BY <1>4, <3>1, <3>2, <3>4 DEF Detecting, SameSeason, Twins
    <3>5. CASE Outcome(b, cands, second) = "multi"
      BY <1>4, <3>1, <3>2, <3>5 DEF Detecting, MultiSeason, Twins, CompsOf
    <3>6. CASE Outcome(b, cands, second) = "single"
      BY <1>4, <3>1, <3>2, <3>6 DEF Detecting, OneSeason, Twins
    <3>. QED BY <3>3, <3>4, <3>5, <3>6
  <2>2. CASE ~RedetectDue(m)
    BY <1>1, <1>2, <1>3, <1>4, <2>2
  <2>. QED BY <2>1, <2>2
<1>6. Mode(e) = Mode(d) /\ PhasePlace(e, v) = PhasePlace(d, v) /\ Mode(d) \in {"multi", "phase", "global"}
  BY <1>5 DEF Mode, Twins, MultiActive, PhasePlace
<1>7. MultiActive(x) <=> Mode(d) = "multi"
  BY <1>1 DEF Tells, Mode, MultiActive
<1>8. Twins(x, y) /\ Agree(x, y)
  <2>1. CASE Mode(d) = "multi"
    BY <1>1, <1>2, <1>5, <1>6, <1>7, <2>1 DEF Tells, Twins, Agree
  <2>2. CASE Mode(d) = "phase"
    BY <1>1, <1>2, <1>5, <1>6, <1>7, <2>2 DEF Tells, Twins, Agree
  <2>3. CASE Mode(d) = "global"
    BY <1>1, <1>2, <1>5, <1>6, <1>7, <2>3 DEF Tells, Twins, Agree
  <2>. QED BY <1>6, <2>1, <2>2, <2>3
<1>9. MultiActive(n) <=> MultiActive(x)
  BY <1>1 DEF Remembers, MultiActive
<1>. QED BY <1>1, <1>2, <1>8, <1>9 DEF Remembers, Twins, Agree

-----------------------------------------------------------------------------
Numbered == [n : Int, bkt : Int]

\* The models in force have been told what they should.
Sound(m, told, all) ==
  /\ m.period \in Nat /\ m.period # 1 /\ m.period2 \in Nat
  /\ \/ m.period2 = 0 /\ m.comps = NoComps
     \/ m.period2 >= 2 /\ m.period >= 2 /\ m.comps # NoComps
  /\ m.period2 # 0 => m.resid = Against(told, m.comps)
  /\ m.period2 = 0 /\ m.period # 0 => m.phases = PhasesOf(told, m.period)
  /\ m.period = 0 => m.global = all

Fits(m) == 3 * m.period <= Len(m.hist) /\ 3 * m.period2 <= Len(m.hist)

\* The first candidate is one of the periods listed, and fits three times.
LEMMA CandidateFits ==
  ASSUME NEW periods \in Seq(Int), NEW len \in Nat,
         NEW cands, cands = CandidatePeriods(periods, len), cands # <<>>
  PROVE  \E i \in 1..Len(periods) :
           cands[1] = periods[i] /\ periods[i] \in Int /\ periods[i] >= 2 /\ 3 * periods[i] <= len
<1>. DEFINE at == {i \in DOMAIN periods : periods[i] >= 2 /\ periods[i] <= len \div 3}
<1>1. \A j \in at : j \in 1..Len(periods)
  OBVIOUS
<1>2. cands = Subsequence(periods, at)
  BY DEF CandidatePeriods
<1>. DEFINE k == KthOf(at, 1)
<1>. HIDE DEF at
<1>3. /\ cands \in Seq(Int) /\ Len(cands) = Cardinality(at) /\ Cardinality(at) \in Nat
      /\ \A j \in 1..Cardinality(at) : KthOf(at, j) \in at /\ cands[j] = periods[KthOf(at, j)]
  BY <1>1, <1>2, SubsequenceIs
<1>4. Len(cands) # 0
  BY <1>3
<1>5. k \in at /\ cands[1] = periods[k]
  BY <1>3, <1>4
<1>. HIDE DEF k
<1>6. /\ k \in 1..Len(periods) /\ periods[k] \in Int /\ periods[k] >= 2
      /\ periods[k] <= len \div 3
  BY <1>1, <1>5 DEF at
<1>7. 3 * (len \div 3) <= len /\ len \div 3 \in Int
  OBVIOUS
<1>8. 3 * periods[k] <= len
  BY <1>6, <1>7
<1>. QED BY <1>5, <1>6, <1>8

LEMMA AgainstGrows ==
  ASSUME NEW s \in Seq(Numbered), NEW v \in Numbered, NEW c
  PROVE  Append(Against(s, c), [v |-> v, less |-> c]) = Against(Append(s, v), c)
<1>. DEFINE n == Len(s)
            S == {[v |-> x, less |-> c] : x \in Numbered}
            a == Against(s, c)
            y == [v |-> v, less |-> c]
            all == Append(s, v)
            z == Append(a, y)
<1>1. /\ n \in Nat /\ DOMAIN s = 1..n /\ \A i \in 1..n : s[i] \in Numbered
      /\ DOMAIN all = 1..n + 1 /\ all[n + 1] = v /\ \A i \in 1..n : all[i] = s[i]
  OBVIOUS
<1>2. y \in S /\ \A i \in 1..n : [v |-> s[i], less |-> c] \in S
  BY <1>1
<1>. HIDE DEF n, S, y
<1>3. a = [i \in 1..n |-> [v |-> s[i], less |-> c]]
  BY <1>1 DEF Against
<1>4. a \in Seq(S) /\ Len(a) = n
  BY <1>1, <1>2, <1>3
<1>. HIDE DEF a, all
<1>5. /\ z \in Seq(S) /\ Len(z) = n + 1 /\ z[n + 1] = y
      /\ \A i \in 1..n : z[i] = a[i]
  BY <1>2, <1>4, AppendProperties
<1>. HIDE DEF z
<1>6. z = [i \in 1..n + 1 |-> z[i]]
  <2>1. z \in [1..Len(z) -> S]
    BY <1>5, LenProperties
  <2>. QED BY <1>5, <2>1
<1>7. ASSUME NEW i \in 1..n + 1 PROVE z[i] = [v |-> all[i], less |-> c]
  <2>1. CASE i \in 1..n
    BY <1>1, <1>3, <1>5, <2>1
  <2>2. CASE i = n + 1
    BY <1>1, <1>5, <2>2 DEF y
  <2>. QED BY <1>1, <2>1, <2>2
<1>8. Against(all, c) = [i \in 1..n + 1 |-> [v |-> all[i], less |-> c]]
  BY <1>1 DEF Against
<1>. QED BY <1>6, <1>7, <1>8 DEF z, a, y, all

LEMMA PhaseIs ==
  ASSUME NEW x \in Int, NEW p \in Nat \ {0}
  PROVE  PhaseOf(x, p) \in 0..p - 1
BY DivMod DEF PhaseOf

LEMMA PhasesGrow ==
  ASSUME NEW s \in Seq(Numbered), NEW v \in Numbered, NEW p \in Nat \ {0},
         NEW ph, ph = PhaseOf(v.bkt, p) + 1
  PROVE  /\ ph \in 1..p
         /\ PhasesOf(Append(s, v), p) = [PhasesOf(s, p) EXCEPT ![ph] = Append(@, v)]
<1>. DEFINE n == Len(s)
            all == Append(s, v)
<1>1. /\ n \in Nat /\ DOMAIN s = 1..n /\ \A i \in 1..n : s[i] \in Numbered
      /\ DOMAIN all = 1..n + 1 /\ all[n + 1] = v /\ \A i \in 1..n : all[i] = s[i]
  OBVIOUS
<1>2. v.bkt \in Int
  BY DEF Numbered
<1>3. PhaseOf(v.bkt, p) \in 0..p - 1
  BY <1>2, PhaseIs
<1>4. ph \in 1..p
  BY <1>3
<1>. HIDE DEF n, all
<1>5. ASSUME NEW i \in 1..p
      PROVE  Subsequence(all, At(all, p, i - 1))
               = (IF i = ph THEN Append(Subsequence(s, At(s, p, i - 1)), v)
                  ELSE Subsequence(s, At(s, p, i - 1)))
  <2>. DEFINE at == At(s, p, i - 1)
              more == At(all, p, i - 1)
  <2>1. \A j \in at : j \in 1..Len(s)
    BY DEF At
  <2>2. CASE i = ph
    <3>1. PhaseOf(v.bkt, p) = i - 1
      BY <1>3, <2>2
    <3>2. more = With(at, Len(s) + 1)
      BY <1>1, <3>1 DEF At, n, With
    <3>. HIDE DEF at
    <3>3. Subsequence(all, With(at, Len(s) + 1)) = Append(Subsequence(s, at), v)
      <4>1. Adds(Subsequence(Append(s, v), With(at, Len(s) + 1)), Subsequence(s, at), v)
        BY <2>1, SubsequenceGrows
      <4>. QED BY <4>1 DEF Adds, all
    <3>. QED BY <2>2, <3>2, <3>3 DEF at
  <2>3. CASE i # ph
    <3>1. PhaseOf(v.bkt, p) # i - 1
      BY <1>3, <2>3
    <3>2. more = at
      BY <1>1, <3>1 DEF At
    <3>. HIDE DEF at
    <3>3. Subsequence(all, at) = Subsequence(s, at)
      BY <2>1, SubsequenceStays DEF all
    <3>. QED BY <2>3, <3>2, <3>3 DEF at
  <2>. QED BY <2>2, <2>3
<1>. QED BY <1>4, <1>5 DEF PhasesOf, all

LEMMA SoundDetected ==
  ASSUME NEW b, NEW d, NEW told, NEW all, Sound(b, told, all), Fits(b),
         b.hist \in Seq(Numbered),
         NEW listed \in Seq(Int), NEW second \in Nat,
         second # 0 => second >= 2 /\ 3 * second <= Len(b.hist),
         NEW cands, cands = CandidatePeriods(listed, Len(b.hist)),
         Detecting(b, d, cands, second)
  PROVE  /\ Sound(d, IF <<d.period, d.period2>> # <<b.period, b.period2>>
                     THEN b.hist ELSE told, all)
         /\ Fits(d)
<1>. DEFINE told1 == IF <<d.period, d.period2>> # <<b.period, b.period2>> THEN b.hist ELSE told
<1>1. d.hist = b.hist /\ d.global = b.global
  BY DEF Detecting
<1>2. Outcome(b, cands, second) \in {"same", "multi", "single"}
  BY DEF Outcome
<1>3. CASE Outcome(b, cands, second) = "same"
  <2>1. SameSeason(b, d)
    BY <1>3 DEF Detecting
  <2>2. told1 = told
    BY <2>1 DEF SameSeason
  <2>. HIDE DEF told1
  <2>3. Sound(d, told1, all)
    BY <1>1, <2>1, <2>2 DEF SameSeason, Sound
  <2>4. Fits(d)
    BY <1>1, <2>1 DEF SameSeason, Fits
  <2>. QED BY <2>3, <2>4 DEF told1
<1>4. cands # <<>> => cands[1] \in Int /\ cands[1] >= 2 /\ 3 * cands[1] <= Len(b.hist)
  <2>1. Len(b.hist) \in Nat
    OBVIOUS
  <2>. QED BY <2>1, CandidateFits
<1>5. CASE Outcome(b, cands, second) = "multi"
  <2>. DEFINE p1 == cands[1]
  <2>1. /\ MultiSeason(b, d, p1, second) /\ cands # <<>> /\ second # 0
        /\ ~(p1 = b.period /\ second = b.period2)
    BY <1>5 DEF Detecting, Outcome
  <2>2. p1 \in Nat /\ p1 >= 2 /\ 3 * p1 <= Len(b.hist) /\ p1 # 0 /\ p1 # 1
    BY <1>4, <2>1
  <2>. HIDE DEF p1
  <2>3. d.period = p1 /\ d.period2 = second /\ d.resid = Against(b.hist, d.comps)
    BY <2>1 DEF MultiSeason
  <2>4. told1 = b.hist
    BY <2>1, <2>3
  <2>5. d.comps # NoComps
    BY <2>1, <2>2 DEF MultiSeason, CompsOf, NoComps
  <2>. HIDE DEF told1
  <2>6. Sound(d, told1, all)
    BY <2>1, <2>2, <2>3, <2>4, <2>5 DEF Sound
  <2>7. Fits(d)
    BY <1>1, <2>1, <2>2, <2>3 DEF Fits
  <2>. QED BY <2>6, <2>7 DEF told1
<1>6. CASE Outcome(b, cands, second) = "single"
  <2>. DEFINE p1 == cands[1]
  <2>1. /\ OneSeason(b, d, p1) /\ cands # <<>>
        /\ ~(p1 = b.period /\ ~MultiActive(b))
    BY <1>6 DEF Detecting, Outcome
  <2>2. p1 \in Nat /\ p1 >= 2 /\ 3 * p1 <= Len(b.hist) /\ p1 # 0 /\ p1 # 1
    BY <1>4, <2>1
  <2>. HIDE DEF p1
  <2>3. d.period = p1 /\ d.period2 = 0 /\ d.phases = PhasesOf(b.hist, p1) /\ d.comps = NoComps
    BY <2>1 DEF OneSeason
  <2>4. p1 # b.period \/ b.period2 # 0
    BY <2>1 DEF MultiActive
  <2>5. told1 = b.hist
    BY <2>3, <2>4
  <2>. HIDE DEF told1
  <2>6. Sound(d, told1, all)
    BY <2>2, <2>3, <2>5 DEF Sound
  <2>7. Fits(d)
    <3>1. Len(b.hist) \in Nat
      OBVIOUS
    <3>. QED BY <1>1, <2>2, <2>3, <3>1 DEF Fits
  <2>. QED BY <2>6, <2>7 DEF told1
<1>. QED BY <1>2, <1>3, <1>5, <1>6

LEMMA SoundTold ==
  ASSUME NEW d, NEW t, NEW v \in Numbered, NEW told \in Seq(Numbered), NEW all,
         Sound(d, told, all), Tells(d, t, v)
  PROVE  /\ Sound(t, Append(told, v), Append(all, v))
         /\ ~MultiActive(t) => t.last = 0 \/ t.last \in DOMAIN t.phases
<1>1. /\ t.period = d.period /\ t.period2 = d.period2 /\ t.comps = d.comps
  BY DEF Tells
<1>2. (MultiActive(d) <=> d.period2 # 0) /\ (MultiActive(t) <=> MultiActive(d))
  BY <1>1 DEF MultiActive, Sound
<1>3. CASE d.period2 # 0
  <2>1. Mode(d) = "multi" /\ d.period # 0
    BY <1>2, <1>3 DEF Mode, Sound
  <2>2. t.resid = Append(d.resid, [v |-> v, less |-> d.comps])
    BY <2>1 DEF Tells
  <2>3. d.resid = Against(told, d.comps)
    BY <1>3 DEF Sound
  <2>4. t.resid = Against(Append(told, v), t.comps)
    BY <1>1, <2>2, <2>3, AgainstGrows
  <2>. QED BY <1>1, <1>2, <1>3, <2>1, <2>4 DEF Sound
<1>4. CASE d.period2 = 0 /\ d.period # 0
  <2>. DEFINE p == d.period
              ph == PhasePlace(d, v)
  <2>1. p \in Nat \ {0} /\ p >= 2 /\ d.phases = PhasesOf(told, p)
    BY <1>4 DEF Sound
  <2>2. Len(d.phases) = p
    <3>. HIDE DEF p
    <3>. QED BY <2>1 DEF PhasesOf
  <2>3. Mode(d) = "phase"
    BY <1>2, <1>4, <2>1, <2>2 DEF Mode
  <2>4. t.phases = [d.phases EXCEPT ![ph] = Append(@, v)] /\ t.last = ph
    BY <2>3 DEF Tells
  <2>. HIDE DEF p, ph
  <2>5. ph = PhaseOf(v.bkt, p) + 1
    BY DEF ph, p, PhasePlace
  <2>6. ph \in 1..p /\ t.phases = PhasesOf(Append(told, v), p)
    BY <2>1, <2>4, <2>5, PhasesGrow
  <2>7. DOMAIN t.phases = 1..p
    BY <2>6 DEF PhasesOf
  <2>. QED BY <1>1, <1>2, <1>4, <2>4, <2>6, <2>7 DEF Sound, p
<1>5. CASE d.period2 = 0 /\ d.period = 0
  <2>1. Mode(d) = "global"
    BY <1>2, <1>5 DEF Mode
  <2>2. t.global = Append(all, v) /\ t.last = 0
    BY <1>5, <2>1 DEF Tells, Sound
  <2>. QED BY <1>1, <1>2, <1>5, <2>2 DEF Sound
<1>. QED BY <1>3, <1>4, <1>5

LEMMA CutIs ==
  ASSUME NEW s \in Seq(Numbered)
  PROVE  /\ Cut(s) \in Seq(Numbered)
         /\ Len(Cut(s)) = (IF Len(s) > SeasonMaxHistory THEN SeasonMaxHistory ELSE Len(s))
<1>. DEFINE len == Len(s)
            a   == len - SeasonMaxHistory + 1
<1>1. len \in Nat /\ SeasonMaxHistory \in Nat \ {0}
  BY SeasonalAssumption
<1>2. CASE len > SeasonMaxHistory
  <2>1. Cut(s) = SubSeq(s, a, len)
    BY <1>2 DEF Cut
  <2>2. a \in 1..len + 1 /\ len - a + 1 = SeasonMaxHistory
    <3>. HIDE DEF len
    <3>. QED BY <1>1, <1>2
  <2>3. SubSeq(s, a, len) \in Seq(Numbered) /\ Len(SubSeq(s, a, len)) = SeasonMaxHistory
    BY <1>1, <2>2, SubSeqProperties
  <2>. QED BY <1>2, <2>1, <2>3
<1>3. CASE ~(len > SeasonMaxHistory)
  BY <1>3 DEF Cut
<1>. QED BY <1>2, <1>3

\* How much of the stream is remembered, and when detection was last tried.
Held(m) ==
  /\ m.hist \in Seq(Numbered) /\ m.idx \in Nat /\ m.since \in Nat
  /\ Len(m.hist) = (IF m.idx < SeasonMaxHistory THEN m.idx ELSE SeasonMaxHistory)
Tried(m) ==
  Len(m.hist) > SeasonMinHistory => m.since < (IF m.period = 0 THEN 1 ELSE SeasonRedetect)
PhaseKnown(m) == ~MultiActive(m) => m.last \in {-1, 0} \/ m.last \in DOMAIN m.phases

LEMMA ObservedSeason ==
  ASSUME NEW m, IsModel(m), Held(m), Tried(m), Fits(m),
         NEW told \in Seq(Numbered), NEW all, Sound(m, told, all),
         NEW v \in Numbered, NEW listed \in Seq(Int), NEW second \in Nat,
         RedetectDue(m) /\ second # 0 => second >= 2 /\ 3 * second <= Len(m.hist),
         NEW cands, cands = CandidatePeriods(listed, Len(m.hist)),
         NEW n, Observes(m, n, v, cands, second),
         NEW told1, told1 = (IF <<n.period, n.period2>> # <<m.period, m.period2>>
                             THEN m.hist ELSE told)
  PROVE  /\ Held(n) /\ Tried(n) /\ Fits(n) /\ PhaseKnown(n) /\ n.idx = m.idx + 1
         /\ told1 \in Seq(Numbered) /\ Sound(n, Append(told1, v), Append(all, v))
<1>1. PICK b, d, t :
        /\ Begins(m, b)
        /\ RedetectDue(m) => Detecting(b, d, cands, second)
        /\ ~RedetectDue(m) => d = b
        /\ IsModel(d) /\ Tells(d, t, v) /\ Remembers(t, n, v)
  BY DEF Observes
<1>2. /\ m.hist \in Seq(Numbered) /\ m.idx \in Nat /\ m.since \in Nat /\ Len(m.hist) \in Nat
      /\ Len(m.hist) = (IF m.idx < SeasonMaxHistory THEN m.idx ELSE SeasonMaxHistory)
      /\ SeasonMinHistory \in Nat /\ SeasonRedetect \in Nat \ {0} /\ SeasonMaxHistory \in Nat \ {0}
  BY SeasonalAssumption DEF Held
<1>3. Sound(b, told, all) /\ Fits(b)
  BY <1>1 DEF Begins, Sound, Fits
<1>4. n.period = d.period /\ n.period2 = d.period2 /\ b.period = m.period /\ b.period2 = m.period2
  BY <1>1 DEF Begins, Tells, Remembers
<1>5. b.hist = m.hist
  BY <1>1 DEF Begins
<1>6. Sound(d, told1, all) /\ Fits(d)
  <2>1. CASE RedetectDue(m)
    <3>1. Detecting(b, d, cands, second)
      BY <1>1, <2>1
    <3>2. second # 0 => second >= 2 /\ 3 * second <= Len(b.hist)
      BY <1>5, <2>1
    <3>3. b.hist \in Seq(Numbered) /\ cands = CandidatePeriods(listed, Len(b.hist))
      BY <1>2, <1>5
    <3>4. /\ Sound(d, IF <<d.period, d.period2>> # <<b.period, b.period2>>
                      THEN b.hist ELSE told, all)
          /\ Fits(d)
      BY <1>3, <3>1, <3>2, <3>3, SoundDetected
    <3>. QED BY <1>4, <1>5, <3>4
  <2>2. CASE ~RedetectDue(m)
    <3>1. d = b /\ told1 = told
      BY <1>1, <1>4, <2>2
    <3>. QED BY <1>3, <3>1
  <2>. QED BY <2>1, <2>2
<1>7. told1 \in Seq(Numbered)
  BY <1>2
<1>8. /\ Sound(t, Append(told1, v), Append(all, v))
      /\ ~MultiActive(t) => t.last = 0 \/ t.last \in DOMAIN t.phases
  BY <1>1, <1>6, <1>7, SoundTold
<1>9. Sound(n, Append(told1, v), Append(all, v)) /\ PhaseKnown(n)
  BY <1>1, <1>8 DEF Remembers, Sound, PhaseKnown, MultiActive
<1>10. d.hist = m.hist /\ d.idx = m.idx + 1
  BY <1>1, <1>2 DEF Begins, Detecting
<1>11. d.since = (IF RedetectDue(m) THEN 0 ELSE m.since + 1)
  BY <1>1, <1>2 DEF Begins, Detecting
<1>12. n.hist = Cut(Append(m.hist, v)) /\ n.idx = m.idx + 1 /\ n.since = d.since
  BY <1>1, <1>10 DEF Tells, Remembers
<1>13. /\ n.hist \in Seq(Numbered) /\ Len(n.hist) \in Nat
       /\ Len(n.hist) = (IF Len(m.hist) + 1 > SeasonMaxHistory THEN SeasonMaxHistory
                         ELSE Len(m.hist) + 1)
  <2>1. Append(m.hist, v) \in Seq(Numbered) /\ Len(Append(m.hist, v)) = Len(m.hist) + 1
    BY <1>2
  <2>2. /\ n.hist \in Seq(Numbered)
        /\ Len(n.hist) = (IF Len(m.hist) + 1 > SeasonMaxHistory THEN SeasonMaxHistory
                          ELSE Len(m.hist) + 1)
    BY <1>12, <2>1, CutIs
  <2>. QED BY <2>2
<1>14. Held(n)
  <2>1. n.since \in Nat /\ n.idx \in Nat
    BY <1>2, <1>11, <1>12
  <2>2. Len(n.hist) = (IF n.idx < SeasonMaxHistory THEN n.idx ELSE SeasonMaxHistory)
    BY <1>2, <1>12, <1>13
  <2>. QED BY <1>13, <2>1, <2>2 DEF Held
<1>15. Fits(n)
  <2>1. d.period \in Nat /\ d.period2 \in Nat
    BY <1>6 DEF Sound
  <2>2. Len(m.hist) <= Len(n.hist)
    BY <1>2, <1>13
  <2>. QED BY <1>2, <1>4, <1>6, <1>10, <1>13, <2>1, <2>2 DEF Fits
<1>16. Tried(n)
  <2>1. CASE RedetectDue(m)
    BY <1>2, <1>11, <1>12, <2>1 DEF Tried
  <2>2. CASE ~RedetectDue(m)
    <3>1. n.since = m.since + 1 /\ n.period = m.period
      BY <1>1, <1>4, <1>11, <1>12, <2>2
    <3>2. ASSUME Len(n.hist) > SeasonMinHistory
          PROVE  m.since + 1 < SeasonRedetect /\ m.period # 0
      <4>1. Len(m.hist) >= SeasonMinHistory
        BY <1>2, <1>13, <3>2
      <4>. QED BY <1>2, <2>2, <4>1 DEF RedetectDue
    <3>. QED BY <3>1, <3>2 DEF Tried
  <2>. QED BY <2>1, <2>2
<1>. QED BY <1>7, <1>9, <1>12, <1>14, <1>15, <1>16

-----------------------------------------------------------------------------
SeasonRecord(m, twin, fresh, told, hist) ==
  [m |-> m, twin |-> twin, fresh |-> fresh, told |-> told, hist |-> hist]

SeasonInv ==
  LET m == season.m IN
  /\ season = SeasonRecord(m, season.twin, season.fresh, season.told, season.hist)
  /\ season.told \in Seq(Numbered) /\ season.hist \in Seq(Numbered)
  /\ Twins(m, season.twin)
  /\ season.fresh \/ Agree(m, season.twin)
  /\ Held(m) /\ Tried(m) /\ Fits(m) /\ PhaseKnown(m)
  /\ Sound(m, season.told, season.hist)

LEMMA SeasonStarts == SeasonInit => SeasonInv
<1>. SUFFICES ASSUME SeasonInit PROVE SeasonInv
  OBVIOUS
<1>. DEFINE m == NewSeasonal
<1>1. season = SeasonRecord(m, m, FALSE, <<>>, <<>>)
  BY DEF SeasonInit, SeasonRecord
<1>2. /\ m.hist = <<>> /\ m.idx = 0 /\ m.since = 0 /\ m.period = 0 /\ m.period2 = 0
      /\ m.phases = <<>> /\ m.comps = NoComps /\ m.global = <<>> /\ m.last = -1
  BY DEF NewSeasonal
<1>3. IsModel(m)
  BY DEF IsModel, Fields, NewSeasonal
<1>. HIDE DEF m
<1>4. ~MultiActive(m)
  BY <1>2 DEF MultiActive
<1>5. Twins(m, m) /\ Agree(m, m)
  BY <1>3 DEF Twins, Agree
<1>6. Held(m) /\ Tried(m) /\ Fits(m) /\ PhaseKnown(m)
  BY <1>2, SeasonalAssumption DEF Held, Tried, Fits, PhaseKnown
<1>7. Sound(m, <<>>, <<>>)
  BY <1>2 DEF Sound
<1>8. /\ season.m = m /\ season.twin = m /\ season.told = <<>> /\ season.hist = <<>>
      /\ season = SeasonRecord(season.m, season.twin, season.fresh, season.told, season.hist)
  BY <1>1 DEF SeasonRecord
<1>. QED BY <1>5, <1>6, <1>7, <1>8 DEF SeasonInv

LEMMA SeasonObserved ==
  ASSUME SeasonInv, NEW gap \in Gaps, NEW listed \in FoundPeriods, NEW second \in {0, 2, 3},
         ObserveSeason(gap, listed, second)
  PROVE  SeasonInv'
<1>. DEFINE m == season.m
            twin == season.twin
            v == [n |-> m.idx + 1, bkt |-> IF m.idx = 0 THEN FirstBucket ELSE Last(m.hist).bkt + gap]
            n == SeasonObserve(m, v, listed, second)
            o == SeasonObserve(twin, v, listed, second)
            told1 == IF <<n.period, n.period2>> # <<m.period, m.period2>> THEN m.hist ELSE season.told
            cands == CandidatePeriods(listed, Len(m.hist))
<1>1. /\ season.told \in Seq(Numbered) /\ season.hist \in Seq(Numbered)
      /\ Twins(m, twin) /\ Held(m) /\ Tried(m) /\ Fits(m)
      /\ Sound(m, season.told, season.hist)
  BY DEF SeasonInv
<1>2. season' = SeasonRecord(n, o, FALSE, Append(told1, v), Append(season.hist, v))
  BY DEF ObserveSeason, SeasonRecord
<1>3. RedetectDue(m) /\ second # 0 => CandidatePeriods(<<second>>, Len(m.hist)) # <<>>
  BY DEF ObserveSeason
<1>4. /\ m.hist \in Seq(Numbered) /\ m.idx \in Nat /\ Len(m.hist) \in Nat
      /\ Len(m.hist) = (IF m.idx < SeasonMaxHistory THEN m.idx ELSE SeasonMaxHistory)
  BY <1>1 DEF Held
<1>5. gap \in Int /\ FirstBucket \in Int /\ listed \in Seq(Int) /\ SeasonMaxHistory \in Nat \ {0}
  BY SeasonalAssumption
<1>6. v \in Numbered
  <2>1. ASSUME m.idx # 0 PROVE Last(m.hist).bkt \in Int
    <3>1. Len(m.hist) # 0
      BY <1>4, <1>5, <2>1
    <3>2. m.hist[Len(m.hist)] \in Numbered
      BY <1>4, <3>1
    <3>. QED BY <3>2 DEF Last, Numbered
  <2>2. (IF m.idx = 0 THEN FirstBucket ELSE Last(m.hist).bkt + gap) \in Int
    BY <1>5, <2>1
  <2>. QED BY <1>4, <2>2 DEF Numbered
<1>7. RedetectDue(m) /\ second # 0 => second >= 2 /\ 3 * second <= Len(m.hist)
  <2>. SUFFICES ASSUME RedetectDue(m), second # 0 PROVE second >= 2 /\ 3 * second <= Len(m.hist)
    OBVIOUS
  <2>1. <<second>> \in Seq(Int) /\ Len(<<second>>) = 1 /\ <<second>>[1] = second
    OBVIOUS
  <2>2. CandidatePeriods(<<second>>, Len(m.hist)) # <<>>
    BY <1>3
  <2>3. PICK i \in 1..Len(<<second>>) : <<second>>[i] >= 2 /\ 3 * <<second>>[i] <= Len(m.hist)
    BY <1>4, <2>1, <2>2, CandidateFits
  <2>. QED BY <2>1, <2>3
<1>8. second \in Nat
  OBVIOUS
<1>. HIDE DEF v, m, twin
<1>9. IsModel(m) /\ IsModel(twin) /\ twin.hist = m.hist
  BY <1>1 DEF Twins
<1>10. Observes(m, n, v, cands, second)
  BY <1>9, SeasonObserveIs
<1>11. Observes(twin, o, v, cands, second)
  <2>1. Observes(twin, o, v, CandidatePeriods(listed, Len(twin.hist)), second)
    BY <1>9, SeasonObserveIs
  <2>. QED BY <1>9, <2>1
<1>. HIDE DEF n, o, cands
<1>12. Twins(n, o) /\ Agree(n, o)
  BY <1>1, <1>10, <1>11, TwinsObserve
<1>13. told1 = (IF <<n.period, n.period2>> # <<m.period, m.period2>> THEN m.hist ELSE season.told)
  BY DEF m
<1>. HIDE DEF told1
<1>14. cands = CandidatePeriods(listed, Len(m.hist))
  BY DEF cands
<1>15. /\ Held(n) /\ Tried(n) /\ Fits(n) /\ PhaseKnown(n)
       /\ told1 \in Seq(Numbered) /\ Sound(n, Append(told1, v), Append(season.hist, v))
  BY <1>1, <1>5, <1>6, <1>7, <1>8, <1>9, <1>10, <1>13, <1>14, ObservedSeason
<1>16. Append(told1, v) \in Seq(Numbered) /\ Append(season.hist, v) \in Seq(Numbered)
  BY <1>1, <1>6, <1>15
<1>17. /\ season'.m = n /\ season'.twin = o
       /\ season'.told = Append(told1, v) /\ season'.hist = Append(season.hist, v)
       /\ season' = SeasonRecord(season'.m, season'.twin, season'.fresh, season'.told, season'.hist)
  BY <1>2 DEF SeasonRecord
<1>. QED BY <1>12, <1>15, <1>16, <1>17 DEF SeasonInv

LEMMA RestoredIs ==
  ASSUME NEW m, IsModel(m)
  PROVE  Twins(m, RestoredSeasonal(m)) /\ IsModel(RestoredSeasonal(m))
<1>. DEFINE r == RestoredSeasonal(m)
<1>1. DOMAIN m = Fields
  BY DEF IsModel
<1>2. r = [m EXCEPT !.last = -1, !.expected = 0]
  BY DEF RestoredSeasonal
<1>. HIDE DEF r
<1>3. DOMAIN r = Fields /\ r = [x \in DOMAIN r |-> r[x]]
  BY <1>1, <1>2
<1>4. /\ r.hist = m.hist /\ r.idx = m.idx /\ r.since = m.since
      /\ r.period = m.period /\ r.period2 = m.period2 /\ r.phases = m.phases
      /\ r.comps = m.comps /\ r.resid = m.resid /\ r.global = m.global
  BY <1>1, <1>2 DEF Fields
<1>. QED BY <1>3, <1>4 DEF Twins, IsModel, r

LEMMA SeasonKeeps == SeasonInv /\ [SeasonNext]_seasonVars => SeasonInv'
<1>. SUFFICES ASSUME SeasonInv, [SeasonNext]_seasonVars PROVE SeasonInv'
  OBVIOUS
<1>1. CASE \E gap \in Gaps, listed \in FoundPeriods, second \in {0, 2, 3} :
             ObserveSeason(gap, listed, second)
  BY <1>1, SeasonObserved
<1>2. CASE RestoreSeason
  <2>. DEFINE m == season.m
              r == RestoredSeasonal(m)
  <2>1. season = SeasonRecord(m, season.twin, season.fresh, season.told, season.hist)
    BY DEF SeasonInv
  <2>2. season' = [season EXCEPT !.twin = r, !.fresh = TRUE]
    BY <1>2 DEF RestoreSeason
  <2>3. IsModel(m)
    BY DEF SeasonInv, Twins
  <2>. HIDE DEF r
  <2>4. season' = SeasonRecord(m, r, TRUE, season.told, season.hist)
    BY <2>1, <2>2 DEF SeasonRecord
  <2>5. /\ season'.m = m /\ season'.twin = r /\ season'.fresh
        /\ season'.told = season.told /\ season'.hist = season.hist
        /\ season' = SeasonRecord(season'.m, season'.twin, season'.fresh, season'.told, season'.hist)
    BY <2>4 DEF SeasonRecord
  <2>6. Twins(m, r)
    BY <2>3, RestoredIs DEF r
  <2>. QED BY <2>5, <2>6 DEF SeasonInv
<1>3. CASE UNCHANGED seasonVars
  BY <1>3 DEF seasonVars, SeasonInv
<1>. QED BY <1>1, <1>2, <1>3 DEF SeasonNext

LEMMA SeasonTold == SeasonInv => ToldOnce
<1>. SUFFICES ASSUME SeasonInv PROVE ToldOnce
  OBVIOUS
<1>. DEFINE m == season.m
            told == season.told
<1>1. Sound(m, told, season.hist) /\ told \in Seq(Numbered)
  BY DEF SeasonInv
<1>. HIDE DEF m, told
<1>2. MultiActive(m) <=> m.period2 # 0
  BY <1>1 DEF Sound, MultiActive
<1>3. ASSUME MultiActive(m) PROVE m.resid = [i \in DOMAIN told |-> [v |-> told[i], less |-> m.comps]]
  BY <1>1, <1>2, <1>3 DEF Sound, Against
<1>4. ASSUME m.period = 0 PROVE m.global = season.hist
  BY <1>1, <1>4 DEF Sound
<1>5. ASSUME ~MultiActive(m), m.period # 0, NEW p \in 0..m.period - 1
      PROVE  m.phases[p + 1] = Subsequence(told, {k \in DOMAIN told : (told[k].bkt - p) % m.period = 0})
  <2>. DEFINE per == m.period
  <2>1. per \in Nat \ {0} /\ m.phases = PhasesOf(told, per)
    BY <1>1, <1>2, <1>5 DEF Sound
  <2>2. p \in 0..per - 1
    BY <1>5
  <2>. HIDE DEF per
  <2>3. p + 1 \in 1..per /\ (p + 1) - 1 = p
    BY <2>1, <2>2
  <2>4. ASSUME NEW k \in DOMAIN told PROVE (told[k].bkt - p) % per = 0 <=> PhaseOf(told[k].bkt, per) = p
    <3>1. told[k].bkt \in Int
      <4>1. told[k] \in Numbered
        BY <1>1
      <4>. QED BY <4>1 DEF Numbered
    <3>. QED BY <2>1, <2>2, <3>1, RemainderZero DEF PhaseOf
  <2>5. At(told, per, p) = {k \in DOMAIN told : (told[k].bkt - p) % per = 0}
    BY <2>4 DEF At
  <2>6. m.phases[p + 1] = Subsequence(told, At(told, per, p))
    BY <2>1, <2>3 DEF PhasesOf
  <2>. QED BY <2>5, <2>6 DEF per
<1>. QED BY <1>3, <1>4, <1>5 DEF ToldOnce, m, told

LEMMA RestoredAlike ==
  ASSUME NEW m, NEW t, Twins(m, t)
  PROVE  RestoredSeasonal(t) = RestoredSeasonal(m)
<1>. DEFINE r == RestoredSeasonal(m)
            q == RestoredSeasonal(t)
<1>1. DOMAIN m = Fields /\ DOMAIN t = Fields
  BY DEF Twins, IsModel
<1>2. r.last = -1 /\ r.expected = 0 /\ q.last = -1 /\ q.expected = 0
  BY <1>1 DEF RestoredSeasonal, Fields
<1>3. Twins(m, r) /\ Twins(t, q)
  BY RestoredIs DEF Twins
<1>. HIDE DEF r, q
<1>4. \A x \in Fields : q[x] = r[x]
  BY <1>2, <1>3 DEF Twins, Fields
<1>5. r = [x \in Fields |-> r[x]] /\ q = [x \in Fields |-> q[x]]
  BY <1>3 DEF Twins, IsModel
<1>. QED BY <1>4, <1>5 DEF r, q

LEMMA SeasonTells == SeasonInv => ToldOnce /\ SeasonResumes /\ DetectionRecurs
<1>. SUFFICES ASSUME SeasonInv PROVE ToldOnce /\ SeasonResumes /\ DetectionRecurs
  OBVIOUS
<1>. DEFINE m == season.m
            t == season.twin
<1>1. /\ Twins(m, t)
      /\ season.fresh \/ Agree(m, t)
      /\ Held(m) /\ Tried(m) /\ Fits(m) /\ PhaseKnown(m)
  BY DEF SeasonInv
<1>2. ToldOnce
  BY SeasonTold
<1>. HIDE DEF m, t
<1>3. ASSUME Agree(m, t) PROVE BoundsFrom(t) = BoundsFrom(m)
  BY <1>1, <1>3 DEF Twins, Agree, BoundsFrom, MultiActive
<1>4. BoundsFrom(m) # <<"a model that is gone">>
  <2>1. BoundsFrom(m) = <<m.expected, m.resid>> \/ BoundsFrom(m) = <<"none">>
        \/ BoundsFrom(m) = <<"global", m.global>> \/ BoundsFrom(m) = <<m.last, m.phases[m.last]>>
    BY <1>1 DEF BoundsFrom, PhaseKnown
  <2>2. <<"none">> # <<"a model that is gone">>
    <3>1. <<"none">>[1] # <<"a model that is gone">>[1]
      OBVIOUS
    <3>. QED BY <3>1
  <2>3. ASSUME NEW x, NEW y PROVE <<x, y>> # <<"a model that is gone">>
    <3>1. DOMAIN <<x, y>> = 1..2 /\ DOMAIN <<"a model that is gone">> = 1..1 /\ 2 \in 1..2 /\ 2 \notin 1..1
      OBVIOUS
    <3>. QED BY <3>1
  <2>. QED BY <2>1, <2>2, <2>3
<1>5. RestoredSeasonal(t) = RestoredSeasonal(m)
  BY <1>1, RestoredAlike
<1>6. SeasonResumes
  BY <1>1, <1>3, <1>4, <1>5 DEF SeasonResumes, m, t
<1>7. DetectionRecurs
  BY <1>1 DEF DetectionRecurs, Held, Tried, Fits, m
<1>. QED BY <1>2, <1>6, <1>7

-----------------------------------------------------------------------------
(* The engine (Emission).                                                  *)

\* Engines, as functions of their fields.
EngineFields == {"models", "rare", "known", "scores", "feedback", "threshold", "rawMax", "warm",
                 "spot"}
IsEngine(e) == e = [x \in EngineFields |-> e[x]]

\* Engines that have learned the same, but for the largest score of a bucket.
Learners(a, b) ==
  /\ IsEngine(a) /\ IsEngine(b)
  /\ b.models = a.models /\ b.rare = a.rare /\ b.known = a.known /\ b.scores = a.scores
  /\ b.threshold = a.threshold /\ b.warm = a.warm /\ b.spot = a.spot
Alike(a, b) == Learners(a, b) /\ b.rawMax = a.rawMax

\* Scoring leaves the reports and the threshold alone.
Keeps(a, b) == b.feedback = a.feedback /\ b.threshold = a.threshold

\* A record that is not renormalized yet.
RecordFields == {"det", "series", "time", "actual", "typical", "score", "sev", "infl", "initial"}
IsRecord(r) == DOMAIN r = RecordFields /\ r = [x \in RecordFields |-> r[x]] /\ r.initial = 0

LEMMA RecordMade ==
  ASSUME NEW d, NEW t, NEW o, NEW j
  PROVE  /\ IsRecord(RecordOf(d, t, o, j))
         /\ RecordOf(d, t, o, j).det = d.id /\ RecordOf(d, t, o, j).score = j.score
BY DEF RecordOf, IsRecord, RecordFields

\* Records of a detector that reach the threshold.
Offers(off, d, thr) == \A r \in off : r.det = d.id /\ r.score >= thr /\ IsRecord(r)
Passed(e, d, off) == {r \in off : Emitted(e, d, r)}

\* What a detector makes of a bucket: the same models for alike engines, and
\* the same records but for what each of them silences.
ScoredAs(a, b, m, n, d) ==
  /\ Alike(m.e, n.e) /\ Keeps(a.e, m.e) /\ Keeps(b.e, n.e)
  /\ \E off : /\ Offers(off, d, a.e.threshold)
              /\ m.recs = a.recs \cup Passed(a.e, d, off)
              /\ n.recs = b.recs \cup Passed(b.e, d, off)

ModelsAfter(models, obs) ==
  [k \in {o.key : o \in obs} |-> Lookup(models, k, <<>>) \o
             LearnedInOrder({o \in obs : o.key = k /\ o.learn})] @@ models
KnownAfterwards(known, d, obs) ==
  IF CountFamilySplit(d)
  THEN Put(known, d.id, Lookup(known, d.id, {}) \cup {o.series : o \in obs}) ELSE known
Offered(thr, d, t, judged, bars) ==
  {RecordOf(d, t, o, judged[o]) :
     o \in {x \in DOMAIN judged : judged[x].score >= thr /\ PassesBar(bars, x, judged[x].score)}}

Takes(a, n, d, t, judged, bars) ==
  /\ IsEngine(n.e) /\ Keeps(a.e, n.e)
  /\ n.e.models = ModelsAfter(a.e.models, DOMAIN judged)
  /\ n.e.known = KnownAfterwards(a.e.known, d, DOMAIN judged)
  /\ n.e.scores = bars /\ n.e.rawMax = RawMax(a.e.rawMax, {judged[o].score : o \in DOMAIN judged})
  /\ n.e.rare = a.e.rare /\ n.e.warm = a.e.warm /\ n.e.spot = a.e.spot
  /\ n.recs = a.recs \cup Passed(a.e, d, Offered(a.e.threshold, d, t, judged, bars))

LEMMA TakesScores ==
  ASSUME NEW a, IsEngine(a.e), NEW d, NEW t, NEW judged, NEW bars
  PROVE  Takes(a, TakeScores(a, d, t, judged, bars), d, t, judged, bars)
<1>. DEFINE n == TakeScores(a, d, t, judged, bars)
            models == ModelsAfter(a.e.models, DOMAIN judged)
            known == KnownAfterwards(a.e.known, d, DOMAIN judged)
            raw == RawMax(a.e.rawMax, {judged[o].score : o \in DOMAIN judged})
            e == [a.e EXCEPT !.models = models, !.known = known, !.scores = bars, !.rawMax = raw]
            recs == a.recs \cup Passed(a.e, d, Offered(a.e.threshold, d, t, judged, bars))
<1>1. n = [e |-> e, recs |-> recs]
  BY DEF TakeScores, ModelsAfter, KnownAfterwards, Passed, Offered
<1>2. DOMAIN a.e = EngineFields
  BY DEF IsEngine
<1>. HIDE DEF n, models, known, raw, recs
<1>3. DOMAIN e = EngineFields /\ e = [x \in DOMAIN e |-> e[x]]
  BY <1>2
<1>4. /\ e.models = models /\ e.known = known /\ e.scores = bars /\ e.rawMax = raw
      /\ e.rare = a.e.rare /\ e.warm = a.e.warm /\ e.spot = a.e.spot
      /\ e.feedback = a.e.feedback /\ e.threshold = a.e.threshold
  BY <1>2 DEF EngineFields
<1>. HIDE DEF e
<1>5. n.e = e /\ n.recs = recs
  BY <1>1
<1>. QED BY <1>3, <1>4, <1>5 DEF Takes, Keeps, IsEngine, n, models, known, raw, recs

LEMMA SeriesScored ==
  ASSUME NEW a, NEW b, Alike(a.e, b.e), NEW d, NEW t, NEW pts
  PROVE  ScoredAs(a, b, ScoreSeries(a, d, t, pts), ScoreSeries(b, d, t, pts), d)
<1>. DEFINE obs == Observations(a.e.known, d, t, pts)
            judged == JudgedBy(a.e.models, obs)
            bars == AdaptiveScores(a.e.scores, a.e.threshold, d, judged)
            m == TakeScores(a, d, t, judged, bars)
            n == TakeScores(b, d, t, judged, bars)
            off == Offered(a.e.threshold, d, t, judged, bars)
<1>1. /\ IsEngine(a.e) /\ IsEngine(b.e)
      /\ b.e.models = a.e.models /\ b.e.known = a.e.known /\ b.e.scores = a.e.scores
      /\ b.e.threshold = a.e.threshold /\ b.e.rawMax = a.e.rawMax
      /\ b.e.rare = a.e.rare /\ b.e.warm = a.e.warm /\ b.e.spot = a.e.spot
  BY DEF Alike, Learners
<1>2. ScoreSeries(a, d, t, pts) = m
  BY DEF ScoreSeries, ScoreJudged
<1>3. ScoreSeries(b, d, t, pts) = n
  BY <1>1 DEF ScoreSeries, ScoreJudged
<1>. HIDE DEF judged, bars, obs
<1>4. Takes(a, m, d, t, judged, bars) /\ Takes(b, n, d, t, judged, bars)
  BY <1>1, TakesScores
<1>5. Offers(off, d, a.e.threshold)
  BY RecordMade DEF Offers, Offered
<1>. HIDE DEF m, n
<1>6. Alike(m.e, n.e) /\ Keeps(a.e, m.e) /\ Keeps(b.e, n.e)
  BY <1>1, <1>4 DEF Takes, Alike, Learners, Keeps
<1>7. m.recs = a.recs \cup Passed(a.e, d, off) /\ n.recs = b.recs \cup Passed(b.e, d, off)
  BY <1>1, <1>4 DEF Takes
<1>. HIDE DEF off
<1>. QED BY <1>2, <1>3, <1>5, <1>6, <1>7 DEF ScoredAs

\* Rare values.
RareRecords(d, t, tr, pts) ==
  {RareRecord(d, t, tr, v, pts) : v \in {w \in RarePresent(pts) : IsRare(tr, w)}}

TakesRare(a, n, d, t, pts, tr) ==
  LET recs == RareRecords(d, t, tr, pts) IN
  /\ IsEngine(n.e) /\ Keeps(a.e, n.e)
  /\ n.e.rare = Put(a.e.rare, d.id, tr) /\ n.e.rawMax = RawMax(a.e.rawMax, {r.score : r \in recs})
  /\ n.e.models = a.e.models /\ n.e.known = a.e.known /\ n.e.scores = a.e.scores
  /\ n.e.warm = a.e.warm /\ n.e.spot = a.e.spot
  /\ n.recs = a.recs \cup Passed(a.e, d, {r \in recs : r.score >= a.e.threshold})

LEMMA TakesRareScores ==
  ASSUME NEW a, IsEngine(a.e), NEW d, NEW t, NEW pts,
         NEW tr, tr = RareTracked(Lookup(a.e.rare, d.id, NewTracker), RarePresent(pts))
  PROVE  TakesRare(a, ScoreRare(a, d, t, pts), d, t, pts, tr)
<1>. DEFINE n == ScoreRare(a, d, t, pts)
            recs == RareRecords(d, t, tr, pts)
            raw == RawMax(a.e.rawMax, {r.score : r \in recs})
            rare == Put(a.e.rare, d.id, tr)
            e == [a.e EXCEPT !.rare = rare, !.rawMax = raw]
            all == a.recs \cup Passed(a.e, d, {r \in recs : r.score >= a.e.threshold})
<1>1. n = [e |-> e, recs |-> a.recs \cup {r \in recs : r.score >= a.e.threshold /\ Emitted(a.e, d, r)}]
  BY DEF ScoreRare, RareRecords
<1>2. {r \in recs : r.score >= a.e.threshold /\ Emitted(a.e, d, r)}
        = Passed(a.e, d, {r \in recs : r.score >= a.e.threshold})
  <2>. HIDE DEF recs
  <2>. QED BY DEF Passed
<1>3. DOMAIN a.e = EngineFields
  BY DEF IsEngine
<1>. HIDE DEF n, recs, raw, rare
<1>4. DOMAIN e = EngineFields /\ e = [x \in DOMAIN e |-> e[x]]
  BY <1>3
<1>5. /\ e.rare = rare /\ e.rawMax = raw
      /\ e.models = a.e.models /\ e.known = a.e.known /\ e.scores = a.e.scores
      /\ e.warm = a.e.warm /\ e.spot = a.e.spot
      /\ e.feedback = a.e.feedback /\ e.threshold = a.e.threshold
  BY <1>3 DEF EngineFields
<1>. HIDE DEF e
<1>6. n.e = e /\ n.recs = all
  BY <1>1, <1>2
<1>. QED BY <1>4, <1>5, <1>6 DEF TakesRare, Keeps, IsEngine, n, recs, raw, rare

LEMMA RareScored ==
  ASSUME NEW a, NEW b, Alike(a.e, b.e), NEW d, NEW t, NEW pts
  PROVE  ScoredAs(a, b, ScoreRare(a, d, t, pts), ScoreRare(b, d, t, pts), d)
<1>. DEFINE m == ScoreRare(a, d, t, pts)
            n == ScoreRare(b, d, t, pts)
<1>1. /\ IsEngine(a.e) /\ IsEngine(b.e)
      /\ b.e.models = a.e.models /\ b.e.known = a.e.known /\ b.e.scores = a.e.scores
      /\ b.e.threshold = a.e.threshold /\ b.e.rawMax = a.e.rawMax
      /\ b.e.rare = a.e.rare /\ b.e.warm = a.e.warm /\ b.e.spot = a.e.spot
  BY DEF Alike, Learners
<1>2. PICK tr : tr = RareTracked(Lookup(a.e.rare, d.id, NewTracker), RarePresent(pts))
  OBVIOUS
<1>3. TakesRare(a, m, d, t, pts, tr) /\ TakesRare(b, n, d, t, pts, tr)
  BY <1>1, <1>2, TakesRareScores
<1>. HIDE DEF m, n
<1>. DEFINE recs == RareRecords(d, t, tr, pts)
            off == {r \in recs : r.score >= a.e.threshold}
<1>4. Offers(off, d, a.e.threshold)
  <2>1. ASSUME NEW r \in recs PROVE r.det = d.id /\ IsRecord(r)
    <3>1. PICK v : r = RareRecord(d, t, tr, v, pts)
      BY DEF RareRecords
    <3>. QED BY <3>1, RecordMade DEF RareRecord
  <2>. HIDE DEF recs
  <2>. QED BY <2>1 DEF Offers
<1>5. Alike(m.e, n.e) /\ Keeps(a.e, m.e) /\ Keeps(b.e, n.e)
  BY <1>1, <1>3 DEF TakesRare, Alike, Learners, Keeps
<1>6. m.recs = a.recs \cup Passed(a.e, d, off) /\ n.recs = b.recs \cup Passed(b.e, d, off)
  BY <1>1, <1>3 DEF TakesRare
<1>. HIDE DEF off
<1>. QED BY <1>4, <1>5, <1>6 DEF ScoredAs, m, n

LEMMA OneScored ==
  ASSUME NEW a, NEW b, Alike(a.e, b.e), NEW d, NEW t, NEW pts
  PROVE  ScoredAs(a, b, ScoreOne(a, d, t, pts), ScoreOne(b, d, t, pts), d)
BY SeriesScored, RareScored DEF ScoreOne

\* The detectors of a bucket, one after the other.
Started(e) == [e |-> Opened(e), recs |-> {}]
IsScan(g, n, e, t, pts) ==
  g = [i \in 0..n |-> IF i = 0 THEN Started(e) ELSE ScoreOne(g[i - 1], Detectors[i], t, pts)]

LEMMA ScanExists ==
  ASSUME NEW e, NEW t, NEW pts, NEW n \in Nat
  PROVE  \E g : IsScan(g, n, e, t, pts)
<1>. DEFINE Bad == {i \in Nat : ~ \E g : IsScan(g, i, e, t, pts)}
<1>1. Bad = {}
  <2>. SUFFICES ASSUME Bad # {} PROVE FALSE
    OBVIOUS
  <2>1. PICK i \in Bad : \A j \in Bad : i <= j
    <3>. HIDE DEF Bad
    <3>1. Bad \subseteq Nat
      BY DEF Bad
    <3>. QED BY <3>1, LeastNumber
  <2>2. i \in Nat /\ ~ \E g : IsScan(g, i, e, t, pts)
    BY <2>1
  <2>3. CASE i = 0
    <3>. DEFINE g == [j \in 0..0 |-> Started(e)]
    <3>1. g = [j \in 0..0 |-> IF j = 0 THEN Started(e) ELSE ScoreOne(g[j - 1], Detectors[j], t, pts)]
      OBVIOUS
    <3>. QED BY <2>2, <2>3, <3>1 DEF IsScan
  <2>4. CASE i # 0
    <3>. DEFINE p == i - 1
    <3>1. p \in Nat /\ p + 1 = i /\ p \notin Bad
      BY <2>1, <2>2, <2>4
    <3>2. PICK g : IsScan(g, p, e, t, pts)
      BY <3>1
    <3>. HIDE DEF p, Bad
    <3>. DEFINE latest == ScoreOne(g[p], Detectors[i], t, pts)
                h == [j \in 0..i |-> IF j = i THEN latest ELSE g[j]]
    <3>3. \A j \in 0..p : g[j] = IF j = 0 THEN Started(e) ELSE ScoreOne(g[j - 1], Detectors[j], t, pts)
      BY <3>2 DEF IsScan
    <3>4. ASSUME NEW j \in 0..i
          PROVE  h[j] = IF j = 0 THEN Started(e) ELSE ScoreOne(h[j - 1], Detectors[j], t, pts)
      <4>1. CASE j = i
        <5>1. j # 0 /\ j - 1 = p /\ p \in 0..i /\ p # i
          BY <2>4, <3>1, <4>1
        <5>2. h[p] = g[p] /\ h[j] = latest
          BY <4>1, <5>1
        <5>. HIDE DEF h
        <5>. QED BY <4>1, <5>1, <5>2
      <4>2. CASE j # i /\ j # 0
        <5>1. j \in 0..p /\ j - 1 \in 0..i /\ j - 1 # i
          BY <3>1, <4>2
        <5>2. h[j] = g[j] /\ h[j - 1] = g[j - 1]
          BY <4>2, <5>1
        <5>. HIDE DEF h
        <5>. QED BY <3>3, <4>2, <5>1, <5>2
      <4>3. CASE j # i /\ j = 0
        <5>1. j \in 0..p
          BY <3>1, <4>3
        <5>2. h[j] = g[j]
          BY <4>3
        <5>. HIDE DEF h
        <5>. QED BY <3>3, <4>3, <5>1, <5>2
      <4>. QED BY <4>1, <4>2, <4>3
    <3>5. h = [j \in 0..i |-> h[j]]
      OBVIOUS
    <3>. HIDE DEF h
    <3>6. h = [j \in 0..i |-> IF j = 0 THEN Started(e) ELSE ScoreOne(h[j - 1], Detectors[j], t, pts)]
      BY <3>4, <3>5
    <3>. QED BY <2>2, <3>6 DEF IsScan
  <2>. QED BY <2>3, <2>4
<1>. QED BY <1>1

\* What two engines with the same reports of nothing but their own make of it.
Speaks(feedback, thr, r) ==
  LET less == Min({PenaltyMax, PenaltyStep * Lookup(feedback, <<r.det, r.series>>, 0)}) IN
  /\ r.score >= thr
  /\ less > 0 => r.score >= thr + less

SameButSilenced(a, b, m, n) ==
  /\ Alike(m.e, n.e) /\ Keeps(a, m.e) /\ Keeps(b, n.e)
  /\ b.feedback = Empty => m.recs = {r \in n.recs : Speaks(a.feedback, a.threshold, r)}
  /\ \A r \in n.recs : IsRecord(r)

LEMMA NoPenalty ==
  ASSUME NEW e, e.feedback = Empty, NEW d, NEW series
  PROVE  ~(Penalty(e, d, series) > 0)
<1>1. Lookup(e.feedback, <<d.id, series>>, 0) = 0
  BY DEF Lookup, Empty
<1>2. PenaltyStep * 0 = 0 /\ 0 \in Int /\ PenaltyMax \in Int /\ PenaltyMax >= 0
  BY PenaltyAssumption
<1>3. Min({PenaltyMax, 0}) = 0
  BY <1>2 DEF Min
<1>4. Penalty(e, d, series) = 0
  BY <1>1, <1>2, <1>3 DEF Penalty
<1>. QED BY <1>4

LEMMA OneMore ==
  ASSUME NEW a, NEW b, NEW x, NEW y, SameButSilenced(a, b, x, y), NEW d,
         NEW m, NEW n, ScoredAs(x, y, m, n, d)
  PROVE  SameButSilenced(a, b, m, n)
<1>1. PICK off : /\ Offers(off, d, x.e.threshold)
                 /\ m.recs = x.recs \cup Passed(x.e, d, off)
                 /\ n.recs = y.recs \cup Passed(y.e, d, off)
  BY DEF ScoredAs
<1>2. /\ x.e.feedback = a.feedback /\ x.e.threshold = a.threshold
      /\ y.e.feedback = b.feedback /\ y.e.threshold = b.threshold
      /\ Alike(m.e, n.e) /\ Keeps(a, m.e) /\ Keeps(b, n.e)
  BY DEF SameButSilenced, ScoredAs, Keeps
<1>3. ASSUME b.feedback = Empty PROVE m.recs = {r \in n.recs : Speaks(a.feedback, a.threshold, r)}
  <2>1. x.recs = {r \in y.recs : Speaks(a.feedback, a.threshold, r)}
    BY <1>3 DEF SameButSilenced
  <2>2. ASSUME NEW r \in off
        PROVE  Emitted(x.e, d, r) <=> Emitted(y.e, d, r) /\ Speaks(a.feedback, a.threshold, r)
    <3>1. r.det = d.id /\ r.score >= a.threshold
      BY <1>1, <1>2 DEF Offers
    <3>2. Emitted(y.e, d, r) <=> ~IsSuppressed(JobCalendars, d.rules, r)
      BY <1>2, <1>3, NoPenalty DEF Emitted
    <3>3. Penalty(x.e, d, r.series)
            = Min({PenaltyMax, PenaltyStep * Lookup(a.feedback, <<r.det, r.series>>, 0)})
      BY <1>2, <3>1 DEF Penalty
    <3>4. Emitted(x.e, d, r) <=> /\ ~IsSuppressed(JobCalendars, d.rules, r)
                                 /\ Speaks(a.feedback, a.threshold, r)
      BY <1>2, <3>1, <3>3 DEF Emitted, Speaks
    <3>. QED BY <3>2, <3>4
  <2>. QED BY <1>1, <2>1, <2>2 DEF Passed
<1>4. \A r \in n.recs : IsRecord(r)
  BY <1>1 DEF SameButSilenced, Passed, Offers
<1>. QED BY <1>2, <1>3, <1>4 DEF SameButSilenced

LEMMA ScanAlike ==
  ASSUME NEW a, NEW b, Alike(Opened(a), Opened(b)), Keeps(a, Opened(a)), Keeps(b, Opened(b)),
         NEW t, NEW pts, NEW n \in Nat,
         NEW g, IsScan(g, n, a, t, pts), NEW h, IsScan(h, n, b, t, pts)
  PROVE  SameButSilenced(a, b, g[n], h[n])
<1>. DEFINE Bad == {i \in 0..n : ~SameButSilenced(a, b, g[i], h[i])}
<1>1. \A i \in 0..n : /\ g[i] = IF i = 0 THEN Started(a) ELSE ScoreOne(g[i - 1], Detectors[i], t, pts)
                      /\ h[i] = IF i = 0 THEN Started(b) ELSE ScoreOne(h[i - 1], Detectors[i], t, pts)
  BY DEF IsScan
<1>2. Bad = {}
  <2>. SUFFICES ASSUME Bad # {} PROVE FALSE
    OBVIOUS
  <2>1. PICK i \in Bad : \A j \in Bad : i <= j
    <3>. HIDE DEF Bad
    <3>1. Bad \subseteq Nat
      BY DEF Bad
    <3>. QED BY <3>1, LeastNumber
  <2>2. i \in 0..n /\ ~SameButSilenced(a, b, g[i], h[i])
    BY <2>1
  <2>3. CASE i = 0
    <3>1. g[i] = Started(a) /\ h[i] = Started(b)
      BY <1>1, <2>2, <2>3
    <3>2. Started(a).e = Opened(a) /\ Started(b).e = Opened(b) /\ Started(a).recs = {} /\ Started(b).recs = {}
      BY DEF Started
    <3>. QED BY <2>2, <3>1, <3>2 DEF SameButSilenced
  <2>4. CASE i # 0
    <3>. DEFINE p == i - 1
    <3>1. p \in 0..n /\ p \notin Bad
      BY <2>1, <2>2, <2>4
    <3>2. SameButSilenced(a, b, g[p], h[p])
      BY <3>1
    <3>3. g[i] = ScoreOne(g[p], Detectors[i], t, pts) /\ h[i] = ScoreOne(h[p], Detectors[i], t, pts)
      BY <1>1, <2>2, <2>4
    <3>. HIDE DEF p
    <3>4. Alike(g[p].e, h[p].e)
      BY <3>2 DEF SameButSilenced
    <3>5. ScoredAs(g[p], h[p], g[i], h[i], Detectors[i])
      BY <3>3, <3>4, OneScored
    <3>. QED BY <2>2, <3>2, <3>5, OneMore
  <2>. QED BY <2>3, <2>4
<1>. QED BY <1>2

LEMMA EngineOpened ==
  ASSUME NEW a, IsEngine(a)
  PROVE  /\ IsEngine(Opened(a)) /\ Learners(a, Opened(a)) /\ Keeps(a, Opened(a))
         /\ Opened(a).rawMax = 0
<1>1. DOMAIN a = EngineFields
  BY DEF IsEngine
<1>. DEFINE e == [a EXCEPT !.rawMax = 0]
<1>2. DOMAIN e = EngineFields /\ e = [x \in DOMAIN e |-> e[x]]
  BY <1>1
<1>3. /\ e.models = a.models /\ e.rare = a.rare /\ e.known = a.known /\ e.scores = a.scores
      /\ e.threshold = a.threshold /\ e.warm = a.warm /\ e.spot = a.spot
      /\ e.feedback = a.feedback /\ e.rawMax = 0
  BY <1>1 DEF EngineFields
<1>4. Opened(a) = e
  BY DEF Opened
<1>. HIDE DEF e
<1>. QED BY <1>2, <1>3, <1>4 DEF IsEngine, Learners, Keeps

LEMMA ScanOfBucket ==
  ASSUME NEW e, NEW t, NEW pts
  PROVE  IF InCalendar(JobCalendars, t) THEN ScoreBucket(e, t, pts) = Started(e)
         ELSE \E g : /\ IsScan(g, Len(Detectors), e, t, pts)
                     /\ ScoreBucket(e, t, pts) = g[Len(Detectors)]
<1>. DEFINE g == CHOOSE x : IsScan(x, Len(Detectors), e, t, pts)
<1>1. IsScan(g, Len(Detectors), e, t, pts)
  BY ScanExists, DetectorsAssumption
<1>2. ScoreBucket(e, t, pts) = IF InCalendar(JobCalendars, t) THEN Started(e) ELSE g[Len(Detectors)]
  BY DEF ScoreBucket, IsScan, Started
<1>. HIDE DEF g
<1>. QED BY <1>1, <1>2

LEMMA BucketScored ==
  ASSUME NEW a, NEW b, Learners(a, b), NEW t, NEW pts
  PROVE  SameButSilenced(a, b, ScoreBucket(a, t, pts), ScoreBucket(b, t, pts))
<1>1. IsEngine(a) /\ IsEngine(b)
  BY DEF Learners
<1>2. Alike(Opened(a), Opened(b)) /\ Keeps(a, Opened(a)) /\ Keeps(b, Opened(b))
  BY <1>1, EngineOpened DEF Learners, Alike
<1>3. CASE InCalendar(JobCalendars, t)
  <2>1. ScoreBucket(a, t, pts) = Started(a) /\ ScoreBucket(b, t, pts) = Started(b)
    BY <1>3, ScanOfBucket
  <2>2. Started(a).e = Opened(a) /\ Started(b).e = Opened(b) /\ Started(a).recs = {} /\ Started(b).recs = {}
    BY DEF Started
  <2>. QED BY <1>2, <2>1, <2>2 DEF SameButSilenced
<1>4. CASE ~InCalendar(JobCalendars, t)
  <2>1. PICK g : /\ IsScan(g, Len(Detectors), a, t, pts)
                 /\ ScoreBucket(a, t, pts) = g[Len(Detectors)]
    BY <1>4, ScanOfBucket
  <2>2. PICK h : /\ IsScan(h, Len(Detectors), b, t, pts)
                 /\ ScoreBucket(b, t, pts) = h[Len(Detectors)]
    BY <1>4, ScanOfBucket
  <2>. QED BY <1>2, <2>1, <2>2, ScanAlike, DetectorsAssumption
<1>. QED BY <1>3, <1>4

\* The learned threshold.
LEMMA ObservedAlike ==
  ASSUME NEW a, NEW b, Alike(a, b)
  PROVE  /\ Alike(ObserveThreshold(a), ObserveThreshold(b))
         /\ ObserveThreshold(a).feedback = a.feedback /\ ObserveThreshold(a).rare = a.rare
         /\ ObserveThreshold(b).feedback = b.feedback
<1>. DEFINE fed   == Append(IF a.spot = <<>> THEN a.warm ELSE a.spot, a.rawMax)
            full  == AutoThreshold.calibration
            ready == a.spot # <<>> \/ (Len(fed) >= full /\ SpotLevel(fed) # NoLimit)
            shed  == IF Len(fed) >= 8 * full THEN LastOf(fed, 4 * full) ELSE fed
            level == Clamp(SpotLevel(fed))
            Fed(e) == [e EXCEPT !.rawMax = 0, !.warm = <<>>, !.spot = fed, !.threshold = level]
            Shed(e) == [e EXCEPT !.rawMax = 0, !.warm = shed]
            Observed(e) == IF ~AutoThreshold.on THEN e ELSE IF ready THEN Fed(e) ELSE Shed(e)
<1>1. /\ IsEngine(a) /\ IsEngine(b)
      /\ b.models = a.models /\ b.known = a.known /\ b.scores = a.scores
      /\ b.threshold = a.threshold /\ b.rawMax = a.rawMax
      /\ b.rare = a.rare /\ b.warm = a.warm /\ b.spot = a.spot
  BY DEF Alike, Learners
<1>2. ObserveThreshold(a) = Observed(a)
  BY DEF ObserveThreshold
<1>3. ObserveThreshold(b) = Observed(b)
  BY <1>1 DEF ObserveThreshold
<1>. HIDE DEF fed, ready, shed, level, full
<1>4. DOMAIN a = EngineFields /\ DOMAIN b = EngineFields
  BY <1>1 DEF IsEngine
<1>5. Alike(Fed(a), Fed(b)) /\ Fed(a).feedback = a.feedback /\ Fed(a).rare = a.rare /\ Fed(b).feedback = b.feedback
  <2>1. ASSUME NEW e, DOMAIN e = EngineFields
        PROVE  /\ IsEngine(Fed(e)) /\ Fed(e).feedback = e.feedback
               /\ Fed(e).models = e.models /\ Fed(e).known = e.known /\ Fed(e).scores = e.scores
               /\ Fed(e).rare = e.rare /\ Fed(e).threshold = level /\ Fed(e).rawMax = 0
               /\ Fed(e).warm = <<>> /\ Fed(e).spot = fed
    <3>1. DOMAIN Fed(e) = EngineFields /\ Fed(e) = [x \in DOMAIN Fed(e) |-> Fed(e)[x]]
      BY <2>1
    <3>2. /\ Fed(e).feedback = e.feedback
          /\ Fed(e).models = e.models /\ Fed(e).known = e.known /\ Fed(e).scores = e.scores
          /\ Fed(e).rare = e.rare /\ Fed(e).threshold = level /\ Fed(e).rawMax = 0
          /\ Fed(e).warm = <<>> /\ Fed(e).spot = fed
      BY <2>1 DEF EngineFields
    <3>. QED BY <3>1, <3>2 DEF IsEngine
  <2>2. PICK f : f = Fed(a)
    OBVIOUS
  <2>3. PICK g : g = Fed(b)
    OBVIOUS
  <2>4. /\ IsEngine(f) /\ f.feedback = a.feedback
        /\ f.models = a.models /\ f.known = a.known /\ f.scores = a.scores
        /\ f.rare = a.rare /\ f.threshold = level /\ f.rawMax = 0
        /\ f.warm = <<>> /\ f.spot = fed
    BY <1>4, <2>1, <2>2
  <2>5. /\ IsEngine(g) /\ g.feedback = b.feedback
        /\ g.models = b.models /\ g.known = b.known /\ g.scores = b.scores
        /\ g.rare = b.rare /\ g.threshold = level /\ g.rawMax = 0
        /\ g.warm = <<>> /\ g.spot = fed
    BY <1>4, <2>1, <2>3
  <2>. HIDE DEF Fed
  <2>. QED BY <1>1, <2>2, <2>3, <2>4, <2>5 DEF Alike, Learners
<1>6. Alike(Shed(a), Shed(b)) /\ Shed(a).feedback = a.feedback /\ Shed(a).rare = a.rare /\ Shed(b).feedback = b.feedback
  <2>1. ASSUME NEW e, DOMAIN e = EngineFields
        PROVE  /\ IsEngine(Shed(e)) /\ Shed(e).feedback = e.feedback
               /\ Shed(e).models = e.models /\ Shed(e).known = e.known /\ Shed(e).scores = e.scores
               /\ Shed(e).rare = e.rare /\ Shed(e).threshold = e.threshold /\ Shed(e).rawMax = 0
               /\ Shed(e).warm = shed /\ Shed(e).spot = e.spot
    <3>1. DOMAIN Shed(e) = EngineFields /\ Shed(e) = [x \in DOMAIN Shed(e) |-> Shed(e)[x]]
      BY <2>1
    <3>2. /\ Shed(e).feedback = e.feedback
          /\ Shed(e).models = e.models /\ Shed(e).known = e.known /\ Shed(e).scores = e.scores
          /\ Shed(e).rare = e.rare /\ Shed(e).threshold = e.threshold /\ Shed(e).rawMax = 0
          /\ Shed(e).warm = shed /\ Shed(e).spot = e.spot
      BY <2>1 DEF EngineFields
    <3>. QED BY <3>1, <3>2 DEF IsEngine
  <2>2. PICK f : f = Shed(a)
    OBVIOUS
  <2>3. PICK g : g = Shed(b)
    OBVIOUS
  <2>4. /\ IsEngine(f) /\ f.feedback = a.feedback
        /\ f.models = a.models /\ f.known = a.known /\ f.scores = a.scores
        /\ f.rare = a.rare /\ f.threshold = a.threshold /\ f.rawMax = 0
        /\ f.warm = shed /\ f.spot = a.spot
    BY <1>4, <2>1, <2>2
  <2>5. /\ IsEngine(g) /\ g.feedback = b.feedback
        /\ g.models = b.models /\ g.known = b.known /\ g.scores = b.scores
        /\ g.rare = b.rare /\ g.threshold = b.threshold /\ g.rawMax = 0
        /\ g.warm = shed /\ g.spot = b.spot
    BY <1>4, <2>1, <2>3
  <2>. HIDE DEF Shed
  <2>. QED BY <1>1, <2>2, <2>3, <2>4, <2>5 DEF Alike, Learners
<1>. HIDE DEF Fed, Shed
<1>. QED BY <1>2, <1>3, <1>5, <1>6

\* Reading an open bucket.
LEMMA PeekedAlike ==
  ASSUME NEW a, NEW b, Alike(a, b), NEW t, NEW pts
  PROVE  /\ Alike(Peeked(a, t, pts), Peeked(b, t, pts)) /\ Learners(a, Peeked(a, t, pts))
         /\ Peeked(b, t, pts).feedback = b.feedback
<1>. DEFINE scores == {Judge(a.models[o.key], o.val).score :
                     o \in {x \in UNION {Temporal(Empty, Detectors[i], pts) :
                                           i \in {j \in DOMAIN Detectors : InterimEligible(Detectors[j])}}
                              : x.key \in DOMAIN a.models}}
            raw == RawMax(a.rawMax, scores)
            Read(e) == [e EXCEPT !.rawMax = raw]
<1>1. /\ IsEngine(a) /\ IsEngine(b)
      /\ b.models = a.models /\ b.known = a.known /\ b.scores = a.scores
      /\ b.threshold = a.threshold /\ b.rawMax = a.rawMax
      /\ b.rare = a.rare /\ b.warm = a.warm /\ b.spot = a.spot
  BY DEF Alike, Learners
<1>2. Peeked(a, t, pts) = IF InCalendar(JobCalendars, t) THEN a ELSE Read(a)
  BY DEF Peeked
<1>3. Peeked(b, t, pts) = IF InCalendar(JobCalendars, t) THEN b ELSE Read(b)
  BY <1>1 DEF Peeked
<1>. HIDE DEF raw
<1>4. ASSUME NEW e, IsEngine(e)
      PROVE  /\ IsEngine(Read(e)) /\ Read(e).feedback = e.feedback
             /\ Read(e).models = e.models /\ Read(e).known = e.known /\ Read(e).scores = e.scores
             /\ Read(e).rare = e.rare /\ Read(e).threshold = e.threshold /\ Read(e).rawMax = raw
             /\ Read(e).warm = e.warm /\ Read(e).spot = e.spot
  <2>1. DOMAIN e = EngineFields
    BY <1>4 DEF IsEngine
  <2>2. DOMAIN Read(e) = EngineFields /\ Read(e) = [x \in DOMAIN Read(e) |-> Read(e)[x]]
    BY <2>1
  <2>3. /\ Read(e).feedback = e.feedback
        /\ Read(e).models = e.models /\ Read(e).known = e.known /\ Read(e).scores = e.scores
        /\ Read(e).rare = e.rare /\ Read(e).threshold = e.threshold /\ Read(e).rawMax = raw
        /\ Read(e).warm = e.warm /\ Read(e).spot = e.spot
    BY <2>1 DEF EngineFields
  <2>. QED BY <2>2, <2>3 DEF IsEngine
<1>5. PICK f : f = Read(a)
  OBVIOUS
<1>6. PICK g : g = Read(b)
  OBVIOUS
<1>7. /\ IsEngine(f) /\ f.models = a.models /\ f.known = a.known /\ f.scores = a.scores
      /\ f.rare = a.rare /\ f.threshold = a.threshold /\ f.rawMax = raw
      /\ f.warm = a.warm /\ f.spot = a.spot
  BY <1>1, <1>4, <1>5
<1>8. /\ IsEngine(g) /\ g.models = b.models /\ g.known = b.known /\ g.scores = b.scores
      /\ g.rare = b.rare /\ g.threshold = b.threshold /\ g.rawMax = raw
      /\ g.warm = b.warm /\ g.spot = b.spot /\ g.feedback = b.feedback
  BY <1>1, <1>4, <1>6
<1>. HIDE DEF Read
<1>9. Alike(f, g) /\ Learners(a, f)
  BY <1>1, <1>7, <1>8 DEF Alike, Learners
<1>10. Learners(a, a)
  BY <1>1 DEF Learners
<1>. QED BY <1>2, <1>3, <1>5, <1>6, <1>8, <1>9, <1>10

-----------------------------------------------------------------------------
(* The engine, the one without reports and the one that is never read.     *)
EmissionFields == {"kind", "e", "plain", "unread", "closed", "marks", "peeks", "log", "at", "recs",
                   "plainRecs"}
Silenced(at, recs, plainRecs) == recs = {r \in plainRecs : Speaks(at.feedback, at.threshold, r)}
LearningInv ==
  \/ emission = [kind |-> "none"]
  \/ /\ emission.kind = "engine" /\ DOMAIN emission = EmissionFields
     /\ Alike(emission.e, emission.plain) /\ Learners(emission.e, emission.unread)
     /\ emission.plain.feedback = Empty
     /\ Silenced(emission.at, emission.recs, emission.plainRecs)

LEMMA LearningInit == EmissionInit => LearningInv
BY DEF EmissionInit, LearningInv

LEMMA EngineMade == ASSUME MakeEngine PROVE LearningInv'
<1>. DEFINE new == [kind |-> "engine", e |-> NewEngine, plain |-> NewEngine, unread |-> NewEngine,
                    closed |-> 0, marks |-> 0, peeks |-> 0, log |-> <<>>,
                    at |-> NewEngine, recs |-> {}, plainRecs |-> {}]
<1>1. emission' = new
  BY DEF MakeEngine
<1>2. DOMAIN new = EmissionFields /\ new.kind = "engine" /\ new.e = NewEngine
      /\ new.plain = NewEngine /\ new.unread = NewEngine /\ new.recs = {} /\ new.plainRecs = {}
  BY DEF EmissionFields
<1>3. IsEngine(NewEngine) /\ NewEngine.feedback = Empty
  <2>1. NewEngine.feedback = Empty /\ DOMAIN NewEngine = EngineFields
        /\ NewEngine = [x \in DOMAIN NewEngine |-> NewEngine[x]]
    BY DEF NewEngine, EngineFields
  <2>. HIDE DEF NewEngine
  <2>. QED BY <2>1 DEF IsEngine
<1>4. Learners(NewEngine, NewEngine) /\ Alike(NewEngine, NewEngine)
  BY <1>3 DEF Learners, Alike
<1>. HIDE DEF new
<1>5. emission'.kind = "engine" /\ DOMAIN emission' = EmissionFields
  BY <1>1, <1>2
<1>6. Alike(emission'.e, emission'.plain) /\ Learners(emission'.e, emission'.unread)
      /\ emission'.plain.feedback = Empty
  BY <1>1, <1>2, <1>3, <1>4
<1>7. Silenced(emission'.at, emission'.recs, emission'.plainRecs)
  BY <1>1, <1>2 DEF Silenced
<1>. QED BY <1>5, <1>6, <1>7 DEF LearningInv

LEMMA LearnersOf ==
  ASSUME NEW a, NEW b, NEW c
  PROVE  /\ Alike(a, b) => Learners(a, b)
         /\ Learners(a, b) /\ Learners(a, c) => Learners(b, c)
BY DEF Alike, Learners

LEMMA BucketClosed ==
  ASSUME LearningInv, NEW pts, CloseBucket(pts)
  PROVE  LearningInv'
<1>. DEFINE t == emission.closed
            se == ScoreBucket(emission.e, t, pts)
            sp == ScoreBucket(emission.plain, t, pts)
            su == ScoreBucket(emission.unread, t, pts)
            scored == [x \in {"e", "plain", "unread"} |-> ScoreBucket(emission[x], t, pts)]
<1>1. /\ emission.kind = "engine" /\ DOMAIN emission = EmissionFields
      /\ Alike(emission.e, emission.plain) /\ Learners(emission.e, emission.unread)
      /\ emission.plain.feedback = Empty
  BY DEF CloseBucket, LearningInv
<1>2. TakeOver(pts, scored)
  BY DEF CloseBucket
<1>3. scored.e = se /\ scored.plain = sp /\ scored.unread = su
  OBVIOUS
<1>4. SameButSilenced(emission.e, emission.plain, se, sp)
  BY <1>1, BucketScored, LearnersOf
<1>5. SameButSilenced(emission.e, emission.unread, se, su)
  BY <1>1, BucketScored
<1>. HIDE DEF se, sp, su, scored, t
<1>6. emission' = [emission EXCEPT
        !.e = ObserveThreshold(se.e), !.plain = ObserveThreshold(sp.e),
        !.unread = ObserveThreshold(su.e), !.at = emission.e,
        !.closed = @ + 1, !.log = Append(@, pts), !.recs = se.recs, !.plainRecs = sp.recs]
  BY <1>2, <1>3 DEF TakeOver
<1>7. /\ DOMAIN emission' = EmissionFields /\ emission'.kind = "engine"
      /\ emission'.e = ObserveThreshold(se.e) /\ emission'.plain = ObserveThreshold(sp.e)
      /\ emission'.unread = ObserveThreshold(su.e) /\ emission'.at = emission.e
      /\ emission'.recs = se.recs /\ emission'.plainRecs = sp.recs
  BY <1>1, <1>6 DEF EmissionFields
<1>8. /\ Alike(se.e, sp.e) /\ Alike(se.e, su.e) /\ sp.e.feedback = Empty
      /\ se.recs = {r \in sp.recs : Speaks(emission.e.feedback, emission.e.threshold, r)}
  BY <1>1, <1>4, <1>5 DEF SameButSilenced, Keeps
<1>9. /\ Alike(ObserveThreshold(se.e), ObserveThreshold(sp.e))
      /\ ObserveThreshold(sp.e).feedback = Empty
      /\ Learners(ObserveThreshold(se.e), ObserveThreshold(su.e))
  BY <1>8, ObservedAlike, LearnersOf
<1>10. Silenced(emission'.at, emission'.recs, emission'.plainRecs)
  BY <1>7, <1>8 DEF Silenced
<1>. QED BY <1>7, <1>9, <1>10 DEF LearningInv

LEMMA BucketRead ==
  ASSUME LearningInv, NEW pts, PeekInterim(pts)
  PROVE  LearningInv'
<1>. DEFINE t == emission.closed
            e == Peeked(emission.e, t, pts)
            plain == Peeked(emission.plain, t, pts)
<1>1. /\ emission.kind = "engine" /\ DOMAIN emission = EmissionFields
      /\ Alike(emission.e, emission.plain) /\ Learners(emission.e, emission.unread)
      /\ emission.plain.feedback = Empty
      /\ Silenced(emission.at, emission.recs, emission.plainRecs)
  BY DEF PeekInterim, LearningInv
<1>2. emission' = [emission EXCEPT !.e = e, !.peeks = @ + 1, !.plain = plain]
  BY DEF PeekInterim
<1>3. Alike(e, plain) /\ Learners(emission.e, e) /\ plain.feedback = Empty
  BY <1>1, PeekedAlike
<1>. HIDE DEF e, plain
<1>4. /\ DOMAIN emission' = EmissionFields /\ emission'.kind = "engine"
      /\ emission'.e = e /\ emission'.plain = plain
      /\ emission'.unread = emission.unread /\ emission'.at = emission.at
      /\ emission'.recs = emission.recs /\ emission'.plainRecs = emission.plainRecs
  BY <1>1, <1>2 DEF EmissionFields
<1>5. Learners(e, emission.unread)
  BY <1>1, <1>3, LearnersOf
<1>6. Silenced(emission'.at, emission'.recs, emission'.plainRecs)
  BY <1>1, <1>4 DEF Silenced
<1>. QED BY <1>3, <1>4, <1>5, <1>6 DEF LearningInv

\* A report of a false positive, or its withdrawal.
LEMMA FeedbackChanged ==
  ASSUME LearningInv, emission.kind = "engine", NEW feedback, NEW marks,
         emission' = [emission EXCEPT !.marks = marks, !.e.feedback = feedback]
  PROVE  LearningInv'
<1>. DEFINE e == [emission.e EXCEPT !.feedback = feedback]
<1>1. /\ DOMAIN emission = EmissionFields
      /\ Alike(emission.e, emission.plain) /\ Learners(emission.e, emission.unread)
      /\ emission.plain.feedback = Empty
      /\ Silenced(emission.at, emission.recs, emission.plainRecs)
  BY DEF LearningInv
<1>2. DOMAIN emission.e = EngineFields
  BY <1>1 DEF Learners, IsEngine
<1>3. /\ DOMAIN emission' = EmissionFields /\ emission'.kind = "engine"
      /\ emission'.e = e /\ emission'.plain = emission.plain
      /\ emission'.unread = emission.unread /\ emission'.at = emission.at
      /\ emission'.recs = emission.recs /\ emission'.plainRecs = emission.plainRecs
  BY <1>1 DEF EmissionFields
<1>4. DOMAIN e = EngineFields /\ e = [x \in DOMAIN e |-> e[x]]
  BY <1>2
<1>5. /\ e.models = emission.e.models /\ e.rare = emission.e.rare /\ e.known = emission.e.known
      /\ e.scores = emission.e.scores /\ e.threshold = emission.e.threshold
      /\ e.warm = emission.e.warm /\ e.spot = emission.e.spot /\ e.rawMax = emission.e.rawMax
  BY <1>2 DEF EngineFields
<1>. HIDE DEF e
<1>6. Alike(e, emission.plain) /\ Learners(e, emission.unread)
  BY <1>1, <1>4, <1>5 DEF Alike, Learners, IsEngine
<1>7. Silenced(emission'.at, emission'.recs, emission'.plainRecs)
  BY <1>1, <1>3 DEF Silenced
<1>. QED BY <1>1, <1>3, <1>6, <1>7 DEF LearningInv

LEMMA LearningStep == ASSUME LearningInv, [EmissionNext]_emissionVars PROVE LearningInv'
<1>1. CASE MakeEngine
  BY <1>1, EngineMade
<1>2. ASSUME NEW pts \in BucketPoints, CloseBucket(pts) PROVE LearningInv'
  BY <1>2, BucketClosed
<1>3. ASSUME NEW pts \in BucketPoints, PeekInterim(pts) PROVE LearningInv'
  BY <1>3, BucketRead
<1>4. ASSUME NEW i \in DOMAIN Detectors, NEW series, MarkFalsePositive(i, series) PROVE LearningInv'
  <2>. DEFINE id == <<Detectors[i].id, series>>
              feedback == Put(emission.e.feedback, id, Lookup(emission.e.feedback, id, 0) + 1)
  <2>1. /\ emission.kind = "engine"
        /\ emission' = [emission EXCEPT !.marks = emission.marks + 1, !.e.feedback = feedback]
    BY <1>4 DEF MarkFalsePositive
  <2>. HIDE DEF feedback
  <2>. QED BY <2>1, FeedbackChanged
<1>5. ASSUME NEW i \in DOMAIN Detectors, NEW series, ClearFeedback(i, series) PROVE LearningInv'
  <2>. DEFINE feedback == Restrict(emission.e.feedback,
                            DOMAIN emission.e.feedback \ {<<Detectors[i].id, series>>})
  <2>1. /\ emission.kind = "engine"
        /\ emission' = [emission EXCEPT !.e.feedback = feedback]
    BY <1>5 DEF ClearFeedback
  <2>. HIDE DEF feedback
  <2>2. emission' = [emission EXCEPT !.marks = emission.marks, !.e.feedback = feedback]
    BY <2>1 DEF LearningInv, EmissionFields
  <2>. QED BY <2>1, <2>2, FeedbackChanged
<1>6. CASE UNCHANGED emissionVars
  BY <1>6 DEF emissionVars, LearningInv
<1>. QED BY <1>1, <1>2, <1>3, <1>4, <1>5, <1>6 DEF EmissionNext

LEMMA LearningTold == ASSUME LearningInv PROVE FeedbackOnlySilences /\ PeeksTeachNothing
<1>. SUFFICES ASSUME emission.kind = "engine" PROVE FeedbackOnlySilences /\ PeeksTeachNothing
  BY DEF FeedbackOnlySilences, PeeksTeachNothing
<1>1. /\ Learners(emission.e, emission.plain) /\ Learners(emission.e, emission.unread)
      /\ Silenced(emission.at, emission.recs, emission.plainRecs)
  BY LearnersOf DEF LearningInv
<1>. DEFINE LearnedFields == {"models", "rare", "known", "scores", "threshold", "spot", "warm"}
<1>2. ASSUME NEW a, NEW b, Learners(a, b) PROVE Restrict(a, LearnedFields) = Restrict(b, LearnedFields)
  <2>1. \A x \in LearnedFields : a[x] = b[x]
    BY <1>2 DEF Learners
  <2>. QED BY <2>1 DEF Restrict
<1>3. PeeksTeachNothing
  BY <1>1, <1>2 DEF PeeksTeachNothing
<1>4. FeedbackOnlySilences
  BY <1>1, <1>2 DEF FeedbackOnlySilences, Silenced, Speaks
<1>. QED BY <1>3, <1>4

-----------------------------------------------------------------------------
(* Rare values (Emission): what the table of seen values counts.           *)

\* The detectors that share a table, and those of the first k of all.  In a
\* bucket of which k detectors are done, a table has counted a value at most
\* once for each bucket before and each detector that shares it.
SharingTo(d, k) == {i \in Sharing(d) : i <= k}
Most(log, pts, d, k, v) ==
  Cardinality(Sharing(d)) * Appeared(log, v)
    + (IF v \in RarePresent(pts) THEN Cardinality(SharingTo(d, k)) ELSE 0)
Counting(tr, log, pts, d, k) == \A v \in DOMAIN tr.seen : tr.seen[v] \in 0..Most(log, pts, d, k, v)
Counts(tr, log, d) ==
  \A v \in DOMAIN tr.seen : tr.seen[v] \in 0..Cardinality(Sharing(d)) * Appeared(log, v)

LEMMA SharingCounted ==
  ASSUME NEW d, NEW k \in Nat
  PROVE  LET C(i) == Cardinality(SharingTo(d, i)) IN
         /\ Cardinality(Sharing(d)) \in Nat /\ C(k) \in Nat /\ C(k + 1) \in Nat /\ C(0) = 0
         /\ C(k + 1) = C(k) + (IF k + 1 \in Sharing(d) THEN 1 ELSE 0)
         /\ C(Len(Detectors)) = Cardinality(Sharing(d))
<1>1. /\ Len(Detectors) \in Nat /\ Sharing(d) \subseteq 1..Len(Detectors)
      /\ IsFiniteSet(1..Len(Detectors))
  <2>1. Len(Detectors) \in Nat /\ Sharing(d) \subseteq 1..Len(Detectors)
    BY DetectorsAssumption DEF Sharing
  <2>. QED BY <2>1, FS_Interval
<1>2. /\ IsFiniteSet(Sharing(d)) /\ IsFiniteSet(SharingTo(d, k))
      /\ SharingTo(d, 0) = {} /\ SharingTo(d, Len(Detectors)) = Sharing(d)
  <2>1. SharingTo(d, k) \subseteq 1..Len(Detectors)
    BY <1>1 DEF SharingTo
  <2>2. SharingTo(d, 0) = {} /\ SharingTo(d, Len(Detectors)) = Sharing(d)
    BY <1>1 DEF SharingTo
  <2>. QED BY <1>1, <2>1, <2>2, FS_Subset
<1>3. SharingTo(d, k + 1) = (IF k + 1 \in Sharing(d) THEN SharingTo(d, k) \cup {k + 1}
                             ELSE SharingTo(d, k))
  BY <1>1 DEF SharingTo
<1>4. k + 1 \notin SharingTo(d, k)
  BY DEF SharingTo
<1>5. Cardinality(SharingTo(d, k) \cup {k + 1}) = Cardinality(SharingTo(d, k)) + 1
  BY <1>2, <1>4, FS_AddElement
<1>6. Cardinality(Sharing(d)) \in Nat /\ Cardinality(SharingTo(d, k)) \in Nat
  BY <1>2, FS_CardinalityType
<1>. QED BY <1>2, <1>3, <1>5, <1>6, FS_EmptySet

\* One bucket more.
Longer(n, log, new, pts) ==
  /\ n \in Nat /\ DOMAIN log = 1..n /\ DOMAIN new = 1..n + 1 /\ new[n + 1] = pts
  /\ \A i \in 1..n : new[i] = log[i]

LEMMA AppearedGrows ==
  ASSUME NEW n, NEW log, NEW new, NEW pts, Longer(n, log, new, pts), NEW v
  PROVE  /\ Appeared(log, v) \in Nat /\ Appeared(new, v) \in Nat
         /\ Appeared(log, v) <= Appeared(new, v)
         /\ (~InCalendar(JobCalendars, n) /\ v \in RarePresent(pts))
              => Appeared(new, v) = Appeared(log, v) + 1
<1>. DEFINE In(l, i) == /\ ~InCalendar(JobCalendars, i - 1)
                        /\ \E j \in DOMAIN l[i] : l[i][j].by = v
            A == {i \in DOMAIN log : In(log, i)}
            B == {i \in DOMAIN new : In(new, i)}
<1>1. Appeared(log, v) = Cardinality(A) /\ Appeared(new, v) = Cardinality(B)
  BY DEF Appeared
<1>2. \A i \in 1..n : In(new, i) <=> In(log, i)
  BY DEF Longer
<1>3. In(new, n + 1) => B = A \cup {n + 1}
  <2>. HIDE DEF In
  <2>. QED BY <1>2 DEF Longer
<1>4. ~In(new, n + 1) => B = A
  <2>. HIDE DEF In
  <2>. QED BY <1>2 DEF Longer
<1>5. (~InCalendar(JobCalendars, n) /\ v \in RarePresent(pts)) => In(new, n + 1)
  <2>1. (n + 1) - 1 = n
    BY DEF Longer
  <2>. QED BY <2>1 DEF RarePresent, Longer
<1>6. IsFiniteSet(A) /\ n + 1 \notin A
  <2>1. A \subseteq 1..n /\ n + 1 \notin 1..n
    <3>. HIDE DEF In
    <3>. QED BY DEF Longer
  <2>2. IsFiniteSet(1..n)
    <3>1. n \in Nat
      BY DEF Longer
    <3>. QED BY <3>1, FS_Interval
  <2>. QED BY <2>1, <2>2, FS_Subset
<1>7. Cardinality(A) \in Nat /\ Cardinality(A \cup {n + 1}) = Cardinality(A) + 1
  BY <1>6, FS_CardinalityType, FS_AddElement
<1>8. Cardinality(B) = IF In(new, n + 1) THEN Cardinality(A) + 1 ELSE Cardinality(A)
  <2>. HIDE DEF A, B, In
  <2>. QED BY <1>3, <1>4, <1>7
<1>. HIDE DEF A, B, In
<1>9. CASE In(new, n + 1)
  <2>1. Cardinality(B) = Cardinality(A) + 1
    BY <1>8, <1>9
  <2>. QED BY <1>1, <1>7, <2>1
<1>10. CASE ~In(new, n + 1)
  <2>1. Cardinality(B) = Cardinality(A)
    BY <1>8, <1>10
  <2>2. ~(~InCalendar(JobCalendars, n) /\ v \in RarePresent(pts))
    BY <1>5, <1>10
  <2>. QED BY <1>1, <1>7, <2>1, <2>2
<1>. QED BY <1>9, <1>10

\* The bound, from one detector to the next, before a bucket and after it.
LEMMA MostSteps ==
  ASSUME NEW log, NEW pts, NEW d, NEW k \in Nat, NEW v, Appeared(log, v) \in Nat
  PROVE  /\ Most(log, pts, d, k, v) \in Nat /\ Most(log, pts, d, k + 1, v) \in Nat
         /\ Most(log, pts, d, k + 1, v) = Most(log, pts, d, k, v)
              + (IF k + 1 \in Sharing(d) /\ v \in RarePresent(pts) THEN 1 ELSE 0)
         /\ Most(log, pts, d, 0, v) = Cardinality(Sharing(d)) * Appeared(log, v)
<1>1. PICK y, c, x : /\ y = Cardinality(Sharing(d)) * Appeared(log, v)
                     /\ c = Cardinality(SharingTo(d, k)) /\ x = Cardinality(SharingTo(d, k + 1))
  OBVIOUS
<1>2. /\ c \in Nat /\ x \in Nat
      /\ x = c + (IF k + 1 \in Sharing(d) THEN 1 ELSE 0)
      /\ Cardinality(SharingTo(d, 0)) = 0
  BY <1>1, SharingCounted
<1>3. y \in Nat
  <2>1. PICK m \in Nat, a \in Nat : m = Cardinality(Sharing(d)) /\ a = Appeared(log, v)
    BY SharingCounted
  <2>2. m * 0 = 0 /\ m * 0 <= m * a /\ m * a \in Int
    BY <2>1, ProductsGrow
  <2>. QED BY <1>1, <2>1, <2>2
<1>4. /\ Most(log, pts, d, k, v) = y + (IF v \in RarePresent(pts) THEN c ELSE 0)
      /\ Most(log, pts, d, k + 1, v) = y + (IF v \in RarePresent(pts) THEN x ELSE 0)
      /\ Most(log, pts, d, 0, v) = y + 0
  BY <1>1, <1>2 DEF Most
<1>. QED BY <1>1, <1>2, <1>3, <1>4

LEMMA MostGrows ==
  ASSUME NEW n, NEW log, NEW new, NEW pts, Longer(n, log, new, pts),
         NEW d, NEW v
  PROVE  LET m == Cardinality(Sharing(d)) IN
         /\ m * Appeared(log, v) \in Nat /\ m * Appeared(new, v) \in Nat
         /\ m * Appeared(log, v) <= m * Appeared(new, v)
         /\ Most(log, pts, d, Len(Detectors), v) \in Nat
         /\ ~InCalendar(JobCalendars, n) =>
              Most(log, pts, d, Len(Detectors), v) <= m * Appeared(new, v)
<1>1. PICK m, a, b : /\ m = Cardinality(Sharing(d)) /\ a = Appeared(log, v) /\ b = Appeared(new, v)
                     /\ Cardinality(SharingTo(d, Len(Detectors))) = m
  <2>1. 0 \in Nat
    OBVIOUS
  <2>. QED BY <2>1, SharingCounted
<1>2. /\ m \in Nat /\ a \in Nat /\ b \in Nat /\ a <= b
      /\ (~InCalendar(JobCalendars, n) /\ v \in RarePresent(pts)) => b = a + 1
  <2>1. 0 \in Nat
    OBVIOUS
  <2>. QED BY <1>1, <2>1, AppearedGrows, SharingCounted
<1>3. /\ m * a \in Int /\ m * b \in Int /\ m * a <= m * b /\ m * (a + 1) = m * a + m
      /\ m * 0 = 0 /\ m * 0 <= m * a
  <2>1. m * (a + 1) = m * a + m * 1
    BY <1>2, Products
  <2>. QED BY <1>2, <2>1, ProductsGrow
<1>4. PICK y, z : y = m * a /\ z = m * b
  OBVIOUS
<1>5. /\ y \in Nat /\ z \in Nat /\ y <= z
      /\ (~InCalendar(JobCalendars, n) /\ v \in RarePresent(pts)) => z = y + m
  BY <1>2, <1>3, <1>4
<1>6. Most(log, pts, d, Len(Detectors), v) = y + (IF v \in RarePresent(pts) THEN m ELSE 0)
  BY <1>1, <1>4 DEF Most
<1>7. Cardinality(Sharing(d)) * Appeared(log, v) = y /\ Cardinality(Sharing(d)) * Appeared(new, v) = z
  BY <1>1, <1>4
<1>8. m \in Nat
  BY <1>2
<1>. QED BY <1>5, <1>6, <1>7, <1>8

LEMMA CountsGrow ==
  ASSUME NEW n, NEW log, NEW new, NEW pts, Longer(n, log, new, pts), NEW tr, NEW d, Counts(tr, log, d)
  PROVE  Counts(tr, new, d)
<1>. SUFFICES ASSUME NEW v \in DOMAIN tr.seen
              PROVE  tr.seen[v] \in 0..Cardinality(Sharing(d)) * Appeared(new, v)
  BY DEF Counts
<1>1. PICK y, z : y = Cardinality(Sharing(d)) * Appeared(log, v)
                  /\ z = Cardinality(Sharing(d)) * Appeared(new, v)
  OBVIOUS
<1>2. tr.seen[v] \in 0..y
  BY <1>1 DEF Counts
<1>3. y \in Nat /\ z \in Nat /\ y <= z
  BY <1>1, MostGrows
<1>. QED BY <1>1, <1>2, <1>3

LEMMA TrackedCounts ==
  ASSUME NEW n, NEW log, NEW new, NEW pts, Longer(n, log, new, pts),
         NEW d, NEW k \in Nat, k + 1 \in Sharing(d), NEW tr, Counting(tr, log, pts, d, k),
         NEW s, s = RareTracked(tr, RarePresent(pts))
  PROVE  /\ Counting(s, log, pts, d, k + 1)
         /\ \A v \in RarePresent(pts) : v \in DOMAIN s.seen /\ s.seen[v] >= 1
<1>1. PICK kept : /\ DOMAIN kept \subseteq DOMAIN tr.seen
                  /\ \A v \in DOMAIN kept : kept[v] = tr.seen[v]
                  /\ s.seen = [v \in DOMAIN kept \cup RarePresent(pts) |->
                                 Lookup(kept, v, 0) + (IF v \in RarePresent(pts) THEN 1 ELSE 0)]
  <2>. DEFINE kept == IF Cardinality(DOMAIN tr.seen) > MaxRareValues
                      THEN LessCommon(tr.seen, (MaxRareValues * 9) \div 10) ELSE tr.seen
              present == RarePresent(pts)
  <2>1. s.seen = [v \in DOMAIN kept \cup present |->
                    Lookup(kept, v, 0) + (IF v \in present THEN 1 ELSE 0)]
    <3>. HIDE DEF present
    <3>. QED BY DEF RareTracked, present
  <2>2. ASSUME NEW keep
        PROVE  /\ DOMAIN LessCommon(tr.seen, keep) \subseteq DOMAIN tr.seen
               /\ \A v \in DOMAIN LessCommon(tr.seen, keep) : LessCommon(tr.seen, keep)[v] = tr.seen[v]
    <3>1. PICK T \in SUBSET DOMAIN tr.seen : LessCommon(tr.seen, keep) = [v \in T |-> tr.seen[v]]
      BY DEF LessCommon, Restrict
    <3>. QED BY <3>1
  <2>3. DOMAIN kept \subseteq DOMAIN tr.seen /\ \A v \in DOMAIN kept : kept[v] = tr.seen[v]
    BY <2>2
  <2>. HIDE DEF kept
  <2>. QED BY <2>1, <2>3
<1>2. ASSUME NEW v \in DOMAIN s.seen
      PROVE  /\ s.seen[v] \in 0..Most(log, pts, d, k + 1, v)
             /\ v \in RarePresent(pts) => s.seen[v] >= 1
  <2>1. PICK y, z : y = Most(log, pts, d, k, v) /\ z = Most(log, pts, d, k + 1, v)
    OBVIOUS
  <2>2. /\ y \in Nat /\ z \in Nat
        /\ z = y + (IF k + 1 \in Sharing(d) /\ v \in RarePresent(pts) THEN 1 ELSE 0)
    <3>1. /\ Most(log, pts, d, k, v) \in Nat /\ Most(log, pts, d, k + 1, v) \in Nat
          /\ Most(log, pts, d, k + 1, v) = Most(log, pts, d, k, v)
               + (IF k + 1 \in Sharing(d) /\ v \in RarePresent(pts) THEN 1 ELSE 0)
      BY AppearedGrows, MostSteps
    <3>. QED BY <2>1, <3>1
  <2>3. PICK x : x = Lookup(kept, v, 0)
    OBVIOUS
  <2>4. x \in 0..y
    <3>1. v \in DOMAIN kept => kept[v] \in 0..y
      BY <1>1, <2>1 DEF Counting
    <3>. QED BY <2>2, <2>3, <3>1 DEF Lookup
  <2>5. s.seen[v] = x + (IF v \in RarePresent(pts) THEN 1 ELSE 0)
    BY <1>1, <2>3
  <2>. QED BY <2>1, <2>2, <2>4, <2>5
<1>3. RarePresent(pts) \subseteq DOMAIN s.seen
  BY <1>1
<1>. QED BY <1>2, <1>3 DEF Counting

\* The first k detectors of a bucket, seen by detector j that looks for rare
\* values: what its table holds, and that it, if it is the last of those that
\* share the table, has told what is rare by it.
RareOf(rare, d) == Lookup(rare, d.id, NewTracker)
RaresTold(d, t, tr, pts, threshold, recs) ==
  \A v \in RarePresent(pts) : IsRare(tr, v) => RareTold(d, t, tr, pts, threshold, recs, v)
LastSharing(j) == \A i \in Sharing(Detectors[j]) : i <= j

DoneRare(j, e, t, pts, a) ==
  LET d == Detectors[j]  tr == RareOf(a.e.rare, d) IN
  /\ d.id \in DOMAIN a.e.rare
  /\ \A v \in RarePresent(pts) : v \in DOMAIN tr.seen /\ tr.seen[v] >= 1
  /\ LastSharing(j) => RaresTold(d, t, tr, pts, e.threshold, a.recs)
ScannedRare(j, k, e, t, log, pts, a) ==
  /\ IsEngine(a.e) /\ Keeps(e, a.e)
  /\ Counting(RareOf(a.e.rare, Detectors[j]), log, pts, Detectors[j], k)
  /\ k >= j => DoneRare(j, e, t, pts, a)

\* A detector that leaves the table of an ID alone.
Foreign(d, id) == ~(Path(d) = "rare" /\ d.id = id)
KeepsTable(id, rare, new) ==
  /\ Lookup(new, id, NewTracker) = Lookup(rare, id, NewTracker)
  /\ id \in DOMAIN rare => id \in DOMAIN new

LEMMA OthersRare ==
  ASSUME NEW a, IsEngine(a.e), NEW d, NEW t, NEW pts,
         NEW id, Foreign(d, id)
  PROVE  LET b == ScoreOne(a, d, t, pts) IN
         /\ IsEngine(b.e) /\ Keeps(a.e, b.e) /\ a.recs \subseteq b.recs
         /\ KeepsTable(id, a.e.rare, b.e.rare)
<1>. DEFINE b == ScoreOne(a, d, t, pts)
<1>1. CASE Path(d) = "rare"
  <2>1. PICK tr : tr = RareTracked(Lookup(a.e.rare, d.id, NewTracker), RarePresent(pts))
    OBVIOUS
  <2>2. b = ScoreRare(a, d, t, pts)
    BY <1>1 DEF ScoreOne
  <2>3. TakesRare(a, b, d, t, pts, tr)
    BY <2>1, <2>2, TakesRareScores
  <2>. HIDE DEF b
  <2>4. /\ IsEngine(b.e) /\ Keeps(a.e, b.e) /\ a.recs \subseteq b.recs
        /\ b.e.rare = Put(a.e.rare, d.id, tr)
    BY <2>3 DEF TakesRare
  <2>5. id # d.id
    BY <1>1 DEF Foreign
  <2>6. \A f : KeepsTable(id, f, Put(f, d.id, tr))
    BY <2>5 DEF Put, Lookup, KeepsTable
  <2>. QED BY <2>4, <2>6 DEF b
<1>2. CASE Path(d) # "rare"
  <2>1. PICK judged : judged = JudgedBy(a.e.models, Observations(a.e.known, d, t, pts))
    OBVIOUS
  <2>2. PICK bars : bars = AdaptiveScores(a.e.scores, a.e.threshold, d, judged)
    OBVIOUS
  <2>3. b = TakeScores(a, d, t, judged, bars)
    BY <1>2, <2>1, <2>2 DEF ScoreOne, ScoreSeries, ScoreJudged
  <2>4. Takes(a, b, d, t, judged, bars)
    BY <2>3, TakesScores
  <2>. HIDE DEF b
  <2>. QED BY <2>4 DEF Takes, KeepsTable, b
<1>. QED BY <1>1, <1>2

LEMMA OwnRare ==
  ASSUME NEW a, IsEngine(a.e), a.e.feedback = Empty, NEW d, Path(d) = "rare", NEW t, NEW pts,
         NEW tr, tr = RareTracked(RareOf(a.e.rare, d), RarePresent(pts))
  PROVE  LET b == ScoreOne(a, d, t, pts) IN
         /\ IsEngine(b.e) /\ Keeps(a.e, b.e)
         /\ d.id \in DOMAIN b.e.rare /\ b.e.rare[d.id] = tr
         /\ RaresTold(d, t, tr, pts, a.e.threshold, b.recs)
<1>. DEFINE b == ScoreOne(a, d, t, pts)
<1>1. TakesRare(a, b, d, t, pts, tr)
  <2>1. b = ScoreRare(a, d, t, pts)
    BY DEF ScoreOne
  <2>. QED BY <2>1, TakesRareScores DEF RareOf
<1>. HIDE DEF b
<1>2. /\ IsEngine(b.e) /\ Keeps(a.e, b.e) /\ b.e.rare = Put(a.e.rare, d.id, tr)
      /\ b.recs = a.recs \cup Passed(a.e, d, {r \in RareRecords(d, t, tr, pts) : r.score >= a.e.threshold})
  BY <1>1 DEF TakesRare
<1>3. d.id \in DOMAIN b.e.rare /\ b.e.rare[d.id] = tr
  BY <1>2 DEF Put
<1>4. ASSUME NEW v \in RarePresent(pts), IsRare(tr, v)
      PROVE  RareTold(d, t, tr, pts, a.e.threshold, b.recs, v)
  <2>1. PICK r : r = RareRecord(d, t, tr, v, pts)
    OBVIOUS
  <2>2. r \in RareRecords(d, t, tr, pts)
    BY <1>4, <2>1 DEF RareRecords
  <2>3. ASSUME r.score >= a.e.threshold, ~IsSuppressed(JobCalendars, d.rules, r) PROVE r \in b.recs
    <3>1. Emitted(a.e, d, r)
      BY <2>3, NoPenalty DEF Emitted
    <3>. QED BY <1>2, <2>2, <2>3, <3>1 DEF Passed
  <2>. QED BY <2>1, <2>3 DEF RareTold
<1>. QED BY <1>2, <1>3, <1>4 DEF RaresTold, b

LEMMA MoreTold ==
  ASSUME NEW d, NEW t, NEW tr, NEW pts, NEW thr, NEW recs, RaresTold(d, t, tr, pts, thr, recs),
         NEW more, recs \subseteq more
  PROVE  RaresTold(d, t, tr, pts, thr, more)
BY DEF RaresTold, RareTold

LEMMA ScanRare ==
  ASSUME NEW e, IsEngine(e), e.feedback = Empty, NEW t, NEW pts,
         NEW g, IsScan(g, Len(Detectors), e, t, pts),
         NEW j \in DOMAIN Detectors, Path(Detectors[j]) = "rare",
         NEW log, NEW new, Longer(t, log, new, pts),
         Counts(RareOf(e.rare, Detectors[j]), log, Detectors[j])
  PROVE  ScannedRare(j, Len(Detectors), e, t, log, pts, g[Len(Detectors)])
<1>. DEFINE n == Len(Detectors)
            d == Detectors[j]
            T == {i \in 0..n : ScannedRare(j, i, e, t, log, pts, g[i])}
<1>1. n \in Nat /\ j \in 1..n /\ DOMAIN Detectors = 1..n
  BY DetectorsAssumption
<1>2. \A i \in 0..n : g[i] = IF i = 0 THEN Started(e) ELSE ScoreOne(g[i - 1], Detectors[i], t, pts)
  BY DEF IsScan
<1>. HIDE DEF n
<1>3. 0 \in T
  <2>1. g[0] = Started(e)
    BY <1>1, <1>2
  <2>2. IsEngine(Opened(e)) /\ Learners(e, Opened(e)) /\ Keeps(e, Opened(e)) /\ Started(e).e = Opened(e)
    BY EngineOpened DEF Started
  <2>3. RareOf(g[0].e.rare, d) = RareOf(e.rare, d)
    BY <2>1, <2>2 DEF Learners
  <2>4. PICK tr : tr = RareOf(e.rare, d)
    OBVIOUS
  <2>5. Counting(tr, log, pts, d, 0)
    <3>1. Counts(tr, log, d)
      BY <2>4
    <3>2. 0 \in Nat
      OBVIOUS
    <3>3. \A v : Most(log, pts, d, 0, v) = Cardinality(Sharing(d)) * Appeared(log, v)
      BY <3>2, AppearedGrows, MostSteps
    <3>. QED BY <3>1, <3>3 DEF Counts, Counting
  <2>6. ScannedRare(j, 0, e, t, log, pts, g[0])
    BY <1>1, <2>1, <2>2, <2>3, <2>4, <2>5 DEF ScannedRare
  <2>. QED BY <1>1, <2>6
<1>4. ASSUME NEW k \in 0..n - 1, k \in T PROVE k + 1 \in T
  <2>. DEFINE b == g[k + 1]
              f == Detectors[k + 1]
  <2>1. k \in Nat /\ k + 1 \in 0..n /\ k + 1 \in DOMAIN Detectors /\ b = ScoreOne(g[k], f, t, pts)
    BY <1>1, <1>2
  <2>2. /\ IsEngine(g[k].e) /\ Keeps(e, g[k].e)
        /\ Counting(RareOf(g[k].e.rare, d), log, pts, d, k)
        /\ k >= j => DoneRare(j, e, t, pts, g[k])
    BY <1>4 DEF ScannedRare
  <2>3. PICK old : old = RareOf(g[k].e.rare, d)
    OBVIOUS
  <2>4. CASE k + 1 \in Sharing(d)
    <3>1. Path(f) = "rare" /\ f.id = d.id
      BY <2>4 DEF Sharing
    <3>2. PICK tr : tr = RareTracked(RareOf(g[k].e.rare, f), RarePresent(pts))
      OBVIOUS
    <3>3. g[k].e.feedback = Empty /\ g[k].e.threshold = e.threshold
      BY <2>2 DEF Keeps
    <3>4. /\ IsEngine(b.e) /\ Keeps(g[k].e, b.e)
          /\ f.id \in DOMAIN b.e.rare /\ b.e.rare[f.id] = tr
          /\ RaresTold(f, t, tr, pts, g[k].e.threshold, b.recs)
      BY <2>1, <2>2, <3>1, <3>2, <3>3, OwnRare
    <3>5. tr = RareTracked(old, RarePresent(pts)) /\ RareOf(b.e.rare, d) = tr
      BY <2>3, <3>1, <3>2, <3>4 DEF RareOf, Lookup
    <3>6. /\ Counting(tr, log, pts, d, k + 1)
          /\ \A v \in RarePresent(pts) : v \in DOMAIN tr.seen /\ tr.seen[v] >= 1
      BY <2>1, <2>2, <2>3, <2>4, <3>5, TrackedCounts
    <3>7. ASSUME k + 1 >= j PROVE DoneRare(j, e, t, pts, b)
      <4>1. LastSharing(j) => k + 1 = j
        BY <1>1, <2>1, <2>4, <3>7 DEF LastSharing
      <4>2. LastSharing(j) => RaresTold(d, t, tr, pts, e.threshold, b.recs)
        BY <3>3, <3>4, <4>1
      <4>. QED BY <3>1, <3>4, <3>5, <3>6, <4>2 DEF DoneRare
    <3>8. Keeps(e, b.e)
      BY <2>2, <3>4 DEF Keeps
    <3>9. ScannedRare(j, k + 1, e, t, log, pts, b)
      BY <3>4, <3>5, <3>6, <3>7, <3>8 DEF ScannedRare
    <3>. QED BY <2>1, <3>9
  <2>5. CASE k + 1 \notin Sharing(d)
    <3>1. Foreign(f, d.id)
      BY <2>1, <2>5 DEF Sharing, Foreign
    <3>2. /\ IsEngine(b.e) /\ Keeps(g[k].e, b.e) /\ g[k].recs \subseteq b.recs
          /\ KeepsTable(d.id, g[k].e.rare, b.e.rare)
      BY <2>1, <2>2, <3>1, OthersRare
    <3>3. Keeps(e, b.e)
      BY <2>2, <3>2 DEF Keeps
    <3>4. RareOf(b.e.rare, d) = old
      BY <2>3, <3>2 DEF RareOf, KeepsTable
    <3>5. Counting(old, log, pts, d, k + 1)
      <4>1. \A v : Most(log, pts, d, k, v) \in Nat /\ Most(log, pts, d, k + 1, v) = Most(log, pts, d, k, v)
        <5>1. ASSUME NEW v
              PROVE  /\ Most(log, pts, d, k, v) \in Nat
                     /\ Most(log, pts, d, k + 1, v) = Most(log, pts, d, k, v)
                          + (IF k + 1 \in Sharing(d) /\ v \in RarePresent(pts) THEN 1 ELSE 0)
          <6>. HIDE DEF d
          <6>. QED BY <2>1, AppearedGrows, MostSteps
        <5>. QED BY <2>5, <5>1
      <4>. QED BY <2>2, <2>3, <4>1 DEF Counting
    <3>6. ASSUME k + 1 >= j PROVE DoneRare(j, e, t, pts, b)
      <4>1. k + 1 # j
        BY <2>5 DEF Sharing
      <4>2. DoneRare(j, e, t, pts, g[k])
        BY <1>1, <2>1, <2>2, <3>6, <4>1
      <4>3. LastSharing(j) => RaresTold(d, t, old, pts, e.threshold, b.recs)
        BY <2>3, <3>2, <4>2, MoreTold DEF DoneRare
      <4>. QED BY <2>3, <3>2, <3>4, <4>2, <4>3 DEF DoneRare, KeepsTable
    <3>7. ScannedRare(j, k + 1, e, t, log, pts, b)
      BY <3>2, <3>3, <3>4, <3>5, <3>6 DEF ScannedRare
    <3>. QED BY <2>1, <3>7
  <2>. QED BY <2>4, <2>5
<1>5. n \in T
  <2>. HIDE DEF T
  <2>1. \A k \in 0..n : k \in T
    BY <1>1, <1>3, <1>4, StepByStep
  <2>. QED BY <1>1, <2>1
<1>. QED BY <1>5 DEF n

\* A bucket: what it told of rare values, and which it has seen.
LEMMA BucketRare ==
  ASSUME NEW e, IsEngine(e), e.feedback = Empty, NEW t, NEW pts,
         NEW j \in DOMAIN Detectors, Path(Detectors[j]) = "rare",
         NEW log, NEW new, Longer(t, log, new, pts),
         Counts(RareOf(e.rare, Detectors[j]), log, Detectors[j])
  PROVE  LET a == ScoreBucket(e, t, pts) IN
         IF InCalendar(JobCalendars, t) THEN a.e.rare = e.rare
         ELSE /\ Counts(RareOf(a.e.rare, Detectors[j]), new, Detectors[j])
              /\ DoneRare(j, e, t, pts, a)
<1>1. CASE InCalendar(JobCalendars, t)
  <2>1. ScoreBucket(e, t, pts).e = Opened(e)
    BY <1>1, ScanOfBucket DEF Started
  <2>. QED BY <1>1, <2>1, EngineOpened DEF Learners
<1>2. CASE ~InCalendar(JobCalendars, t)
  <2>. DEFINE n == Len(Detectors)
              d == Detectors[j]
              a == ScoreBucket(e, t, pts)
  <2>1. PICK g : IsScan(g, n, e, t, pts) /\ a = g[n]
    BY <1>2, ScanOfBucket
  <2>2. ScannedRare(j, n, e, t, log, pts, g[n])
    BY <2>1, ScanRare
  <2>3. PICK tr : tr = RareOf(a.e.rare, d)
    OBVIOUS
  <2>4. Counting(tr, log, pts, d, n) /\ DoneRare(j, e, t, pts, a)
    <3>1. n \in Nat /\ j \in 1..n
      BY DetectorsAssumption
    <3>. HIDE DEF a, n
    <3>. QED BY <2>1, <2>2, <2>3, <3>1 DEF ScannedRare
  <2>5. Counts(tr, new, d)
    <3>1. ASSUME NEW v \in DOMAIN tr.seen PROVE tr.seen[v] \in 0..Cardinality(Sharing(d)) * Appeared(new, v)
      <4>1. PICK y, z : y = Most(log, pts, d, n, v) /\ z = Cardinality(Sharing(d)) * Appeared(new, v)
        OBVIOUS
      <4>2. y \in Nat /\ z \in Nat /\ y <= z
        BY <1>2, <4>1, MostGrows
      <4>3. tr.seen[v] \in 0..y
        BY <2>4, <4>1 DEF Counting
      <4>. QED BY <4>1, <4>2, <4>3
    <3>. QED BY <3>1 DEF Counts
  <2>. QED BY <1>2, <2>3, <2>4, <2>5
<1>. QED BY <1>1, <1>2

\* What the engines have counted, and what the last bucket told.
ToldRare(rare, log, n, threshold, recs) ==
  \A i \in DOMAIN Detectors : Path(Detectors[i]) = "rare" =>
    LET d == Detectors[i]  tr == rare[d.id] IN
    /\ \A v \in RarePresent(log[n]) : tr.seen[v] \in 1..Cardinality(Sharing(d)) * Appeared(log, v)
    /\ LastSharing(i) => RaresTold(d, n - 1, tr, log[n], threshold, recs)
CountsRare(rare, log) ==
  \A i \in DOMAIN Detectors : Path(Detectors[i]) = "rare" =>
    Counts(RareOf(rare, Detectors[i]), log, Detectors[i])
RareInv ==
  emission.kind = "engine" =>
    /\ emission.log \in Seq(BucketPoints) /\ Len(emission.log) = emission.closed
    /\ CountsRare(emission.e.rare, emission.log)
    /\ \A r \in emission.plainRecs : IsRecord(r)
    /\ (emission.closed > 0 /\ ~InCalendar(JobCalendars, emission.closed - 1)) =>
         ToldRare(emission.e.rare, emission.log, emission.closed, emission.at.threshold,
                  emission.plainRecs)

\* What the invariant is about changes with a bucket only.
SameRare ==
  /\ emission'.log = emission.log /\ emission'.closed = emission.closed
  /\ emission'.e.rare = emission.e.rare /\ emission'.at = emission.at
  /\ emission'.plainRecs = emission.plainRecs

LEMMA RareRests == ASSUME RareInv, emission.kind = "engine", SameRare PROVE RareInv'
<1>1. /\ emission.log \in Seq(BucketPoints) /\ Len(emission.log) = emission.closed
      /\ CountsRare(emission.e.rare, emission.log)
      /\ \A r \in emission.plainRecs : IsRecord(r)
      /\ (emission.closed > 0 /\ ~InCalendar(JobCalendars, emission.closed - 1)) =>
           ToldRare(emission.e.rare, emission.log, emission.closed, emission.at.threshold,
                    emission.plainRecs)
  BY DEF RareInv
<1>. QED BY <1>1 DEF RareInv, SameRare

LEMMA RareStarts == ASSUME MakeEngine PROVE RareInv'
<1>1. /\ emission'.log = <<>> /\ emission'.closed = 0 /\ emission'.e = NewEngine
      /\ emission'.plainRecs = {}
  BY DEF MakeEngine
<1>2. NewEngine.rare = Empty
  BY DEF NewEngine
<1>3. CountsRare(NewEngine.rare, <<>>)
  <2>1. ASSUME NEW d PROVE Counts(RareOf(Empty, d), <<>>, d)
    BY DEF Counts, RareOf, Lookup, Empty, NewTracker
  <2>. QED BY <1>2, <2>1 DEF CountsRare
<1>. QED BY <1>1, <1>3 DEF RareInv

LEMMA RareCloses ==
  ASSUME LearningInv, RareInv, NEW pts \in BucketPoints, CloseBucket(pts)
  PROVE  RareInv'
<1>. DEFINE t == emission.closed
            se == ScoreBucket(emission.e, t, pts)
            sp == ScoreBucket(emission.plain, t, pts)
            scored == [x \in {"e", "plain", "unread"} |-> ScoreBucket(emission[x], t, pts)]
<1>1. /\ emission.kind = "engine" /\ DOMAIN emission = EmissionFields
      /\ Alike(emission.e, emission.plain) /\ emission.plain.feedback = Empty
  BY DEF CloseBucket, LearningInv
<1>2. /\ emission.log \in Seq(BucketPoints) /\ Len(emission.log) = t
      /\ CountsRare(emission.e.rare, emission.log)
  BY <1>1 DEF RareInv
<1>3. t \in Nat
  BY <1>2
<1>4. TakeOver(pts, scored) /\ scored.e = se /\ scored.plain = sp
  BY DEF CloseBucket
<1>5. SameButSilenced(emission.e, emission.plain, se, sp)
  BY <1>1, BucketScored, LearnersOf
<1>6. IsEngine(emission.plain) /\ emission.plain.rare = emission.e.rare
      /\ emission.plain.threshold = emission.e.threshold
  BY <1>1 DEF Alike, Learners
<1>. DEFINE log == emission.log
            new == Append(log, pts)
<1>7. /\ new \in Seq(BucketPoints) /\ Len(new) = t + 1 /\ new[t + 1] = pts
      /\ Longer(t, log, new, pts)
  <2>1. /\ DOMAIN log = 1..t /\ DOMAIN new = 1..t + 1 /\ new[t + 1] = pts
        /\ \A i \in 1..t : new[i] = log[i]
    BY <1>2, <1>3
  <2>. QED BY <1>2, <1>3, <2>1 DEF Longer
<1>11. ASSUME NEW j \in DOMAIN Detectors, Path(Detectors[j]) = "rare"
       PROVE  IF InCalendar(JobCalendars, t) THEN sp.e.rare = emission.plain.rare
              ELSE /\ Counts(RareOf(sp.e.rare, Detectors[j]), new, Detectors[j])
                   /\ DoneRare(j, emission.plain, t, pts, sp)
  <2>1. Counts(RareOf(emission.plain.rare, Detectors[j]), log, Detectors[j])
    BY <1>2, <1>6, <1>11 DEF CountsRare
  <2>. HIDE DEF new, log
  <2>. QED BY <1>1, <1>6, <1>7, <1>11, <2>1, BucketRare
<1>. HIDE DEF scored, se, sp
<1>8. /\ emission'.e = ObserveThreshold(se.e) /\ emission'.at = emission.e
      /\ emission'.closed = t + 1 /\ emission'.log = Append(emission.log, pts)
      /\ emission'.plainRecs = sp.recs
  BY <1>1, <1>4 DEF TakeOver, EmissionFields
<1>9. Alike(se.e, sp.e) /\ \A r \in sp.recs : IsRecord(r)
  BY <1>5 DEF SameButSilenced
<1>10. emission'.e.rare = sp.e.rare
  BY <1>8, <1>9, ObservedAlike DEF Alike, Learners
<1>. HIDE DEF new, t
<1>12. ASSUME NEW j \in DOMAIN Detectors, Path(Detectors[j]) = "rare"
       PROVE  LET d == Detectors[j]  tr == sp.e.rare[d.id] IN
              /\ Counts(RareOf(sp.e.rare, d), new, d)
              /\ ~InCalendar(JobCalendars, t) =>
                   /\ \A v \in RarePresent(pts) :
                        tr.seen[v] \in 1..Cardinality(Sharing(d)) * Appeared(new, v)
                   /\ LastSharing(j) => RaresTold(d, t, tr, pts, emission.e.threshold, sp.recs)
  <2>. DEFINE d == Detectors[j]
              old == RareOf(emission.e.rare, d)
  <2>1. Counts(old, log, d)
    BY <1>2, <1>12 DEF CountsRare
  <2>2. CASE InCalendar(JobCalendars, t)
    <3>1. RareOf(sp.e.rare, d) = old
      BY <1>6, <1>11, <1>12, <2>2
    <3>2. Counts(old, new, d)
      <4>. HIDE DEF old, log
      <4>. QED BY <1>7, <2>1, CountsGrow
    <3>. QED BY <2>2, <3>1, <3>2
  <2>3. CASE ~InCalendar(JobCalendars, t)
    <3>1. PICK tr : tr = RareOf(sp.e.rare, d)
      OBVIOUS
    <3>2. /\ Counts(tr, new, d) /\ d.id \in DOMAIN sp.e.rare /\ sp.e.rare[d.id] = tr
          /\ \A v \in RarePresent(pts) : v \in DOMAIN tr.seen /\ tr.seen[v] >= 1
          /\ LastSharing(j) => RaresTold(d, t, tr, pts, emission.plain.threshold, sp.recs)
      BY <1>11, <1>12, <2>3, <3>1 DEF DoneRare, RareOf, Lookup
    <3>3. ASSUME NEW v \in RarePresent(pts)
          PROVE  tr.seen[v] \in 1..Cardinality(Sharing(d)) * Appeared(new, v)
      BY <3>2 DEF Counts
    <3>. QED BY <1>6, <2>3, <3>1, <3>2, <3>3
  <2>. QED BY <2>2, <2>3
<1>13. CountsRare(sp.e.rare, new)
  BY <1>12 DEF CountsRare
<1>14. ~InCalendar(JobCalendars, t) => ToldRare(sp.e.rare, new, t + 1, emission.e.threshold, sp.recs)
  <2>1. (t + 1) - 1 = t
    BY <1>3
  <2>. QED BY <1>7, <1>12, <2>1 DEF ToldRare
<1>15. (t + 1) - 1 = t
  BY <1>3
<1>. QED BY <1>7, <1>8, <1>9, <1>10, <1>13, <1>14, <1>15 DEF RareInv, new, log

LEMMA RareStep == ASSUME LearningInv, RareInv, [EmissionNext]_emissionVars PROVE RareInv'
<1>1. CASE MakeEngine
  BY <1>1, RareStarts
<1>2. ASSUME NEW pts \in BucketPoints, CloseBucket(pts) PROVE RareInv'
  BY <1>2, RareCloses
<1>3. ASSUME NEW pts \in BucketPoints, PeekInterim(pts) PROVE RareInv'
  <2>. DEFINE e == Peeked(emission.e, emission.closed, pts)
  <2>1. emission.kind = "engine" /\ DOMAIN emission = EmissionFields /\ Alike(emission.e, emission.plain)
    BY <1>3 DEF PeekInterim, LearningInv
  <2>2. Learners(emission.e, e)
    BY <2>1, PeekedAlike
  <2>. HIDE DEF e
  <2>3. /\ emission'.e = e /\ emission'.log = emission.log /\ emission'.closed = emission.closed
        /\ emission'.at = emission.at /\ emission'.plainRecs = emission.plainRecs
    BY <1>3, <2>1 DEF PeekInterim, EmissionFields, e
  <2>. QED BY <2>1, <2>2, <2>3, RareRests DEF SameRare, Learners
<1>4. ASSUME emission.kind = "engine", NEW feedback, NEW marks,
             emission' = [emission EXCEPT !.marks = marks, !.e.feedback = feedback]
      PROVE  RareInv'
  <2>1. DOMAIN emission = EmissionFields /\ DOMAIN emission.e = EngineFields
    BY <1>4 DEF LearningInv, Alike, Learners, IsEngine
  <2>2. SameRare
    BY <1>4, <2>1 DEF SameRare, EmissionFields, EngineFields
  <2>. QED BY <1>4, <2>2, RareRests
<1>5. ASSUME NEW i \in DOMAIN Detectors, NEW series, MarkFalsePositive(i, series) PROVE RareInv'
  <2>. DEFINE id == <<Detectors[i].id, series>>
              feedback == Put(emission.e.feedback, id, Lookup(emission.e.feedback, id, 0) + 1)
  <2>1. /\ emission.kind = "engine"
        /\ emission' = [emission EXCEPT !.marks = emission.marks + 1, !.e.feedback = feedback]
    BY <1>5 DEF MarkFalsePositive
  <2>. HIDE DEF feedback
  <2>. QED BY <1>4, <2>1
<1>6. ASSUME NEW i \in DOMAIN Detectors, NEW series, ClearFeedback(i, series) PROVE RareInv'
  <2>. DEFINE feedback == Restrict(emission.e.feedback,
                            DOMAIN emission.e.feedback \ {<<Detectors[i].id, series>>})
  <2>1. /\ emission.kind = "engine"
        /\ emission' = [emission EXCEPT !.e.feedback = feedback]
    BY <1>6 DEF ClearFeedback
  <2>. HIDE DEF feedback
  <2>2. emission' = [emission EXCEPT !.marks = emission.marks, !.e.feedback = feedback]
    BY <2>1 DEF LearningInv, EmissionFields
  <2>. QED BY <1>4, <2>1, <2>2
<1>7. CASE UNCHANGED emissionVars
  BY <1>7 DEF emissionVars, RareInv
<1>. QED BY <1>1, <1>2, <1>3, <1>5, <1>6, <1>7 DEF EmissionNext

LEMMA RareReported == ASSUME LearningInv, RareInv PROVE RareNeverMissed
<1>. DEFINE latest == emission.log[emission.closed]
            t == emission.closed - 1
            Most1(d, v) == Cardinality(Sharing(d)) * Appeared(emission.log, v)
<1>. SUFFICES ASSUME emission.kind = "engine", emission.closed > 0, ~InCalendar(JobCalendars, t),
                     NEW i \in DOMAIN Detectors, Path(Detectors[i]) = "rare",
                     NEW v \in RarePresent(latest)
              PROVE  LET d == Detectors[i]  tr == emission.e.rare[d.id] IN
                     /\ tr.seen[v] \in 1..Most1(d, v)
                     /\ (/\ LastSharing(i)
                         /\ tr.buckets >= RareWarmup /\ Most1(d, v) <= RareMaxBuckets) =>
                          RareTold(d, t, tr, latest, emission.at.threshold, emission.plainRecs, v)
  BY DEF RareNeverMissed, LastSharing
<1>1. PICK d, tr, most : d = Detectors[i] /\ tr = emission.e.rare[d.id] /\ most = Most1(d, v)
  OBVIOUS
<1>2. /\ tr.seen[v] \in 1..most
      /\ (LastSharing(i) /\ IsRare(tr, v)) =>
           RareTold(d, t, tr, latest, emission.at.threshold, emission.plainRecs, v)
  BY <1>1 DEF RareInv, ToldRare, RaresTold
<1>3. ASSUME tr.buckets >= RareWarmup, most <= RareMaxBuckets PROVE IsRare(tr, v)
  <2>1. most \in Int
    <3>1. PICK n \in Nat : DOMAIN emission.log = 1..n
      BY DEF RareInv
    <3>2. Appeared(emission.log, v) \in Nat
      <4>1. IsFiniteSet(1..n)
        BY FS_Interval
      <4>. QED BY <3>1, <4>1, FS_Subset, FS_CardinalityType DEF Appeared
    <3>3. Cardinality(Sharing(d)) \in Nat
      BY SharingCounted
    <3>. QED BY <1>1, <3>2, <3>3, Products
  <2>. QED BY <1>2, <1>3, <2>1, RecordsAssumption DEF IsRare
<1>. QED BY <1>1, <1>2, <1>3

-----------------------------------------------------------------------------
(* The regions over a threshold.                                           *)

Region(n) == [start : 1..n, end : 1..n, peak : 1..n]

LEMMA ExtendedTyped ==
  ASSUME NEW n \in Nat, NEW scores, NEW threshold, NEW gap, NEW regions \in Seq(Region(n)),
         NEW i \in 1..n
  PROVE  Extended(scores, threshold, gap, regions, i) \in Seq(Region(n))
<1>1. [start |-> i, end |-> i, peak |-> i] \in Region(n)
  BY DEF Region
<1>2. Append(regions, [start |-> i, end |-> i, peak |-> i]) \in Seq(Region(n))
  BY <1>1
<1>3. ASSUME regions # <<>>
      PROVE  [regions EXCEPT ![Len(regions)] =
                [start |-> regions[Len(regions)].start, end |-> i,
                 peak |-> Higher(scores, regions[Len(regions)].peak, i)]]
                \in Seq(Region(n))
  <2>. DEFINE k == Len(regions)
              r == [start |-> regions[k].start, end |-> i,
                    peak |-> Higher(scores, regions[k].peak, i)]
  <2>1. k \in 1..Len(regions) /\ regions[k] \in Region(n)
    BY <1>3
  <2>2. r \in Region(n)
    BY <2>1 DEF Region, Higher
  <2>. HIDE DEF r
  <2>3. [regions EXCEPT ![k] = r] \in Seq(Region(n))
    BY <2>1, <2>2
  <2>. QED BY <2>3 DEF r
<1>. QED BY <1>2, <1>3 DEF Extended

\* Candidates goes through the points from the first to the last.
LEMMA CandidatesRun ==
  ASSUME NEW n \in Nat, NEW scores, DOMAIN scores = 1..n, NEW threshold, NEW gap
  PROVE  \E h : /\ h[0] = <<>> /\ h[n] = Candidates(scores, threshold, gap)
                /\ \A k \in 1..n : h[k] = Extended(scores, threshold, gap, h[k - 1], k)
<1>. DEFINE A == Seq(Region(n))
            op(a, i) == Extended(scores, threshold, gap, a, i)
            g == [x \in A \X (1..n) |-> op(x[1], x[2])]
            ids == [i \in DOMAIN scores |-> i]
            F(it) == [s \in SUBSET DOMAIN ids |->
                        IF s = {} THEN <<>> ELSE op(it[s \ {Max(s)}], ids[Max(s)])]
<1>1. \A a \in A, i \in 1..n : op(a, i) \in A /\ g[<<a, i>>] = op(a, i)
  BY ExtendedTyped
<1>2. g \in [A \X (1..n) -> A] /\ <<>> \in A
  BY ExtendedTyped
<1>0. DOMAIN ids = 1..n /\ \A i \in 1..n : ids[i] = i
  OBVIOUS
<1>3. PICK it0 \in [SUBSET (1..n) -> A] : IsFold(it0, n, <<>>, g)
  <2>. HIDE DEF A, g
  <2>. QED BY <1>2, FoldExists
<1>4. it0 = F(it0)
  <2>1. ASSUME NEW s \in SUBSET (1..n), s # {}
        PROVE  Max(s) \in 1..n /\ s \ {Max(s)} \in SUBSET (1..n)
    BY <2>1, GreatestOf
  <2>. HIDE DEF A, g, op
  <2>. HIDE DEF ids
  <2>2. ASSUME NEW s \in SUBSET (1..n)
        PROVE  it0[s] = IF s = {} THEN <<>> ELSE op(it0[s \ {Max(s)}], ids[Max(s)])
    <3>1. it0[s] = IF s = {} THEN <<>> ELSE g[<<it0[s \ {Max(s)}], Max(s)>>]
      BY <1>3 DEF IsFold
    <3>2. CASE s = {}
      BY <3>1, <3>2
    <3>3. CASE s # {}
      <4>1. it0[s \ {Max(s)}] \in A /\ Max(s) \in 1..n
        BY <2>1, <3>3
      <4>2. ids[Max(s)] = Max(s)
        BY <1>0, <4>1
      <4>3. g[<<it0[s \ {Max(s)}], Max(s)>>] = op(it0[s \ {Max(s)}], Max(s))
        BY <1>1, <4>1
      <4>. QED BY <3>1, <3>3, <4>2, <4>3
    <3>. QED BY <3>2, <3>3
  <2>3. it0 = [s \in SUBSET (1..n) |-> it0[s]]
    OBVIOUS
  <2>. QED BY <1>0, <2>2, <2>3
<1>. DEFINE it == CHOOSE f : f = F(f)
<1>5. it = F(it)
  <2>. HIDE DEF F
  <2>. QED BY <1>4
<1>6. Candidates(scores, threshold, gap) = it[DOMAIN ids]
  BY DEF Candidates, FoldLeftDomain, FoldLeft, MapThenFoldSet
<1>. HIDE DEF it
<1>. DEFINE h == [k \in 0..n |-> it[1..k]]
<1>7. h[0] = <<>> /\ h[n] = it[1..n]
  <2>1. 1..0 = {} /\ {} \in SUBSET DOMAIN ids /\ 0 \in 0..n /\ n \in 0..n
    OBVIOUS
  <2>2. it[{}] = <<>>
    <3>. HIDE DEF op, ids
    <3>. QED BY <1>5, <2>1
  <2>. QED BY <2>1, <2>2
<1>8. ASSUME NEW k \in 1..n PROVE h[k] = op(h[k - 1], k)
  <2>1. 1..k # {} /\ Max(1..k) = k /\ (1..k) \ {k} = 1..k - 1
    BY LastOfStretch
  <2>2. 1..k \in SUBSET (1..n) /\ k \in 0..n /\ k - 1 \in 0..n
    OBVIOUS
  <2>. HIDE DEF op, ids
  <2>3. it[1..k] = op(it[1..k - 1], k)
    <3>. DEFINE s == 1..k
    <3>. HIDE DEF s
    <3>1. s # {} /\ s \in SUBSET DOMAIN ids
      BY <1>0, <2>1, <2>2 DEF s
    <3>2. it[s] = op(it[s \ {Max(s)}], ids[Max(s)])
      BY <1>5, <3>1
    <3>. QED BY <1>0, <2>1, <3>2 DEF s
  <2>. QED BY <2>2, <2>3
<1>. HIDE DEF h
<1>. HIDE DEF ids
<1>. QED BY <1>0, <1>6, <1>7, <1>8

\* What a region promises, and what the regions of the first k points do.
RegionHolds(scores, t, gap, r) ==
    /\ Over(scores[r.start], t) /\ Over(scores[r.end], t) /\ Over(scores[r.peak], t)
    /\ r.start <= r.peak /\ r.peak <= r.end
    /\ \A x \in r.start..r.end - gap : \E y \in x..x + gap : Over(scores[y], t)
    /\ \A x \in r.start..r.end :
         Over(scores[x], t) => \/ scores[x] < scores[r.peak]
                               \/ scores[x] = scores[r.peak] /\ x >= r.peak
Grouped(scores, t, k, regions) ==
    \A x \in 1..k : Over(scores[x], t) =>
      /\ \E j \in DOMAIN regions : x \in regions[j].start..regions[j].end
      /\ regions # <<>> /\ x <= regions[Len(regions)].end
Apart(gap, regions) ==
    \A j \in 1..Len(regions) - 1 : regions[j + 1].start - regions[j].end > gap + 1
RegionsHold(scores, t, gap, k, regions) ==
    /\ regions \in Seq(Region(k))
    /\ Grouped(scores, t, k, regions)
    /\ \A j \in DOMAIN regions : RegionHolds(scores, t, gap, regions[j])
    /\ Apart(gap, regions)

LEMMA RegionsMonotone ==
  ASSUME NEW k \in Nat, NEW regions \in Seq(Region(k))
  PROVE  regions \in Seq(Region(k + 1))
<1>1. Region(k) \subseteq Region(k + 1)
  BY DEF Region
<1>. QED BY <1>1

\* A point that is not over leaves the regions as they are.
LEMMA QuietPoint ==
  ASSUME NEW k \in Nat, NEW scores, NEW t, NEW gap, NEW regions,
         RegionsHold(scores, t, gap, k, regions), ~Over(scores[k + 1], t)
  PROVE  RegionsHold(scores, t, gap, k + 1, regions)
<1>1. regions \in Seq(Region(k + 1))
  BY RegionsMonotone DEF RegionsHold
<1>2. Grouped(scores, t, k + 1, regions)
  <2>1. \A x \in 1..k + 1 : x \in 1..k \/ x = k + 1
    OBVIOUS
  <2>. QED BY <2>1 DEF RegionsHold, Grouped
<1>. QED BY <1>1, <1>2 DEF RegionsHold

\* One that is far from the last region starts its own.
LEMMA FarPoint ==
  ASSUME NEW k \in Nat, NEW scores, NEW t \in Int, NEW gap \in Nat, NEW regions,
         RegionsHold(scores, t, gap, k, regions), Over(scores[k + 1], t),
         regions # <<>> => k + 1 - regions[Len(regions)].end - 1 > gap
  PROVE  RegionsHold(scores, t, gap, k + 1,
                     Append(regions, [start |-> k + 1, end |-> k + 1, peak |-> k + 1]))
<1>. DEFINE r == [start |-> k + 1, end |-> k + 1, peak |-> k + 1]
            new == Append(regions, r)
<1>1. regions \in Seq(Region(k + 1)) /\ r \in Region(k + 1) /\ regions \in Seq(Region(k))
  <2>1. regions \in Seq(Region(k))
    BY DEF RegionsHold
  <2>2. r \in Region(k + 1)
    BY DEF Region
  <2>. QED BY <2>1, <2>2, RegionsMonotone
<1>2. r.start = k + 1 /\ r.end = k + 1 /\ r.peak = k + 1
  OBVIOUS
<1>. HIDE DEF r
<1>3. /\ new \in Seq(Region(k + 1)) /\ Len(regions) \in Nat /\ Len(new) = Len(regions) + 1
      /\ DOMAIN regions = 1..Len(regions) /\ DOMAIN new = 1..Len(regions) + 1
      /\ new # <<>> /\ new[Len(new)] = r
      /\ \A j \in 1..Len(regions) : new[j] = regions[j] /\ regions[j] \in Region(k)
  BY <1>1
<1>. HIDE DEF new
<1>4. Grouped(scores, t, k + 1, new)
  <2>. SUFFICES ASSUME NEW x \in 1..k + 1, Over(scores[x], t)
                PROVE  /\ \E j \in DOMAIN new : x \in new[j].start..new[j].end
                       /\ new # <<>> /\ x <= new[Len(new)].end
    BY DEF Grouped
  <2>1. x <= new[Len(new)].end /\ new # <<>>
    BY <1>2, <1>3
  <2>2. CASE x = k + 1
    BY <1>2, <1>3, <2>1, <2>2
  <2>3. CASE x \in 1..k
    <3>1. PICK j \in DOMAIN regions : x \in regions[j].start..regions[j].end
      BY <2>3 DEF RegionsHold, Grouped
    <3>. QED BY <1>3, <2>1, <3>1
  <2>. QED BY <2>2, <2>3
<1>5. RegionHolds(scores, t, gap, r)
  BY <1>2 DEF RegionHolds, Over
<1>6. \A j \in DOMAIN new : RegionHolds(scores, t, gap, new[j])
  BY <1>3, <1>5 DEF RegionsHold
<1>7. Apart(gap, new)
  <2>. SUFFICES ASSUME NEW j \in 1..Len(new) - 1
                PROVE  new[j + 1].start - new[j].end > gap + 1
    BY DEF Apart
  <2>1. CASE j = Len(regions)
    <3>1. regions[j].end \in Int /\ new[j] = regions[j] /\ new[j + 1] = r /\ regions # <<>>
      BY <1>3, <2>1 DEF Region
    <3>. QED BY <1>2, <2>1, <3>1
  <2>2. CASE j \in 1..Len(regions) - 1
    <3>1. new[j] = regions[j] /\ new[j + 1] = regions[j + 1]
      BY <1>3, <2>2
    <3>. QED BY <2>2, <3>1 DEF RegionsHold, Apart
  <2>3. j = Len(regions) \/ j \in 1..Len(regions) - 1
    <3>1. Len(regions) \in Nat /\ Len(new) = Len(regions) + 1
      BY <1>3
    <3>. QED BY <3>1
  <2>. QED BY <2>1, <2>2, <2>3
<1>. QED BY <1>3, <1>4, <1>6, <1>7 DEF RegionsHold, new, r

\* One that is near enough extends it.
LEMMA NearPoint ==
  ASSUME NEW k \in Nat, NEW scores, NEW t \in Int, NEW gap \in Nat, NEW regions,
         \A x \in 1..k + 1 : Over(scores[x], t) => scores[x] \in Int,
         RegionsHold(scores, t, gap, k, regions), Over(scores[k + 1], t),
         regions # <<>>, k + 1 - regions[Len(regions)].end - 1 <= gap,
         NEW open, open = regions[Len(regions)],
         NEW r, r = [start |-> open.start, end |-> k + 1,
                     peak |-> Higher(scores, open.peak, k + 1)]
  PROVE  RegionsHold(scores, t, gap, k + 1, [regions EXCEPT ![Len(regions)] = r])
<1>. DEFINE n == Len(regions)
            new == [regions EXCEPT ![n] = r]
<1>1. /\ regions \in Seq(Region(k)) /\ regions \in Seq(Region(k + 1)) /\ n \in 1..Len(regions)
      /\ open \in Region(k) /\ RegionHolds(scores, t, gap, open) /\ n \in Nat
  BY RegionsMonotone DEF RegionsHold
<1>2. /\ open.start \in 1..k /\ open.end \in 1..k /\ open.peak \in 1..k
      /\ open.start <= open.peak /\ open.peak <= open.end
  BY <1>1 DEF Region, RegionHolds
<1>3. /\ r.start = open.start /\ r.end = k + 1
      /\ r.peak = (IF scores[k + 1] > scores[open.peak] THEN k + 1 ELSE open.peak)
      /\ r \in Region(k + 1)
  BY <1>2 DEF Region, Higher
<1>4. /\ new \in Seq(Region(k + 1)) /\ Len(new) = n /\ DOMAIN new = 1..n
      /\ DOMAIN regions = 1..n /\ new # <<>> /\ new[n] = r
      /\ \A j \in 1..n : j # n => new[j] = regions[j]
  BY <1>1, <1>3
<1>9. /\ new[n].start = open.start /\ new[n].end = k + 1 /\ n \in DOMAIN new
      /\ new[Len(new)].end = k + 1 /\ regions[n] = open
  BY <1>1, <1>3, <1>4
<1>. HIDE DEF new, n
<1>5. Grouped(scores, t, k + 1, new)
  <2>. SUFFICES ASSUME NEW x \in 1..k + 1, Over(scores[x], t)
                PROVE  /\ \E j \in DOMAIN new : x \in new[j].start..new[j].end
                       /\ new # <<>> /\ x <= new[Len(new)].end
    BY DEF Grouped
  <2>1. x <= new[Len(new)].end /\ new # <<>>
    BY <1>4, <1>9
  <2>2. CASE x = k + 1
    <3>1. x \in new[n].start..new[n].end
      BY <1>2, <1>9, <2>2
    <3>. QED BY <1>9, <2>1, <3>1
  <2>3. CASE x \in 1..k
    <3>1. PICK j \in DOMAIN regions : x \in regions[j].start..regions[j].end
      BY <2>3 DEF RegionsHold, Grouped
    <3>2. CASE j = n
      <4>1. x \in new[n].start..new[n].end
        BY <1>2, <1>9, <2>3, <3>1, <3>2
      <4>. QED BY <1>9, <2>1, <4>1
    <3>3. CASE j # n
      BY <1>4, <2>1, <3>1, <3>3
    <3>. QED BY <3>2, <3>3
  <2>. QED BY <2>2, <2>3
<1>6. RegionHolds(scores, t, gap, r)
  <2>1. /\ scores[k + 1] \in Int /\ scores[open.peak] \in Int
        /\ Over(scores[open.start], t) /\ Over(scores[open.peak], t) /\ Over(scores[open.end], t)
    BY <1>1, <1>2 DEF RegionHolds
  <2>2. Over(scores[r.start], t) /\ Over(scores[r.end], t) /\ Over(scores[r.peak], t)
        /\ r.start <= r.peak /\ r.peak <= r.end
    BY <1>2, <1>3, <2>1
  <2>3. ASSUME NEW x \in r.start..r.end - gap PROVE \E y \in x..x + gap : Over(scores[y], t)
    <3>1. CASE x <= open.end - gap
      <4>1. x \in open.start..open.end - gap
        BY <1>2, <1>3, <3>1
      <4>. QED BY <1>1, <4>1 DEF RegionHolds
    <3>2. CASE x > open.end - gap /\ x <= open.end
      <4>1. open.end \in x..x + gap
        BY <1>2, <1>3, <3>2
      <4>. QED BY <2>1, <4>1
    <3>3. CASE x > open.end
      <4>1. k + 1 \in x..x + gap
        BY <1>2, <1>3, <3>3
      <4>. QED BY <4>1
    <3>. QED BY <1>2, <1>3, <3>1, <3>2, <3>3
  <2>4. ASSUME NEW x \in r.start..r.end, Over(scores[x], t)
        PROVE  \/ scores[x] < scores[r.peak]
               \/ scores[x] = scores[r.peak] /\ x >= r.peak
    <3>1. scores[x] \in Int /\ x \in 1..k + 1
      BY <1>2, <1>3, <2>4
    <3>2. CASE x = k + 1
      BY <1>2, <1>3, <2>1, <3>2
    <3>3. CASE x \in 1..k
      <4>1. x <= open.end
        BY <2>4, <3>3 DEF RegionsHold, Grouped
      <4>2. x \in open.start..open.end
        BY <1>2, <1>3, <3>3, <4>1
      <4>3. \/ scores[x] < scores[open.peak]
            \/ scores[x] = scores[open.peak] /\ x >= open.peak
        BY <1>1, <2>4, <4>2 DEF RegionHolds
      <4>. QED BY <1>3, <2>1, <3>1, <4>3
    <3>. QED BY <3>1, <3>2, <3>3
  <2>. QED BY <2>2, <2>3, <2>4 DEF RegionHolds
<1>7. \A j \in DOMAIN new : RegionHolds(scores, t, gap, new[j])
  BY <1>4, <1>6 DEF RegionsHold
<1>8. Apart(gap, new)
  <2>. SUFFICES ASSUME NEW j \in 1..n - 1
                PROVE  new[j + 1].start - new[j].end > gap + 1
    BY <1>4 DEF Apart
  <2>1. j \in 1..n /\ j # n /\ j + 1 \in 1..n
    BY <1>1
  <2>2. new[j] = regions[j]
    BY <1>4, <2>1
  <2>3. new[j + 1].start = regions[j + 1].start
    BY <1>4, <1>9, <2>1
  <2>. QED BY <2>2, <2>3 DEF RegionsHold, Apart, n
<1>. QED BY <1>4, <1>5, <1>7, <1>8 DEF RegionsHold, new, n

LEMMA ExtendedIs ==
  ASSUME NEW scores, NEW t, NEW gap, NEW regions, NEW i,
         NEW open, open = regions[Len(regions)],
         NEW r, r = [start |-> open.start, end |-> i, peak |-> Higher(scores, open.peak, i)],
         NEW f, f = [start |-> i, end |-> i, peak |-> i]
  PROVE  /\ ~Over(scores[i], t) => Extended(scores, t, gap, regions, i) = regions
         /\ Over(scores[i], t) /\ (regions # <<>> /\ i - open.end - 1 <= gap)
            => Extended(scores, t, gap, regions, i) = [regions EXCEPT ![Len(regions)] = r]
         /\ Over(scores[i], t) /\ ~(regions # <<>> /\ i - open.end - 1 <= gap)
            => Extended(scores, t, gap, regions, i) = Append(regions, f)
BY DEF Extended

LEMMA RegionsGrow ==
  ASSUME NEW k \in Nat, NEW i, i = k + 1, NEW scores, NEW t \in Int, NEW gap \in Nat, NEW regions,
         \A x \in 1..k + 1 : Over(scores[x], t) => scores[x] \in Int,
         RegionsHold(scores, t, gap, k, regions)
  PROVE  RegionsHold(scores, t, gap, k + 1, Extended(scores, t, gap, regions, i))
<1>1. PICK open : open = regions[Len(regions)]
  OBVIOUS
<1>2. PICK r : r = [start |-> open.start, end |-> i, peak |-> Higher(scores, open.peak, i)]
  OBVIOUS
<1>0. PICK fresh : fresh = [start |-> i, end |-> i, peak |-> i]
  OBVIOUS
<1>. DEFINE next == Extended(scores, t, gap, regions, i)
<1>3. /\ ~Over(scores[i], t) => next = regions
      /\ Over(scores[i], t) /\ (regions # <<>> /\ i - open.end - 1 <= gap)
            => next = [regions EXCEPT ![Len(regions)] = r]
      /\ Over(scores[i], t) /\ ~(regions # <<>> /\ i - open.end - 1 <= gap)
            => next = Append(regions, fresh)
  BY <1>0, <1>1, <1>2, ExtendedIs
<1>. HIDE DEF next
<1>4. CASE ~Over(scores[i], t)
  BY <1>3, <1>4, QuietPoint DEF next
<1>5. CASE Over(scores[i], t) /\ (regions # <<>> /\ i - open.end - 1 <= gap)
  <2>1. RegionsHold(scores, t, gap, k + 1, [regions EXCEPT ![Len(regions)] = r])
    <3>1. /\ Over(scores[k + 1], t) /\ regions # <<>>
          /\ k + 1 - regions[Len(regions)].end - 1 <= gap
      <4>1. open \in Region(k)
        BY <1>1, <1>5 DEF RegionsHold
      <4>2. open.end \in Int
        BY <4>1 DEF Region
      <4>3. k + 1 - open.end - 1 <= gap
        BY <1>5, <4>2
      <4>. QED BY <1>1, <1>5, <4>3
    <3>2. r = [start |-> open.start, end |-> k + 1, peak |-> Higher(scores, open.peak, k + 1)]
      BY <1>2
    <3>. QED BY <1>1, <3>1, <3>2, NearPoint
  <2>. QED BY <1>3, <1>5, <2>1 DEF next
<1>6. CASE Over(scores[i], t) /\ ~(regions # <<>> /\ i - open.end - 1 <= gap)
  <2>1. regions # <<>> => k + 1 - regions[Len(regions)].end - 1 > gap
    <3>. SUFFICES ASSUME regions # <<>>
                  PROVE  k + 1 - regions[Len(regions)].end - 1 > gap
      OBVIOUS
    <3>1. regions[Len(regions)] \in Region(k)
      BY DEF RegionsHold
    <3>2. regions[Len(regions)].end \in Int
      BY <3>1 DEF Region
    <3>. QED BY <1>1, <1>6, <3>2
  <2>2. RegionsHold(scores, t, gap, k + 1, Append(regions, fresh))
    BY <1>0, <1>6, <2>1, FarPoint
  <2>. QED BY <1>3, <1>6, <2>2 DEF next
<1>. QED BY <1>4, <1>5, <1>6

\* The regions of all points.
LEMMA CandidatesHold ==
  ASSUME NEW n \in Nat, NEW scores, DOMAIN scores = 1..n, NEW t \in Int, NEW gap \in Nat,
         \A x \in 1..n : Over(scores[x], t) => scores[x] \in Int
  PROVE  RegionsHold(scores, t, gap, n, Candidates(scores, t, gap))
<1>1. PICK h : /\ h[0] = <<>> /\ h[n] = Candidates(scores, t, gap)
               /\ \A k \in 1..n : h[k] = Extended(scores, t, gap, h[k - 1], k)
  BY CandidatesRun
<1>. DEFINE Bad == {k \in 0..n : ~RegionsHold(scores, t, gap, k, h[k])}
<1>2. Bad = {}
  <2>. SUFFICES ASSUME Bad # {} PROVE FALSE
    OBVIOUS
  <2>1. PICK k \in Bad : \A j \in Bad : k <= j
    <3>. HIDE DEF Bad
    <3>1. Bad \subseteq Nat
      BY DEF Bad
    <3>. QED BY <3>1, LeastNumber
  <2>2. k \in 0..n /\ ~RegionsHold(scores, t, gap, k, h[k])
    BY <2>1
  <2>3. k # 0
    <3>1. RegionsHold(scores, t, gap, 0, <<>>)
      BY DEF RegionsHold, Grouped, Apart
    <3>. QED BY <1>1, <2>2, <3>1
  <2>4. PICK m \in 0..n : m + 1 = k
    BY <2>2, <2>3
  <2>5. m \notin Bad
    BY <2>1, <2>4
  <2>6. RegionsHold(scores, t, gap, m, h[m])
    BY <2>5
  <2>7. h[k] = Extended(scores, t, gap, h[m], k)
    BY <1>1, <2>2, <2>4
  <2>8. RegionsHold(scores, t, gap, m + 1, Extended(scores, t, gap, h[m], m + 1))
    <3>1. \A x \in 1..m + 1 : Over(scores[x], t) => scores[x] \in Int
      BY <2>2, <2>4
    <3>. QED BY <2>4, <2>6, <3>1, RegionsGrow
  <2>. QED BY <2>2, <2>4, <2>7, <2>8
<1>3. RegionsHold(scores, t, gap, n, h[n])
  BY <1>2
<1>. QED BY <1>1, <1>3

-----------------------------------------------------------------------------
(* The policy over a window of scores.                                     *)

Guards(o) ==
    [opt : {o}, ring : [0..o.of - 1 -> BOOLEAN], at : 0..o.of - 1, filled : Nat, hot : Int,
     quiet : Nat, seen : Nat, penalty : {0}, lastFire : Int]
Runs(o) == [guard : Guards(o), fired : Seq(BOOLEAN)]

\* What Apply adds to its run at a score.
Fed(acc, s) == [guard |-> Step(acc.guard, s).guard, fired |-> Append(acc.fired, Step(acc.guard, s).fired)]

LEMMA StepTyped ==
  ASSUME NEW o, OptTyped(o), NEW g \in Guards(o), NEW score
  PROVE  /\ Step(g, score).guard \in Guards(o) /\ Step(g, score).fired \in BOOLEAN
         /\ Step(g, score).guard.seen = g.seen + 1
         /\ Step(g, score).fired => g.seen >= o.warmup
         /\ Step(g, score).fired => Step(g, score).guard.hot >= o.persist
         /\ LET over == ~Suppressed(g) /\ Over(score, Threshold(g)) IN
            Moved(g, Step(g, score).guard, over, Step(g, score).fired)
<1>. DEFINE over == ~Suppressed(g) /\ Over(score, Threshold(g))
            h == Step(g, score).guard
<1>0. PICK p : p = PushedTo(g, over)
  OBVIOUS
<1>. DEFINE fires == MayFire(g, p, score)
<1>1. Shape(g) /\ g.opt = o /\ g.at \in 0..g.opt.of - 1 /\ g.penalty = 0
  BY DEF Guards, Shape
<1>2. Step(g, score).fired = fires /\ Moved(g, h, over, fires) /\ p.hot = h.hot
  <2>. HIDE DEF fires, h, over
  <2>1. OptTyped(g.opt) /\ over = (~Suppressed(g) /\ Over(score, Threshold(g)))
        /\ h = Step(g, score).guard /\ fires = MayFire(g, p, score)
    BY <1>1 DEF over, h, fires
  <2>. QED BY <1>0, <1>1, <2>1, StepParts
<1>3. fires \in BOOLEAN /\ over \in BOOLEAN
  BY DEF MayFire, Over, Suppressed
<1>4. fires => g.seen >= o.warmup /\ p.hot >= o.persist
  BY <1>1 DEF MayFire
<1>. HIDE DEF fires, h, over
<1>5. h \in Guards(o)
  <2>0. /\ o.of \in Nat /\ o.refractory \in Nat /\ g.ring \in [0..o.of - 1 -> BOOLEAN]
        /\ g.at \in 0..o.of - 1 /\ g.filled \in Nat /\ g.hot \in Int /\ g.quiet \in Nat
        /\ g.seen \in Nat /\ g.lastFire \in Int /\ g.opt = o
    BY DEF Guards, OptTyped
  <2>1. h.ring \in [0..o.of - 1 -> BOOLEAN]
    <3>1. h.ring = [g.ring EXCEPT ![g.at] = over]
      BY <1>2 DEF Moved
    <3>. QED BY <1>3, <2>0, <3>1
  <2>2. h.at \in 0..o.of - 1 /\ h.filled \in Nat /\ h.hot \in Int
    <3>1. /\ h.at = (IF g.at + 1 = g.opt.of THEN 0 ELSE g.at + 1)
          /\ h.filled = (IF g.filled < g.opt.of THEN g.filled + 1 ELSE g.filled)
      BY <1>2 DEF Moved
    <3>2. h.hot = g.hot - (IF g.filled = g.opt.of /\ g.ring[g.at] THEN 1 ELSE 0)
                        + (IF over THEN 1 ELSE 0)
      BY <1>2 DEF Moved
    <3>3. h.at \in 0..o.of - 1
      BY <2>0, <3>1
    <3>4. h.filled \in Nat
      BY <2>0, <3>1
    <3>5. h.hot \in Int
      BY <2>0, <3>2
    <3>. QED BY <3>3, <3>4, <3>5
  <2>3. h.quiet \in Nat /\ h.seen \in Nat /\ h.lastFire \in Int
    BY <1>2, <2>0 DEF Moved
  <2>4. h = [opt |-> g.opt, ring |-> h.ring, at |-> h.at, filled |-> h.filled, hot |-> h.hot,
             quiet |-> h.quiet, seen |-> g.seen + 1, penalty |-> g.penalty,
             lastFire |-> h.lastFire]
    BY <1>2 DEF Moved
  <2>. QED BY <1>1, <2>0, <2>1, <2>2, <2>3, <2>4 DEF Guards
<1>6. h.seen = g.seen + 1
  BY <1>2 DEF Moved
<1>. QED BY <1>2, <1>3, <1>4, <1>5, <1>6 DEF h, over

LEMMA FreshTyped ==
  ASSUME NEW opt, OptTyped(Resolved(opt))
  PROVE  NewGuard(opt) \in Guards(Resolved(opt))
BY DEF NewGuard, Guards, OptTyped

LEMMA FedTyped ==
  ASSUME NEW o, OptTyped(o), NEW acc \in Runs(o), NEW score
  PROVE  Fed(acc, score) \in Runs(o)
<1>1. acc.guard \in Guards(o) /\ acc.fired \in Seq(BOOLEAN)
  BY DEF Runs
<1>2. Step(acc.guard, score).guard \in Guards(o) /\ Step(acc.guard, score).fired \in BOOLEAN
  BY <1>1, StepTyped
<1>3. Append(acc.fired, Step(acc.guard, score).fired) \in Seq(BOOLEAN)
  BY <1>1, <1>2
<1>. QED BY <1>2, <1>3 DEF Runs, Fed

\* Apply goes through the scores from the first to the last.
LEMMA ApplyRun ==
  ASSUME NEW n \in Nat, NEW scores, DOMAIN scores = 1..n, NEW opt, OptTyped(Resolved(opt))
  PROVE  \E h : /\ h[0] = [guard |-> NewGuard(opt), fired |-> <<>>]
                /\ Apply(scores, opt) = h[n].fired
                /\ \A k \in 0..n : h[k] \in Runs(Resolved(opt))
                /\ \A k \in 1..n : h[k] = Fed(h[k - 1], scores[k])
<1>. DEFINE A == Runs(Resolved(opt))
            fresh == [guard |-> NewGuard(opt), fired |-> <<>>]
            g == [x \in A \X (1..n) |-> Fed(x[1], scores[x[2]])]
            F(it) == [s \in SUBSET DOMAIN scores |->
                        IF s = {} THEN fresh ELSE Fed(it[s \ {Max(s)}], scores[Max(s)])]
<1>1. \A a \in A, i \in 1..n : Fed(a, scores[i]) \in A /\ g[<<a, i>>] = Fed(a, scores[i])
  BY FedTyped
<1>2. g \in [A \X (1..n) -> A] /\ fresh \in A
  <2>1. fresh \in A
    BY FreshTyped DEF Runs
  <2>2. \A x \in A \X (1..n) : Fed(x[1], scores[x[2]]) \in A
    BY FedTyped
  <2>. HIDE DEF A, fresh
  <2>. QED BY <2>1, <2>2
<1>3. PICK it0 \in [SUBSET (1..n) -> A] : IsFold(it0, n, fresh, g)
  <2>. HIDE DEF A, g, fresh
  <2>. QED BY <1>2, FoldExists
<1>4. it0 = F(it0)
  <2>1. ASSUME NEW s \in SUBSET (1..n), s # {}
        PROVE  Max(s) \in 1..n /\ s \ {Max(s)} \in SUBSET (1..n)
    BY <2>1, GreatestOf
  <2>. HIDE DEF A, g, fresh
  <2>2. ASSUME NEW s \in SUBSET (1..n)
        PROVE  it0[s] = IF s = {} THEN fresh ELSE Fed(it0[s \ {Max(s)}], scores[Max(s)])
    <3>1. it0[s] = IF s = {} THEN fresh ELSE g[<<it0[s \ {Max(s)}], Max(s)>>]
      BY <1>3 DEF IsFold
    <3>2. CASE s = {}
      BY <3>1, <3>2
    <3>3. CASE s # {}
      <4>1. it0[s \ {Max(s)}] \in A /\ Max(s) \in 1..n
        BY <2>1, <3>3
      <4>2. g[<<it0[s \ {Max(s)}], Max(s)>>] = Fed(it0[s \ {Max(s)}], scores[Max(s)])
        BY <1>1, <4>1
      <4>. QED BY <3>1, <3>3, <4>2
    <3>. QED BY <3>2, <3>3
  <2>3. it0 = [s \in SUBSET (1..n) |-> it0[s]]
    OBVIOUS
  <2>. QED BY <2>2, <2>3
<1>. DEFINE it == CHOOSE f : f = F(f)
<1>5. it = F(it)
  <2>. HIDE DEF F
  <2>. QED BY <1>4
<1>6. Apply(scores, opt) = it[DOMAIN scores].fired
  BY DEF Apply, FoldLeft, MapThenFoldSet, Fed
<1>. HIDE DEF it
<1>. DEFINE h == [k \in 0..n |-> it[1..k]]
<1>7. h[0] = fresh /\ h[n] = it[1..n]
  <2>1. 1..0 = {} /\ {} \in SUBSET DOMAIN scores /\ 0 \in 0..n /\ n \in 0..n
    OBVIOUS
  <2>2. it[{}] = fresh
    <3>. HIDE DEF fresh
    <3>. QED BY <1>5, <2>1
  <2>. QED BY <2>1, <2>2
<1>8. ASSUME NEW k \in 1..n PROVE h[k] = Fed(h[k - 1], scores[k])
  <2>2. 1..k \in SUBSET (1..n) /\ k \in 0..n /\ k - 1 \in 0..n /\ k \in Nat /\ k # 0
    OBVIOUS
  <2>1. 1..k # {} /\ Max(1..k) = k /\ (1..k) \ {k} = 1..k - 1
    BY <2>2, LastOfStretch
  <2>. HIDE DEF fresh
  <2>3. it[1..k] = Fed(it[1..k - 1], scores[k])
    <3>. DEFINE s == 1..k
    <3>. HIDE DEF s
    <3>1. s # {} /\ s \in SUBSET DOMAIN scores
      BY <2>1, <2>2 DEF s
    <3>2. it[s] = Fed(it[s \ {Max(s)}], scores[Max(s)])
      BY <1>5, <3>1
    <3>. QED BY <2>1, <3>2 DEF s
  <2>. QED BY <2>2, <2>3
<1>. HIDE DEF h, F
<1>9. \A k \in 0..n : h[k] \in A
  <2>. DEFINE Bad == {k \in 0..n : h[k] \notin A}
  <2>. HIDE DEF A, fresh
  <2>. SUFFICES ASSUME Bad # {} PROVE FALSE
    OBVIOUS
  <2>1. PICK k \in Bad : \A j \in Bad : k <= j
    <3>1. Bad \subseteq Nat
      OBVIOUS
    <3>. HIDE DEF Bad
    <3>. QED BY <3>1, LeastNumber
  <2>2. k \in 0..n /\ h[k] \notin A
    OBVIOUS
  <2>3. k # 0
    BY <1>2, <1>7, <2>2
  <2>4. PICK m \in 0..n : m + 1 = k
    BY <2>2, <2>3
  <2>5. m \notin Bad /\ k \in 1..n /\ k - 1 = m
    BY <2>1, <2>2, <2>3, <2>4
  <2>6. h[m] \in A
    BY <2>5
  <2>7. h[k] = Fed(h[m], scores[k])
    BY <1>8, <2>5
  <2>8. Fed(h[m], scores[k]) \in A
    BY <1>1, <2>5, <2>6
  <2>. QED BY <2>2, <2>7, <2>8
<1>. QED BY <1>6, <1>7, <1>8, <1>9

LEMMA ApplyFacts ==
  ASSUME NEW n \in Nat, NEW scores, DOMAIN scores = 1..n, NEW opt, OptTyped(Resolved(opt))
  PROVE  /\ Apply(scores, opt) \in Seq(BOOLEAN) /\ Len(Apply(scores, opt)) = n
         /\ \A i \in 1..n : Apply(scores, opt)[i] => i > Resolved(opt).warmup
<1>. DEFINE o == Resolved(opt)
<1>1. PICK h : /\ h[0] = [guard |-> NewGuard(opt), fired |-> <<>>]
               /\ Apply(scores, opt) = h[n].fired
               /\ \A k \in 0..n : h[k] \in Runs(o)
               /\ \A k \in 1..n : h[k] = Fed(h[k - 1], scores[k])
  BY ApplyRun
<1>. DEFINE T == {k \in 0..n : /\ h[k].guard.seen = k /\ Len(h[k].fired) = k
                               /\ \A i \in 1..k : h[k].fired[i] => i > o.warmup}
<1>2. 0 \in T
  BY <1>1 DEF NewGuard
<1>3. ASSUME NEW k \in 0..n - 1, k \in T PROVE k + 1 \in T
  <2>1. k \in 0..n /\ k + 1 \in 1..n /\ k + 1 - 1 = k /\ k + 1 \in 0..n
    OBVIOUS
  <2>2. /\ h[k].guard.seen = k /\ Len(h[k].fired) = k
        /\ \A i \in 1..k : h[k].fired[i] => i > o.warmup
    BY <1>3
  <2>. HIDE DEF o
  <2>3. h[k + 1] = Fed(h[k], scores[k + 1])
    BY <1>1, <2>1
  <2>4. h[k].guard \in Guards(o) /\ h[k].fired \in Seq(BOOLEAN)
    BY <1>1, <2>1 DEF Runs
  <2>. DEFINE r == Step(h[k].guard, scores[k + 1])
  <2>5. /\ r.guard.seen = h[k].guard.seen + 1 /\ r.fired \in BOOLEAN
        /\ r.fired => h[k].guard.seen >= o.warmup
    BY <2>4, StepTyped DEF o
  <2>6. h[k + 1].guard = r.guard /\ h[k + 1].fired = Append(h[k].fired, r.fired)
    BY <2>3 DEF Fed
  <2>. HIDE DEF r
  <2>7. o.warmup \in Nat
    BY DEF o, OptTyped
  <2>8. /\ h[k + 1].guard.seen = k + 1 /\ Len(h[k + 1].fired) = k + 1
    BY <2>2, <2>4, <2>5, <2>6
  <2>9. ASSUME NEW i \in 1..k + 1, h[k + 1].fired[i] PROVE i > o.warmup
    <3>1. CASE i = k + 1
      <4>1. h[k + 1].fired[i] = r.fired
        BY <2>2, <2>4, <2>6, <3>1
      <4>. QED BY <2>2, <2>5, <2>7, <2>9, <3>1, <4>1
    <3>2. CASE i \in 1..k
      <4>1. h[k + 1].fired[i] = h[k].fired[i]
        BY <2>2, <2>4, <2>6, <3>2
      <4>. QED BY <2>2, <2>9, <3>2, <4>1
    <3>. QED BY <3>1, <3>2
  <2>. QED BY <2>1, <2>8, <2>9
<1>4. n \in T
  <2>. HIDE DEF T, o
  <2>1. \A k \in 0..n : k \in T
    BY <1>2, <1>3, StepByStep
  <2>. QED BY <2>1
<1>5. h[n].fired \in Seq(BOOLEAN)
  <2>1. n \in 0..n
    OBVIOUS
  <2>. QED BY <1>1, <2>1 DEF Runs
<1>. QED BY <1>1, <1>4, <1>5

\* A policy whose threshold nothing reaches never fires.
LEMMA SilentPolicy ==
  ASSUME NEW n \in Nat, NEW scores, DOMAIN scores = 1..n, NEW opt, OptTyped(Resolved(opt)),
         \A i \in 1..n : ~Over(scores[i], Resolved(opt).threshold)
  PROVE  Fires(Apply(scores, opt)) = {}
<1>. DEFINE o == Resolved(opt)
<1>1. PICK h : /\ h[0] = [guard |-> NewGuard(opt), fired |-> <<>>]
               /\ Apply(scores, opt) = h[n].fired
               /\ \A k \in 0..n : h[k] \in Runs(o)
               /\ \A k \in 1..n : h[k] = Fed(h[k - 1], scores[k])
  BY ApplyRun
<1>0. o.of \in Nat /\ o.persist \in 1..o.of /\ o.threshold \in Int
  BY DEF OptTyped
<1>. DEFINE Cold(g) == g.hot = 0 /\ \A i \in 0..o.of - 1 : g.ring[i] = FALSE
            T == {k \in 0..n : Cold(h[k].guard) /\ \A i \in 1..Len(h[k].fired) : ~h[k].fired[i]}
<1>2. 0 \in T
  <2>1. NewGuard(opt).hot = 0 /\ \A i \in 0..o.of - 1 : NewGuard(opt).ring[i] = FALSE
    BY DEF NewGuard
  <2>2. h[0].guard = NewGuard(opt) /\ h[0].fired = <<>>
    BY <1>1
  <2>3. Cold(h[0].guard)
    <3>. HIDE DEF o
    <3>. QED BY <2>1, <2>2
  <2>. HIDE DEF Cold
  <2>. QED BY <2>2, <2>3
<1>3. ASSUME NEW k \in 0..n - 1, k \in T PROVE k + 1 \in T
  <2>1. k \in 0..n /\ k + 1 \in 1..n /\ k + 1 - 1 = k /\ k + 1 \in 0..n
    OBVIOUS
  <2>2. Cold(h[k].guard) /\ \A i \in 1..Len(h[k].fired) : ~h[k].fired[i]
    BY <1>3
  <2>. HIDE DEF o, T
  <2>3. h[k + 1] = Fed(h[k], scores[k + 1])
    BY <1>1, <2>1
  <2>4. h[k].guard \in Guards(o) /\ h[k].fired \in Seq(BOOLEAN)
    BY <1>1, <2>1 DEF Runs
  <2>. DEFINE g == h[k].guard
              r == Step(g, scores[k + 1])
              over == ~Suppressed(g) /\ Over(scores[k + 1], Threshold(g))
  <2>5. /\ r.fired => r.guard.hot >= o.persist
        /\ r.fired \in BOOLEAN
        /\ Moved(g, r.guard, over, r.fired)
    BY <2>4, StepTyped DEF o
  <2>6. h[k + 1].guard = r.guard /\ h[k + 1].fired = Append(h[k].fired, r.fired)
    BY <2>3 DEF Fed
  <2>7. ~over
    <3>1. Threshold(g) = o.threshold
      <4>1. g.opt = o /\ g.penalty = 0
        BY <2>4 DEF Guards
      <4>. HIDE DEF g
      <4>. QED BY <1>0, <4>1 DEF Threshold
    <3>. QED BY <2>1, <3>1 DEF o
  <2>8. g.opt = o /\ g.at \in 0..o.of - 1 /\ g.ring \in [0..o.of - 1 -> BOOLEAN]
    BY <2>4 DEF Guards
  <2>. HIDE DEF r, g, over
  <2>9. Cold(r.guard)
    <3>1. /\ r.guard.ring = [g.ring EXCEPT ![g.at] = over]
          /\ r.guard.hot = g.hot - (IF g.filled = g.opt.of /\ g.ring[g.at] THEN 1 ELSE 0)
                                 + (IF over THEN 1 ELSE 0)
      BY <2>5 DEF Moved
    <3>2. g.hot = 0 /\ \A i \in 0..o.of - 1 : g.ring[i] = FALSE
      BY <2>2 DEF g
    <3>3. r.guard.hot = 0
      BY <2>7, <2>8, <3>1, <3>2
    <3>4. over = FALSE
      BY <2>7 DEF over, Over, Suppressed
    <3>5. \A i \in 0..o.of - 1 : r.guard.ring[i] = FALSE
      BY <2>8, <3>1, <3>2, <3>4
    <3>. QED BY <3>3, <3>5
  <2>10. ~r.fired
    BY <1>0, <2>5, <2>9
  <2>11. \A i \in 1..Len(h[k + 1].fired) : ~h[k + 1].fired[i]
    BY <2>2, <2>4, <2>5, <2>6, <2>10
  <2>. QED BY <2>1, <2>6, <2>9, <2>11 DEF T
<1>4. n \in T
  <2>. HIDE DEF T, o
  <2>1. \A k \in 0..n : k \in T
    BY <1>2, <1>3, StepByStep
  <2>. QED BY <2>1
<1>5. h[n].fired \in Seq(BOOLEAN)
  <2>1. n \in 0..n
    OBVIOUS
  <2>. QED BY <1>1, <2>1 DEF Runs
<1>6. \A i \in DOMAIN h[n].fired : ~h[n].fired[i]
  BY <1>4, <1>5
<1>. QED BY <1>1, <1>6 DEF Fires

\* The scores of a window in ascending order, each once.
LEMMA AscendingOf ==
  ASSUME NEW S \in SUBSET Int, IsFiniteSet(S)
  PROVE  /\ Cardinality(S) \in Nat /\ Ascending(S) \in [1..Cardinality(S) -> S]
<1>. DEFINE n == Cardinality(S)
            UpTo(v) == {w \in S : w <= v}
            rank == [v \in S |-> Cardinality(UpTo(v))]
            a == Ascending(S)
<1>1. n \in Nat
  BY FS_CardinalityType
<1>2. ASSUME NEW v \in S
      PROVE  IsFiniteSet(UpTo(v)) /\ Cardinality(UpTo(v)) \in 1..n
  <2>1. UpTo(v) \in SUBSET S /\ v \in UpTo(v)
    OBVIOUS
  <2>. HIDE DEF UpTo
  <2>2. /\ IsFiniteSet(UpTo(v)) /\ Cardinality(UpTo(v)) <= n /\ Cardinality(UpTo(v)) \in Nat
    BY <2>1, FS_Subset, FS_CardinalityType
  <2>3. Cardinality(UpTo(v)) # 0
    BY <2>1, <2>2, FS_EmptySet
  <2>. HIDE DEF n
  <2>. QED BY <1>1, <2>2, <2>3
<1>3. ASSUME NEW v \in S, NEW w \in S, v < w
      PROVE  Cardinality(UpTo(v)) < Cardinality(UpTo(w))
  <2>1. v \in Int /\ w \in Int /\ \A x \in S : x \in Int
    OBVIOUS
  <2>2. UpTo(v) \in SUBSET UpTo(w)
    <3>1. \A x \in S : x <= v => x <= w
      BY <1>3, <2>1
    <3>. QED BY <3>1
  <2>3. w <= w /\ ~(w <= v)
    BY <1>3, <2>1
  <2>4. w \in UpTo(w) /\ w \notin UpTo(v)
    BY <2>3
  <2>. HIDE DEF UpTo
  <2>5. /\ Cardinality(UpTo(v)) <= Cardinality(UpTo(w))
        /\ Cardinality(UpTo(v)) # Cardinality(UpTo(w))
    BY <1>2, <2>2, <2>4, FS_Subset
  <2>6. Cardinality(UpTo(v)) \in Int /\ Cardinality(UpTo(w)) \in Int
    BY <1>1, <1>2
  <2>. QED BY <2>5, <2>6
<1>4. rank \in Injection(S, 1..n)
  <2>1. rank \in [S -> 1..n] /\ \A v \in S : rank[v] = Cardinality(UpTo(v))
    BY <1>2
  <2>2. ASSUME NEW v \in S, NEW w \in S, rank[v] = rank[w] PROVE v = w
    <3>1. v \in Int /\ w \in Int
      OBVIOUS
    <3>2. rank[v] \in Int
      BY <1>1, <2>1
    <3>. HIDE DEF rank, UpTo
    <3>3. ~(v < w) /\ ~(w < v)
      BY <1>3, <2>1, <2>2, <3>2
    <3>. QED BY <3>1, <3>3
  <2>. HIDE DEF rank
  <2>. QED BY <2>1, <2>2 DEF Injection, IsInjective
<1>5. rank \in Surjection(S, 1..n)
  <2>1. IsFiniteSet(1..n) /\ Cardinality(1..n) = n
    BY <1>1, FS_Interval
  <2>. HIDE DEF rank
  <2>. QED BY <1>4, <2>1, FS_Injection
<1>6. ASSUME NEW i \in 1..n PROVE a[i] \in S /\ Cardinality(UpTo(a[i])) = i
  <2>1. \E v \in S : Cardinality(UpTo(v)) = i
    BY <1>5 DEF Surjection
  <2>2. a[i] = CHOOSE v \in S : Cardinality(UpTo(v)) = i
    BY DEF Ascending
  <2>. HIDE DEF UpTo, a
  <2>. QED BY <2>1, <2>2<1>. QED
  <2>1. a = [i \in 1..n |-> CHOOSE v \in S : Cardinality(UpTo(v)) = i]
    BY DEF Ascending
  <2>. HIDE DEF a, UpTo
  <2>2. a \in [1..n -> S]
    BY <1>6, <2>1
  <2>. QED BY <1>1, <2>2 DEF a

-----------------------------------------------------------------------------
(* The search for a threshold.                                             *)

FiniteOf(scores) == ToSet(scores) \ {NotANumber, Infinite}
InBudget(scores, budget, opt, x) == Count(scores, opt, x) <= Want(budget, Len(scores))

\* A search in progress: its bounds, and a best that is none or one that fits.
Searches(scores, budget, opt) ==
    {s \in [lo : Nat, hi : -1..Len(Uniq(scores)) - 1, best : FiniteOf(scores) \cup {Infinite}] :
       s.best # Infinite => InBudget(scores, budget, opt, s.best)}
SearchStart(scores) == [lo |-> 0, hi |-> Len(Uniq(scores)) - 1, best |-> Infinite]

LEMMA UniqIs ==
  ASSUME NEW n \in Nat, NEW scores \in [1..n -> Scores \cup {NotANumber}]
  PROVE  /\ FiniteOf(scores) \subseteq Scores
         /\ Len(Uniq(scores)) \in Nat
         /\ Uniq(scores) \in [1..Len(Uniq(scores)) -> FiniteOf(scores)]
<1>1. FiniteOf(scores) \subseteq Scores
  BY DEF FiniteOf, ToSet
<1>2. IsFiniteSet(FiniteOf(scores))
  <2>1. IsFiniteSet(1..n)
    BY FS_Interval
  <2>2. IsFiniteSet({scores[i] : i \in 1..n})
    <3>. DEFINE image == {scores[i] : i \in 1..n}
    <3>1. scores \in Surjection(1..n, image)
      BY DEF Surjection
    <3>. HIDE DEF image
    <3>2. IsFiniteSet(image)
      BY <2>1, <3>1, FS_Surjection
    <3>. QED BY <3>2 DEF image
  <2>3. FiniteOf(scores) \in SUBSET {scores[i] : i \in 1..n}
    BY DEF FiniteOf, ToSet
  <2>. QED BY <2>2, <2>3, FS_Subset
<1>3. FiniteOf(scores) \in SUBSET Int
  <2>1. \A x \in Scores : x \in Int
    BY PoliciesAssumption
  <2>. QED BY <1>1, <2>1
<1>4. /\ Cardinality(FiniteOf(scores)) \in Nat
      /\ Ascending(FiniteOf(scores)) \in [1..Cardinality(FiniteOf(scores)) -> FiniteOf(scores)]
  BY <1>2, <1>3, AscendingOf
<1>5. Uniq(scores) = Ascending(FiniteOf(scores))
  BY DEF Uniq, FiniteOf
<1>6. Len(Uniq(scores)) = Cardinality(FiniteOf(scores))
  BY <1>4, <1>5
<1>. QED BY <1>1, <1>4, <1>5, <1>6

LEMMA ProbeKeeps ==
  ASSUME NEW n \in Nat, NEW scores \in [1..n -> Scores \cup {NotANumber}], NEW budget, NEW opt,
         NEW s \in Searches(scores, budget, opt)
  PROVE  Probe(scores, budget, opt, s) \in Searches(scores, budget, opt)
<1>. DEFINE u == Uniq(scores)
            m == Len(u)
            mid == (s.lo + s.hi) \div 2
            thr == u[mid + 1]
<1>1. m \in Nat /\ u \in [1..m -> FiniteOf(scores)] /\ FiniteOf(scores) \subseteq Scores
  BY UniqIs
<1>2. /\ s.lo \in Nat /\ s.hi \in -1..m - 1 /\ s.best \in FiniteOf(scores) \cup {Infinite}
      /\ s.best # Infinite => InBudget(scores, budget, opt, s.best)
      /\ s \in [lo : Nat, hi : -1..m - 1, best : FiniteOf(scores) \cup {Infinite}]
  BY DEF Searches
<1>. HIDE DEF u, m
<1>3. CASE s.lo > s.hi
  BY <1>3 DEF Probe
<1>4. CASE ~(s.lo > s.hi)
  <2>1. mid \in 0..m - 1 /\ mid + 1 \in 1..m /\ mid - 1 \in -1..m - 1 /\ mid + 1 \in Nat
    BY <1>1, <1>2, <1>4
  <2>. HIDE DEF mid
  <2>2. thr \in FiniteOf(scores)
    BY <1>1, <2>1
  <2>3. Probe(scores, budget, opt, s) = IF InBudget(scores, budget, opt, thr)
                                        THEN [s EXCEPT !.best = thr, !.hi = mid - 1]
                                        ELSE [s EXCEPT !.lo = mid + 1]
    BY <1>4 DEF Probe, InBudget, u, mid
  <2>. HIDE DEF thr
  <2>4. CASE InBudget(scores, budget, opt, thr)
    <3>. DEFINE e == [s EXCEPT !.best = thr, !.hi = mid - 1]
    <3>1. e \in [lo : Nat, hi : -1..m - 1, best : FiniteOf(scores) \cup {Infinite}]
      BY <1>2, <2>1, <2>2
    <3>2. e.best = thr
      BY <1>2
    <3>. QED BY <2>3, <2>4, <3>1, <3>2 DEF Searches, m, u
  <2>5. CASE ~InBudget(scores, budget, opt, thr)
    <3>. DEFINE e == [s EXCEPT !.lo = mid + 1]
    <3>1. e \in [lo : Nat, hi : -1..m - 1, best : FiniteOf(scores) \cup {Infinite}]
      BY <1>2, <2>1
    <3>2. e.best = s.best
      BY <1>2
    <3>. QED BY <1>2, <2>3, <2>5, <3>1, <3>2 DEF Searches, m, u
  <2>. QED BY <2>4, <2>5
<1>. QED BY <1>3, <1>4

\* What SolveThreshold finds: a threshold that fits, or none.
LEMMA SolvedIs ==
  ASSUME NEW n \in Nat, NEW scores \in [1..n -> Scores \cup {NotANumber}], NEW budget, NEW opt
  PROVE  LET x == SolveThreshold(scores, budget, opt) IN
         \/ x = Infinite
         \/ x = BelowZero /\ 0 \in ToSet(scores)
         \/ InBudget(scores, budget, opt, x)
<1>. DEFINE A == Searches(scores, budget, opt)
            b == SearchStart(scores)
            m == Len(Uniq(scores))
            F(f) == [k \in 0..m |-> IF k = 0 THEN b ELSE Probe(scores, budget, opt, f[k - 1])]
            search == CHOOSE f : f = F(f)
<1>1. m \in Nat /\ \A s \in A : Probe(scores, budget, opt, s) \in A
  BY UniqIs, ProbeKeeps
<1>2. b \in A
  <2>1. b.best = Infinite /\ 0 - 1 = -1
    BY DEF SearchStart
  <2>2. b \in [lo : Nat, hi : -1..m - 1, best : FiniteOf(scores) \cup {Infinite}]
    <3>1. m - 1 \in -1..m - 1
      BY <1>1
    <3>. HIDE DEF m
    <3>. QED BY <3>1 DEF SearchStart, m
  <2>. HIDE DEF b
  <2>. QED BY <2>1, <2>2 DEF Searches
<1>. HIDE DEF A, b, m
<1>3. \E f : f = F(f)
  <2>. DEFINE g == [x \in A \X (1..m) |-> Probe(scores, budget, opt, x[1])]
  <2>1. g \in [A \X (1..m) -> A] /\ \A a \in A, k \in 1..m : g[<<a, k>>] = Probe(scores, budget, opt, a)
    BY <1>1
  <2>. HIDE DEF g
  <2>2. PICK f \in [0..m -> A] : IsIteration(f, m, b, g)
    BY <1>1, <1>2, <2>1, IterationExists
  <2>3. ASSUME NEW k \in 0..m
        PROVE  f[k] = IF k = 0 THEN b ELSE Probe(scores, budget, opt, f[k - 1])
    <3>1. f[k] = IF k = 0 THEN b ELSE g[<<f[k - 1], k>>]
      BY <2>2 DEF IsIteration
    <3>2. CASE k = 0
      BY <3>1, <3>2
    <3>3. CASE k # 0
      <4>1. k \in 1..m /\ k - 1 \in 0..m
        BY <1>1, <3>3
      <4>2. f[k - 1] \in A
        BY <4>1
      <4>. QED BY <2>1, <3>1, <3>3, <4>1, <4>2
    <3>. QED BY <3>2, <3>3
  <2>4. f = F(f)
    <3>1. f = [k \in 0..m |-> f[k]]
      BY <2>2
    <3>. QED BY <2>3, <3>1
  <2>. QED BY <2>4
<1>4. search = F(search)
  <2>. HIDE DEF F
  <2>. QED BY <1>3
<1>5. search[m] \in A
  <2>. HIDE DEF search
  <2>. DEFINE T == {k \in 0..m : search[k] \in A}
  <2>1. 0 \in T
    BY <1>1, <1>2, <1>4
  <2>2. ASSUME NEW k \in 0..m - 1, k \in T PROVE k + 1 \in T
    <3>1. k + 1 \in 0..m /\ k + 1 # 0 /\ k + 1 - 1 = k
      BY <1>1
    <3>2. search[k + 1] = Probe(scores, budget, opt, search[k])
      <4>. DEFINE j == k + 1
      <4>. HIDE DEF j
      <4>1. j \in 0..m /\ j # 0 /\ j - 1 = k
        BY <3>1 DEF j
      <4>2. search[j] = Probe(scores, budget, opt, search[j - 1])
        BY <1>4, <4>1
      <4>. QED BY <4>1, <4>2 DEF j
    <3>3. search[k] \in A
      BY <2>2
    <3>. QED BY <1>1, <3>1, <3>2, <3>3
  <2>. HIDE DEF T
  <2>3. \A k \in 0..m : k \in T
    BY <1>1, <2>1, <2>2, StepByStep
  <2>. QED BY <1>1, <2>3 DEF T
<1>. DEFINE best == search[m].best
<1>6. SolveThreshold(scores, budget, opt)
        = IF budget[1] <= 0 \/ budget[2] <= 0 \/ Uniq(scores) = <<>> THEN Infinite
          ELSE IF best = 0 THEN BelowZero ELSE best
  BY DEF SolveThreshold, b, m, SearchStart
<1>7. /\ best \in FiniteOf(scores) \cup {Infinite}
      /\ best # Infinite => InBudget(scores, budget, opt, best)
  <2>. HIDE DEF search
  <2>. QED BY <1>5 DEF A, Searches
<1>. HIDE DEF best, search, F
<1>8. best = 0 /\ best # Infinite => 0 \in ToSet(scores)
  BY <1>7 DEF FiniteOf
<1>. DEFINE x == SolveThreshold(scores, budget, opt)
<1>. HIDE DEF x
<1>9. x = Infinite \/ (x = BelowZero /\ best = 0) \/ x = best
  BY <1>6 DEF x
<1>10. best # Infinite => InBudget(scores, budget, opt, best)
  BY <1>7
<1>11. x = Infinite \/ (x = BelowZero /\ 0 \in ToSet(scores)) \/ InBudget(scores, budget, opt, x)
  <2>1. Infinite # 0
    BY PoliciesAssumption
  <2>. QED BY <1>8, <1>9, <1>10, <2>1
<1>. QED BY <1>11 DEF x

\* What is over a threshold that WithBudget solved for fits the budget.
LEMMA BudgetHolds ==
  ASSUME NEW n \in 1..MaxWindow, NEW scores \in [1..n -> Scores \cup {NotANumber}],
         NEW opt \in Policies, NEW budget, budget = <<1, MaxWindow>>
  PROVE  \/ Cardinality(Fires(WithBudget(scores, budget, opt))) <= Want(budget, Len(scores))
         \/ 0 \in ToSet(scores) /\ SolveThreshold(scores, budget, opt) = BelowZero
<1>. DEFINE x == SolveThreshold(scores, budget, opt)
            policy == [opt EXCEPT !.threshold = x]
<1>1. CASE x = BelowZero /\ 0 \in ToSet(scores)
  BY <1>1
<1>2. CASE InBudget(scores, budget, opt, x)
  BY <1>2 DEF InBudget, Count, WithBudget
<1>3. CASE x = Infinite
  <2>1. /\ opt \in [persist : Int, of : Int, refractory : Nat, warmup : Nat, cooldown : Int,
                     threshold : Int, suppress : SUBSET (Int \X Int)]
        /\ Infinite \in Nat \ {0} /\ MaxWindow \in Nat /\ \A s \in Scores : s \in Nat /\ s < Infinite
    BY PoliciesAssumption
  <2>2. /\ policy \in [persist : Int, of : Int, refractory : Nat, warmup : Nat, cooldown : Int,
                        threshold : Int, suppress : SUBSET (Int \X Int)]
        /\ policy.threshold = Infinite
    <3>. HIDE DEF x
    <3>. QED BY <1>3, <2>1
  <2>. HIDE DEF policy
  <2>3. OptTyped(Resolved(policy)) /\ Resolved(policy).threshold = Infinite
    BY <2>1, <2>2 DEF OptTyped, Resolved
  <2>4. \A i \in 1..n : ~Over(scores[i], Infinite)
    BY <2>1 DEF Over
  <2>5. n \in Nat /\ n >= 1 /\ MaxWindow >= 1 /\ DOMAIN scores = 1..n /\ Len(scores) = n
    BY <2>1
  <2>6. Fires(Apply(scores, policy)) = {}
    BY <2>3, <2>4, <2>5, SilentPolicy
  <2>7. Cardinality(Fires(Apply(scores, policy))) = 0
    BY <2>6, FS_EmptySet
  <2>8. Want(budget, n) \in Int /\ Want(budget, n) >= 1
    <3>. DEFINE w == (2 * 1 * n + MaxWindow) \div (2 * MaxWindow)
    <3>1. 2 * MaxWindow \in Nat \ {0} /\ 2 * 1 * n + MaxWindow \in Int
      BY <2>1, <2>5
    <3>2. w \in Int
      BY <3>1, DivMod
    <3>3. Want(budget, n) = IF w < 1 THEN 1 ELSE w
      BY DEF Want
    <3>. HIDE DEF w
    <3>. QED BY <3>2, <3>3
  <2>9. WithBudget(scores, budget, opt) = Apply(scores, policy)
    BY DEF WithBudget, policy
  <2>. QED BY <2>5, <2>7, <2>8, <2>9
<1>. QED BY <1>1, <1>2, <1>3, SolvedIs

\* The inductive invariant of recorded windows.
WindowInv ==
    /\ alarms.kind = "regions" =>
         \E n \in Nat, gap \in Nat, t \in Int : \E w \in [1..n -> Scores \cup {NotANumber}] :
           alarms = [kind |-> "regions", scores |-> w, threshold |-> t, gap |-> gap,
                     out |-> Candidates(w, t, gap)]
    /\ alarms.kind = "budget" =>
         \E n \in 1..MaxWindow, opt \in Policies : \E w \in [1..n -> Scores \cup {NotANumber}] :
           alarms = [kind |-> "budget", scores |-> w, budget |-> <<1, MaxWindow>>,
                     threshold |-> SolveThreshold(w, <<1, MaxWindow>>, opt),
                     fired |-> WithBudget(w, <<1, MaxWindow>>, opt)]

LEMMA WindowKeeps == AlarmInv /\ WindowInv /\ [AlarmNext]_alarmVars => WindowInv'
<1>. SUFFICES ASSUME AlarmInv, WindowInv, [AlarmNext]_alarmVars PROVE WindowInv'
  OBVIOUS
<1>1. CASE UNCHANGED alarmVars
  BY <1>1 DEF WindowInv, alarmVars
<1>2. CASE \E opt \in Policies : OpenGuard(opt)
  <2>1. alarms'.kind = "stream"
    BY <1>2 DEF OpenGuard
  <2>. QED BY <2>1 DEF WindowInv
<1>3. CASE \E s \in Scores \cup {NotANumber} : Feed(s)
  <2>1. alarms'.kind = "stream"
    BY <1>3 DEF Feed
  <2>. QED BY <2>1 DEF WindowInv
<1>4. CASE Penalize(1) \/ ClearPenalty
  <2>1. alarms'.kind = "stream"
    <3>1. alarms = [kind |-> "stream", guard |-> alarms.guard, log |-> alarms.log]
      BY <1>4 DEF AlarmInv, Penalize, ClearPenalty
    <3>2. PICK g : alarms' = [alarms EXCEPT !.guard = g]
      BY <1>4 DEF Penalize, ClearPenalty
    <3>. QED BY <3>1, <3>2
  <2>. QED BY <2>1 DEF WindowInv
<1>5. ASSUME NEW w \in RecordedScores, NEW t \in Scores, NEW gap \in 0..1, Group(w, t, gap)
      PROVE  WindowInv'
  <2>1. PICK n \in 1..MaxWindow : w \in [1..n -> Scores \cup {NotANumber}]
    BY DEF RecordedScores
  <2>2. n \in Nat /\ gap \in Nat /\ t \in Int
    BY PoliciesAssumption
  <2>3. alarms' = [kind |-> "regions", scores |-> w, threshold |-> t, gap |-> gap,
                   out |-> Candidates(w, t, gap)]
    BY <1>5 DEF Group
  <2>4. alarms'.kind = "regions"
    BY <2>3
  <2>. QED BY <2>1, <2>2, <2>3, <2>4 DEF WindowInv
<1>6. ASSUME NEW w \in RecordedScores, NEW opt \in Policies, Spend(w, <<1, MaxWindow>>, opt)
      PROVE  WindowInv'
  <2>1. PICK n \in 1..MaxWindow : w \in [1..n -> Scores \cup {NotANumber}]
    BY DEF RecordedScores
  <2>2. alarms' = [kind |-> "budget", scores |-> w, budget |-> <<1, MaxWindow>>,
                   threshold |-> SolveThreshold(w, <<1, MaxWindow>>, opt),
                   fired |-> WithBudget(w, <<1, MaxWindow>>, opt)]
    BY <1>6 DEF Spend
  <2>3. alarms'.kind = "budget"
    BY <2>2
  <2>. QED BY <2>1, <2>2, <2>3 DEF WindowInv
<1>. QED BY <1>1, <1>2, <1>3, <1>4, <1>5, <1>6 DEF AlarmNext

LEMMA WindowTells == WindowInv => RegionsAreMaximal /\ BudgetKept
<1>. SUFFICES ASSUME WindowInv PROVE RegionsAreMaximal /\ BudgetKept
  OBVIOUS
<1>1. RegionsAreMaximal
  <2>. SUFFICES ASSUME alarms.kind = "regions" PROVE RegionsAreMaximal
    BY DEF RegionsAreMaximal
  <2>1. PICK n \in Nat, gap \in Nat, t \in Int : \E w \in [1..n -> Scores \cup {NotANumber}] :
          alarms = [kind |-> "regions", scores |-> w, threshold |-> t, gap |-> gap,
                    out |-> Candidates(w, t, gap)]
    BY DEF WindowInv
  <2>2. PICK w \in [1..n -> Scores \cup {NotANumber}] :
          alarms = [kind |-> "regions", scores |-> w, threshold |-> t, gap |-> gap,
                    out |-> Candidates(w, t, gap)]
    BY <2>1
  <2>3. PICK out : out = Candidates(w, t, gap)
    OBVIOUS
  <2>4. alarms.scores = w /\ alarms.threshold = t /\ alarms.gap = gap /\ alarms.out = out
    BY <2>2, <2>3
  <2>5. \A x \in 1..n : Over(w[x], t) => w[x] \in Int
    <3>1. \A x \in Scores : x \in Int
      BY PoliciesAssumption
    <3>. QED BY <3>1 DEF Over
  <2>6. RegionsHold(w, t, gap, n, out)
    BY <2>3, <2>5, CandidatesHold
  <2>. DEFINE over == {i \in DOMAIN w : Over(w[i], t)}
  <2>7. out \in Seq(Region(n)) /\ Grouped(w, t, n, out) /\ Apart(gap, out)
        /\ \A j \in DOMAIN out : RegionHolds(w, t, gap, out[j])
    BY <2>6 DEF RegionsHold
  <2>8. over \subseteq Mask(out, <<>>, FALSE)
    <3>. SUFFICES ASSUME NEW x \in 1..n, Over(w[x], t) PROVE x \in Mask(out, <<>>, FALSE)
      OBVIOUS
    <3>1. PICK j \in DOMAIN out : x \in out[j].start..out[j].end
      BY <2>7 DEF Grouped
    <3>2. j \notin DOMAIN <<>>
      OBVIOUS
    <3>. QED BY <3>1, <3>2 DEF Mask
  <2>9. ASSUME NEW r \in ToSet(out)
        PROVE  /\ r.start \in over /\ r.end \in over
               /\ \A i \in r.start..r.end - gap : i..i + gap \cap over # {}
               /\ r.peak \in over
               /\ \A i \in over \cap r.start..r.end :
                    \/ w[i] < w[r.peak]
                    \/ w[i] = w[r.peak] /\ i >= r.peak
    <3>1. RegionHolds(w, t, gap, r) /\ r \in Region(n)
      BY <2>7 DEF ToSet
    <3>2. r.start \in 1..n /\ r.end \in 1..n /\ r.peak \in 1..n
      BY <3>1 DEF Region
    <3>3. r.start \in over /\ r.end \in over /\ r.peak \in over
      BY <3>1, <3>2 DEF RegionHolds
    <3>4. ASSUME NEW i \in r.start..r.end - gap PROVE i..i + gap \cap over # {}
      <4>1. PICK y \in i..i + gap : Over(w[y], t)
        BY <3>1 DEF RegionHolds
      <4>2. y \in 1..n
        BY <3>2
      <4>. QED BY <4>1, <4>2
    <3>5. \A i \in over \cap r.start..r.end :
            \/ w[i] < w[r.peak]
            \/ w[i] = w[r.peak] /\ i >= r.peak
      BY <3>1 DEF RegionHolds
    <3>. QED BY <3>3, <3>4, <3>5
  <2>. HIDE DEF over
  <2>10. \A k \in 1..Len(out) - 1 : out[k + 1].start - out[k].end > gap + 1
    BY <2>7 DEF Apart
  <2>. QED BY <2>4, <2>8, <2>9, <2>10 DEF RegionsAreMaximal, over
<1>2. BudgetKept
  <2>. SUFFICES ASSUME alarms.kind = "budget" PROVE BudgetKept
    BY DEF BudgetKept
  <2>1. PICK n \in 1..MaxWindow, opt \in Policies : \E w \in [1..n -> Scores \cup {NotANumber}] :
           alarms = [kind |-> "budget", scores |-> w, budget |-> <<1, MaxWindow>>,
                     threshold |-> SolveThreshold(w, <<1, MaxWindow>>, opt),
                     fired |-> WithBudget(w, <<1, MaxWindow>>, opt)]
    BY DEF WindowInv
  <2>2. PICK w \in [1..n -> Scores \cup {NotANumber}] :
           alarms = [kind |-> "budget", scores |-> w, budget |-> <<1, MaxWindow>>,
                     threshold |-> SolveThreshold(w, <<1, MaxWindow>>, opt),
                     fired |-> WithBudget(w, <<1, MaxWindow>>, opt)]
    BY <2>1
  <2>3. alarms.scores = w /\ alarms.budget = <<1, MaxWindow>>
        /\ alarms.threshold = SolveThreshold(w, <<1, MaxWindow>>, opt)
        /\ alarms.fired = WithBudget(w, <<1, MaxWindow>>, opt)
    BY <2>2
  <2>4. PICK b : b = <<1, MaxWindow>>
    OBVIOUS
  <2>5. \/ Cardinality(Fires(WithBudget(w, b, opt))) <= Want(b, Len(w))
        \/ 0 \in ToSet(w) /\ SolveThreshold(w, b, opt) = BelowZero
    BY <2>4, BudgetHolds
  <2>. QED BY <2>3, <2>4, <2>5 DEF BudgetKept
<1>. QED BY <1>1, <1>2

-----------------------------------------------------------------------------
(* The streaming pipeline.                                                 *)

\* Of finitely many numbers one is the greatest.
LEMMA GreatestAt ==
  ASSUME NEW lo \in Int, NEW hi \in Int, lo <= hi, NEW f, \A i \in lo..hi : f[i] \in Int
  PROVE  \E i \in lo..hi : \A j \in lo..hi : f[j] <= f[i]
<1>. DEFINE n == hi - lo
            Reached(k) == \E i \in lo..lo + k : \A j \in lo..lo + k : f[j] <= f[i]
            T == {k \in 0..n : Reached(k)}
<1>1. n \in Nat
  OBVIOUS
<1>2. Reached(0)
  OBVIOUS
<1>3. ASSUME NEW k \in 0..n - 1, Reached(k) PROVE Reached(k + 1)
  <2>1. PICK i \in lo..lo + k : \A j \in lo..lo + k : f[j] <= f[i]
    BY <1>3
  <2>. DEFINE m == lo + (k + 1)
  <2>2. m \in lo..hi /\ i \in lo..m /\ m \in lo..m /\ i \in lo..hi /\ \A j \in lo..m : j \in lo..lo + k \/ j = m
    OBVIOUS
  <2>. HIDE DEF m
  <2>3. f[i] \in Int /\ f[m] \in Int /\ \A j \in lo..lo + k : f[j] \in Int
    <3>1. \A j \in lo..lo + k : j \in lo..hi
      OBVIOUS
    <3>. QED BY <2>2, <3>1
  <2>4. CASE f[m] <= f[i]
    BY <2>1, <2>2, <2>3, <2>4 DEF m
  <2>5. CASE f[i] <= f[m]
    <3>1. \A j \in lo..m : f[j] <= f[m]
      BY <2>1, <2>2, <2>3, <2>5
    <3>. QED BY <2>2, <3>1 DEF m
  <2>. QED BY <2>3, <2>4, <2>5
<1>. HIDE DEF Reached, n
<1>4. 0 \in T /\ \A k \in 0..n - 1 : k \in T => k + 1 \in T
  BY <1>1, <1>2, <1>3
<1>. HIDE DEF T
<1>5. n \in T
  BY <1>1, <1>4, StepByStep
<1>. QED BY <1>5 DEF T, Reached, n

Around(n, start, end, spot) == \E a \in 1..start, b \in end..n : spot = <<a, b>>
LEMMA LocateIs ==
  ASSUME NEW n \in Nat, NEW dev \in [1..n -> Nat], Len(dev) = n,
         NEW start \in 1..n, NEW end \in start..n, NEW search \in Nat
  PROVE  Around(n, start, end, Locate(dev, start, end, search))
<1>. DEFINE lo == IF start - search < 1 THEN 1 ELSE start - search
            hi == IF end + search > Len(dev) THEN Len(dev) ELSE end + search
            best == Best(dev, lo, hi)
            anchor == Anchor(dev, lo, hi, best)
            a == CHOOSE i \in lo..anchor : Near(dev, best, anchor, i)
                                           /\ \A k \in lo..i - 1 : ~Near(dev, best, anchor, k)
            b == CHOOSE i \in anchor..hi : Near(dev, best, anchor, i)
                                           /\ \A k \in i + 1..hi : ~Near(dev, best, anchor, k)
<1>1. lo \in 1..start /\ hi \in end..n
  OBVIOUS
<1>2. Locate(dev, start, end, search)
        = IF best <= 0 THEN <<start, end>>
          ELSE <<IF a > start THEN start ELSE a, IF b < end THEN end ELSE b>>
  BY DEF Locate
<1>. HIDE DEF lo, hi
<1>3. \A i \in lo..hi : i \in 1..n /\ dev[i] \in Nat
  BY <1>1
<1>4. best \in Nat /\ (\E i \in lo..hi : dev[i] = best) /\ \A i \in lo..hi : dev[i] <= best
  <2>1. PICK i \in lo..hi : \A j \in lo..hi : dev[j] <= dev[i]
    <3>1. lo \in Int /\ hi \in Int /\ lo <= hi /\ \A j \in lo..hi : dev[j] \in Int
      BY <1>1, <1>3
    <3>. QED BY <3>1, GreatestAt
  <2>. DEFINE T == {dev[j] : j \in lo..hi}
  <2>2. dev[i] \in T /\ \A j \in lo..hi : dev[j] <= dev[i]
    BY <2>1
  <2>3. best = CHOOSE d \in T : \A j \in lo..hi : dev[j] <= d
    BY DEF Best
  <2>. HIDE DEF best
  <2>4. best \in T /\ \A j \in lo..hi : dev[j] <= best
    BY <2>2, <2>3
  <2>. QED BY <2>4, <1>3
<1>. HIDE DEF best
<1>5. anchor \in lo..hi /\ dev[anchor] = best
  <2>. DEFINE T == {i \in lo..hi : dev[i] = best}
  <2>1. T \subseteq Nat /\ T # {}
    BY <1>3, <1>4
  <2>2. PICK m \in T : \A k \in T : m <= k
    BY <2>1, LeastNumber
  <2>3. \A k \in lo..m - 1 : dev[k] < best
    <3>. SUFFICES ASSUME NEW k \in lo..m - 1 PROVE dev[k] < best
      OBVIOUS
    <3>1. k \in lo..hi /\ k \notin T
      BY <1>1, <2>2
    <3>. QED BY <3>1, <1>3, <1>4
  <2>. QED BY <2>2, <2>3 DEF Anchor
<1>. HIDE DEF anchor
<1>6. Near(dev, best, anchor, anchor)
  <2>1. anchor \in Int /\ 2 * best >= best
    BY <1>1, <1>4, <1>5
  <2>2. \A k \in anchor..anchor \cup anchor..anchor : k = anchor
    BY <2>1
  <2>. QED BY <2>1, <2>2, <1>5 DEF Near
<1>7. a \in lo..anchor
  <2>. DEFINE T == {i \in lo..anchor : Near(dev, best, anchor, i)}
  <2>1. T \subseteq Nat /\ T # {}
    BY <1>1, <1>5, <1>6
  <2>2. PICK m \in T : \A k \in T : m <= k
    BY <2>1, LeastNumber
  <2>3. \A k \in lo..m - 1 : ~Near(dev, best, anchor, k)
    BY <1>1, <1>5, <2>2
  <2>. QED BY <2>2, <2>3
<1>8. b \in anchor..hi
  <2>. DEFINE T == {i \in anchor..hi : Near(dev, best, anchor, i)}
  <2>1. T \in SUBSET (1..n) /\ T # {}
    BY <1>1, <1>5, <1>6
  <2>. HIDE DEF T
  <2>2. PICK m \in T : \A k \in T : k <= m
    BY <2>1, GreatestOf
  <2>3. m \in anchor..hi /\ Near(dev, best, anchor, m)
    BY <2>2 DEF T
  <2>4. \A k \in m + 1..hi : ~Near(dev, best, anchor, k)
    <3>. SUFFICES ASSUME NEW k \in m + 1..hi, Near(dev, best, anchor, k) PROVE FALSE
      OBVIOUS
    <3>1. k \in anchor..hi
      BY <1>1, <1>5, <2>3
    <3>2. k \in T
      BY <3>1 DEF T
    <3>3. m \in Int /\ k <= m
      BY <2>2, <3>2, <2>3
    <3>. QED BY <3>3
  <2>. QED BY <2>3, <2>4
<1>. HIDE DEF a, b
<1>9. (IF a > start THEN start ELSE a) \in 1..start /\ (IF b < end THEN end ELSE b) \in end..n
  BY <1>1, <1>5, <1>7, <1>8
<1>. QED BY <1>2, <1>9 DEF Around

PolicyTyped ==
    [persist : Int, of : Int, refractory : Nat, warmup : Nat, cooldown : Int, threshold : Int,
     suppress : SUBSET (Int \X Int)]

\* The options of a detector that was made.
MadeWith(o) ==
    /\ o.history \in Nat /\ o.calibration \in Nat /\ o.refresh \in Nat \ {0}
    /\ o.minDuration \in Nat /\ o.policy \in PolicyTyped

LEMMA ResolvedMade ==
  ASSUME NEW opt \in PipeOptions, Acceptable(ResolvedPipe(opt))
  PROVE  MadeWith(ResolvedPipe(opt))
<1>. DEFINE kept == IF opt.history <= 0 THEN DefaultHistory ELSE opt.history
            asked   == IF opt.calibration <= 0 THEN kept \div 4 ELSE opt.calibration
            cal     == IF asked < MinCalibrated THEN MinCalibrated ELSE asked
            o == ResolvedPipe(opt)
<1>1. /\ opt = [history |-> opt.history, calibration |-> opt.calibration, refresh |-> opt.refresh,
               minDuration |-> opt.minDuration, budget |-> opt.budget,
               sensitive |-> opt.sensitive, effect |-> opt.effect, policy |-> opt.policy]
      /\ opt.history \in Int /\ opt.calibration \in Int /\ opt.refresh \in Int
      /\ opt.minDuration \in Int /\ opt.policy \in PolicyTyped
  BY PipelineAssumption DEF PolicyTyped
<1>2. /\ DefaultHistory \in Nat /\ MinCalibrated \in Nat /\ DefaultRefresh \in Nat \ {0}
  BY PipelineAssumption
<1>3. o = [opt EXCEPT !.history = kept, !.calibration = cal,
                      !.refresh = IF @ <= 0 THEN DefaultRefresh ELSE @,
                      !.minDuration = IF @ < 0 THEN 0 ELSE @]
  BY DEF ResolvedPipe
<1>4. kept \in Nat /\ cal \in Nat
  <2>1. kept \in Nat
    BY <1>1, <1>2
  <2>. HIDE DEF kept
  <2>2. kept \div 4 \in Int
    BY <2>1
  <2>. HIDE DEF asked
  <2>3. asked \in Int
    BY <1>1, <2>2 DEF asked
  <2>. QED BY <1>2, <2>1, <2>3
<1>. HIDE DEF kept, cal, o
<1>5. /\ o.history = kept /\ o.calibration = cal /\ o.policy = opt.policy
      /\ o.refresh = (IF opt.refresh <= 0 THEN DefaultRefresh ELSE opt.refresh)
      /\ o.minDuration = (IF opt.minDuration < 0 THEN 0 ELSE opt.minDuration)
  BY <1>1, <1>3
<1>6. o.refresh \in Nat \ {0} /\ o.minDuration \in Nat
  BY <1>1, <1>2, <1>5
<1>7. MadeWith(o)
  BY <1>1, <1>4, <1>5, <1>6 DEF MadeWith
<1>. QED BY <1>7 DEF o

\* Its policy, and when it may first fire.
LEMMA PolicyIs ==
  ASSUME NEW o, MadeWith(o)
  PROVE  OptTyped(Resolved(PolicyOf(o))) /\ Resolved(PolicyOf(o)).warmup = o.calibration
<1>. DEFINE q == PolicyOf(o)
            policy == o.policy
            persist == IF q.persist < 1 THEN 1 ELSE q.persist
            x == Resolved(q)
<1>1. /\ policy = [persist |-> policy.persist, of |-> policy.of, refractory |-> policy.refractory,
                   warmup |-> policy.warmup, cooldown |-> policy.cooldown,
                   threshold |-> policy.threshold, suppress |-> policy.suppress]
      /\ policy.persist \in Int /\ policy.of \in Int /\ policy.refractory \in Nat
      /\ policy.cooldown \in Int
  BY DEF MadeWith, PolicyTyped
<1>2. o.calibration \in Nat /\ RefractoryScale \in Nat /\ PairOf \in Nat
  BY PipelineAssumption DEF MadeWith
<1>3. PICK i \in Int, j \in Int, r \in Nat :
        q = [policy EXCEPT !.persist = i, !.of = j, !.refractory = r,
                           !.warmup = o.calibration, !.threshold = 1]
  <2>. DEFINE long == o.minDuration > 0 /\ policy.persist < 2
              i == IF long THEN 2 ELSE policy.persist
              j == IF long THEN PairOf ELSE policy.of
              r == IF policy.refractory = 0 /\ ~o.sensitive THEN RefractoryScale
                   ELSE policy.refractory
  <2>1. i \in Int /\ j \in Int /\ r \in Nat
    BY <1>1, <1>2
  <2>2. q = [policy EXCEPT !.persist = i, !.of = j, !.refractory = r,
                           !.warmup = o.calibration, !.threshold = 1]
    BY <1>1 DEF PolicyOf
  <2>. HIDE DEF i, j, r, q
  <2>. QED BY <2>1, <2>2
<1>4. /\ q.persist = i /\ q.of = j /\ q.refractory = r /\ q.warmup = o.calibration
      /\ q.cooldown = policy.cooldown /\ q.threshold = 1
      /\ q = [persist |-> i, of |-> j, refractory |-> r, warmup |-> o.calibration,
              cooldown |-> policy.cooldown, threshold |-> 1, suppress |-> policy.suppress]
  <2>. HIDE DEF q
  <2>. QED BY <1>1, <1>3
<1>. HIDE DEF q
<1>5. x = [q EXCEPT !.persist = persist, !.of = IF j < persist THEN persist ELSE j, !.threshold = 1]
  BY <1>4 DEF Resolved
<1>6. persist \in Nat \ {0}
  BY <1>4
<1>. HIDE DEF x, persist, policy
<1>7. /\ x.persist = persist /\ x.of = (IF j < persist THEN persist ELSE j)
      /\ x.refractory = r /\ x.warmup = o.calibration /\ x.cooldown = q.cooldown /\ x.threshold = 1
  BY <1>4, <1>5
<1>8. OptTyped(x)
  <2>1. x.of \in Nat /\ x.persist \in 1..x.of
    BY <1>6, <1>7
  <2>. QED BY <1>1, <1>2, <1>4, <1>7, <2>1 DEF OptTyped
<1>. QED BY <1>7, <1>8 DEF x, q

\* What an alarm of a window is.
AlarmsIn(d) ==
    {a \in [start : Nat, end : Nat, crossing : Nat] :
       /\ d.base <= a.start /\ a.start <= a.crossing
       /\ a.crossing <= a.end /\ a.end < d.base + d.len
       /\ a.crossing >= d.base + d.opt.calibration}
Lasting(d) == {a \in AlarmsIn(d) : a.end - a.start + 1 >= d.opt.minDuration}

LEMMA SpanShifted ==
  ASSUME NEW n \in Nat, NEW b \in Nat, NEW x \in 1..n, NEW y \in 1..n, NEW c \in 1..n,
         NEW e \in 1..n, NEW cal \in Nat, x <= c, c <= e, e <= y, c > cal
  PROVE  /\ b + x - 1 \in Nat /\ b + y - 1 \in Nat /\ b + c - 1 \in Nat
         /\ b <= b + x - 1 /\ b + x - 1 <= b + c - 1
         /\ b + c - 1 <= b + y - 1 /\ b + y - 1 < b + n
         /\ b + c - 1 >= b + cal
OBVIOUS

LEMMA AlarmTyped ==
  ASSUME NEW d, d.len \in Nat, d.base \in Nat, MadeWith(d.opt),
         NEW ev, ev.dev \in [1..d.len -> Deviations],
         NEW r \in Region(d.len), r.start <= r.end, r.start > d.opt.calibration
  PROVE  AlarmOf(d, ev, r) \in AlarmsIn(d)
<1>. DEFINE n == d.len
            search == d.opt.calibration \div 2
            dev == ev.dev
<1>1. /\ n \in Nat /\ d.opt.calibration \in Nat /\ search \in Nat
      /\ r.start \in 1..n /\ r.end \in r.start..n
  BY DEF MadeWith, Region
<1>2. dev \in [1..n -> Nat] /\ Len(dev) = n
  <2>1. Deviations \subseteq Nat /\ n \in Nat
    BY PipelineAssumption
  <2>2. dev \in [1..n -> Deviations]
    OBVIOUS
  <2>. HIDE DEF n, dev
  <2>3. dev \in [1..n -> Nat]
    BY <2>1, <2>2
  <2>. QED BY <2>1, <2>3
<1>. HIDE DEF dev, n, search
<1>3. Around(n, r.start, r.end, Locate(dev, r.start, r.end, search))
  <2>1. PICK start, end : start = r.start /\ end = r.end /\ start \in 1..n /\ end \in start..n
    BY <1>1
  <2>2. Around(n, start, end, Locate(dev, start, end, search))
    BY <1>1, <1>2, <2>1, LocateIs
  <2>. QED BY <2>1, <2>2
<1>10. PICK x \in 1..r.start, y \in r.end..n : Locate(dev, r.start, r.end, search) = <<x, y>>
  BY <1>3 DEF Around
<1>4. AlarmOf(d, ev, r) = [start |-> d.base + x - 1, end |-> d.base + y - 1,
                              crossing |-> d.base + r.start - 1]
  BY <1>10 DEF AlarmOf, AlarmAt, dev, search
<1>5. d.base \in Nat /\ x \in 1..n /\ y \in 1..n /\ x <= r.start /\ r.end <= y /\ r.start <= r.end
  BY <1>1
<1>6. PICK bs, cross, until, cal : /\ bs = d.base /\ cross = r.start /\ until = r.end
                                    /\ cal = d.opt.calibration
  OBVIOUS
<1>7. /\ bs \in Nat /\ x \in 1..n /\ y \in 1..n /\ cross \in 1..n /\ until \in 1..n /\ cal \in Nat
      /\ x <= cross /\ cross <= until /\ until <= y /\ cross > cal /\ n \in Nat
  BY <1>1, <1>5, <1>6
<1>8. /\ bs + x - 1 \in Nat /\ bs + y - 1 \in Nat /\ bs + cross - 1 \in Nat
      /\ bs <= bs + x - 1 /\ bs + x - 1 <= bs + cross - 1
      /\ bs + cross - 1 <= bs + y - 1 /\ bs + y - 1 < bs + n
      /\ bs + cross - 1 >= bs + cal
  BY <1>7, SpanShifted
<1>. QED BY <1>4, <1>6, <1>8 DEF AlarmsIn, n

LEMMA RegionsOfWindow ==
  ASSUME NEW d, d.len \in Nat, MadeWith(d.opt), NEW ev
  PROVE  /\ RegionsOf(d, ev) \in Seq(Region(d.len))
         /\ \A k \in DOMAIN RegionsOf(d, ev) :
              /\ RegionsOf(d, ev)[k].start <= RegionsOf(d, ev)[k].end
              /\ RegionsOf(d, ev)[k].start > d.opt.calibration
<1>. DEFINE n == d.len
            scores == [i \in 1..n |-> IF i \in ev.over THEN 1 ELSE 0]
            verdicts == Apply(scores, PolicyOf(d.opt))
            fired == GateByEffect(verdicts, ev.weak)
            marks == [i \in DOMAIN fired |-> IF fired[i] THEN 1 ELSE 0]
            out == Candidates(marks, 1, Bridge)
<1>1. n \in Nat /\ DOMAIN scores = 1..n
  OBVIOUS
<1>2. RegionsOf(d, ev) = out
  BY DEF RegionsOf
<1>. HIDE DEF scores
<1>3. /\ verdicts \in Seq(BOOLEAN) /\ Len(verdicts) = n
      /\ \A i \in 1..n : verdicts[i] => i > d.opt.calibration
  <2>1. /\ OptTyped(Resolved(PolicyOf(d.opt)))
        /\ Resolved(PolicyOf(d.opt)).warmup = d.opt.calibration
    BY PolicyIs
  <2>. HIDE DEF n
  <2>. QED BY <1>1, <2>1, ApplyFacts
<1>. HIDE DEF verdicts
<1>4. DOMAIN marks = 1..n /\ \A i \in 1..n : marks[i] \in {0, 1} /\ (marks[i] = 1 => i > d.opt.calibration)
  <2>1. DOMAIN verdicts = 1..n
    BY <1>3
  <2>2. DOMAIN fired = 1..n /\ \A i \in 1..n : fired[i] => verdicts[i]
    BY <2>1 DEF GateByEffect
  <2>. HIDE DEF fired, n
  <2>. QED BY <1>3, <2>2
<1>. HIDE DEF marks, n
<1>5. RegionsHold(marks, 1, Bridge, n, out)
  <2>1. Bridge \in Nat /\ 1 \in Int
    BY PipelineAssumption
  <2>2. \A x \in 1..n : Over(marks[x], 1) => marks[x] \in Int
    BY <1>4
  <2>. QED BY <1>1, <1>4, <2>1, <2>2, CandidatesHold
<1>. HIDE DEF out
<1>6. out \in Seq(Region(n)) /\ \A j \in DOMAIN out : RegionHolds(marks, 1, Bridge, out[j])
  BY <1>5 DEF RegionsHold
<1>7. ASSUME NEW j \in DOMAIN out
      PROVE  out[j].start <= out[j].end /\ out[j].start > d.opt.calibration
  <2>. DEFINE r == out[j]
  <2>1. r \in Region(n) /\ RegionHolds(marks, 1, Bridge, r)
    BY <1>6
  <2>. HIDE DEF r
  <2>2. r.start \in 1..n /\ r.end \in 1..n /\ r.peak \in 1..n
    BY <2>1 DEF Region
  <2>3. r.start <= r.end /\ Over(marks[r.start], 1)
    BY <2>1, <2>2, <1>1 DEF RegionHolds
  <2>4. marks[r.start] = 1
    BY <2>2, <2>3, <1>4 DEF Over
  <2>5. r.start > d.opt.calibration
    BY <2>2, <2>4, <1>4
  <2>. QED BY <2>3, <2>5 DEF r
<1>. QED BY <1>2, <1>6, <1>7 DEF n

\* What an evaluation reports.
LEMMA EvaluateIs ==
  ASSUME NEW d, d.len \in Nat, d.base \in Nat, MadeWith(d.opt),
         NEW ev, ev.dev \in [1..d.len -> Deviations]
  PROVE  Evaluate(d, ev) \in Seq(Lasting(d))
<1>. DEFINE regions == RegionsOf(d, ev)
            spotted == [k \in DOMAIN regions |-> AlarmOf(d, ev, regions[k])]
            long(a) == a.end - a.start + 1 >= d.opt.minDuration
            at == {k \in DOMAIN spotted : regions[k].start \notin ev.odd /\ long(spotted[k])}
<1>1. Evaluate(d, ev) = Subsequence(spotted, at)
  BY DEF Evaluate, AlarmsOf, LongAlarms
<1>2. /\ regions \in Seq(Region(d.len))
      /\ \A k \in DOMAIN regions : regions[k].start <= regions[k].end
                                   /\ regions[k].start > d.opt.calibration
  BY RegionsOfWindow
<1>. HIDE DEF regions
<1>3. spotted \in Seq(AlarmsIn(d))
  <2>1. \A k \in 1..Len(regions) : AlarmOf(d, ev, regions[k]) \in AlarmsIn(d)
    <3>. SUFFICES ASSUME NEW k \in 1..Len(regions)
                  PROVE  AlarmOf(d, ev, regions[k]) \in AlarmsIn(d)
      OBVIOUS
    <3>1. regions[k] \in Region(d.len) /\ k \in DOMAIN regions
      BY <1>2
    <3>. QED BY <3>1, <1>2, AlarmTyped
  <2>2. DOMAIN regions = 1..Len(regions) /\ Len(regions) \in Nat
    BY <1>2
  <2>. QED BY <2>1, <2>2
<1>4. \A j \in at : j \in 1..Len(spotted) /\ long(spotted[j])
  BY <1>3
<1>. HIDE DEF spotted, at, long
<1>5. /\ Subsequence(spotted, at) \in Seq(AlarmsIn(d)) /\ Cardinality(at) \in Nat
      /\ Len(Subsequence(spotted, at)) = Cardinality(at)
      /\ \A k \in 1..Cardinality(at) :
           KthOf(at, k) \in at /\ Subsequence(spotted, at)[k] = spotted[KthOf(at, k)]
  BY <1>3, <1>4, SubsequenceIs
<1>6. \A k \in 1..Len(Subsequence(spotted, at)) : Subsequence(spotted, at)[k] \in Lasting(d)
  <2>. DEFINE out == Subsequence(spotted, at)
  <2>. SUFFICES ASSUME NEW k \in 1..Len(out) PROVE out[k] \in Lasting(d)
    OBVIOUS
  <2>1. out[k] \in AlarmsIn(d) /\ out[k] = spotted[KthOf(at, k)] /\ KthOf(at, k) \in at
    BY <1>5
  <2>. HIDE DEF out
  <2>2. long(out[k])
    BY <1>4, <2>1
  <2>. QED BY <2>1, <2>2 DEF long, Lasting
<1>. DEFINE out == Subsequence(spotted, at)
<1>7. out \in Seq(AlarmsIn(d)) /\ \A k \in 1..Len(out) : out[k] \in Lasting(d)
  BY <1>5, <1>6
<1>. HIDE DEF out
<1>. QED BY <1>1, <1>7 DEF out

\* What is true of a detector, and of a window that was scanned.
Reports(d) ==
    /\ d.batch \in Seq(Lasting(d))
    /\ ~d.calibrated => d.batch = <<>>
    /\ d.seen = 0 => d.batch = <<>>
    /\ d.reported \in Seq(Int)
    /\ d.kind = "pipe" => \A j \in 1..Len(d.reported) : d.reported[j] <= d.emitted
    /\ d.kind = "pipe" =>
         \A i \in 1..Len(d.batch), j \in 1..Len(d.reported) - Len(d.batch) :
           d.reported[j] < d.batch[i].start
Windows(d) ==
    /\ MadeWith(d.opt)
    /\ d.len \in Nat /\ d.base \in Nat /\ d.seen \in Nat /\ d.sinceRun \in Nat
    /\ d.emitted \in Int /\ d.calibrated \in BOOLEAN
    /\ d.base + d.len = d.seen /\ d.len <= d.opt.history
    /\ d.kind = "pipe" /\ Ready(d) => d.sinceRun < d.opt.refresh
IsPipe(d) ==
    /\ d.kind \in {"pipe", "scanned"}
    /\ d = [kind |-> d.kind, opt |-> d.opt, len |-> d.len, base |-> d.base, seen |-> d.seen,
            sinceRun |-> d.sinceRun, emitted |-> d.emitted, calibrated |-> d.calibrated,
            batch |-> d.batch, reported |-> d.reported]
PipeHolds(d) == IsPipe(d) /\ Windows(d) /\ Reports(d)
PipeInv == pipe = NoPipe \/ pipe = Refused \/ PipeHolds(pipe)

LEMMA KindOfPipe ==
  ASSUME PipeInv, pipe.kind \in {"pipe", "scanned"}
  PROVE  PipeHolds(pipe)
<1>1. NoPipe.kind = "none" /\ Refused.kind = "refused"
  BY DEF NoPipe, Refused
<1>2. pipe # NoPipe /\ pipe # Refused
  BY <1>1
<1>. QED BY <1>2 DEF PipeInv

LEMMA FreshPipe ==
  ASSUME NEW o, MadeWith(o)
  PROVE  PipeHolds(NewDetector(o))
<1>. DEFINE d == NewDetector(o)
<1>1. d = [kind |-> "pipe", opt |-> o, len |-> 0, base |-> 0, seen |-> 0, sinceRun |-> 0,
           emitted |-> -1, calibrated |-> FALSE, batch |-> <<>>, reported |-> <<>>]
  BY DEF NewDetector
<1>. HIDE DEF d
<1>2. /\ d.kind = "pipe" /\ d.opt = o /\ d.len = 0 /\ d.base = 0 /\ d.seen = 0 /\ d.sinceRun = 0
      /\ d.emitted = -1 /\ d.calibrated = FALSE /\ d.batch = <<>> /\ d.reported = <<>>
  BY <1>1
<1>3. IsPipe(d)
  BY <1>1, <1>2 DEF IsPipe
<1>4. o.refresh \in Nat \ {0} /\ o.history \in Nat
  BY DEF MadeWith
<1>5. Windows(d)
  <2>1. MadeWith(d.opt) /\ d.opt.refresh \in Nat \ {0} /\ d.opt.history \in Nat
    BY <1>2, <1>4
  <2>2. d.len \in Nat /\ d.base \in Nat /\ d.seen \in Nat /\ d.sinceRun \in Nat /\ d.emitted \in Int
    BY <1>2
  <2>3. d.base + d.len = d.seen /\ d.len <= d.opt.history /\ d.sinceRun < d.opt.refresh
    BY <1>2, <2>1
  <2>. QED BY <1>2, <2>1, <2>2, <2>3 DEF Windows
<1>6. Reports(d)
  <2>1. d.batch \in Seq(Lasting(d)) /\ d.reported \in Seq(Int) /\ Len(d.batch) = 0 /\ Len(d.reported) = 0
    BY <1>2
  <2>. QED BY <1>2, <2>1 DEF Reports
<1>. QED BY <1>3, <1>5, <1>6 DEF PipeHolds, d

\* push moves the window by one observation.
LEMMA SlidIs ==
  ASSUME NEW d, IsPipe(d), Windows(d), NEW e, e = Slid(d)
  PROVE  /\ e = [kind |-> d.kind, opt |-> d.opt, len |-> e.len, base |-> e.base, seen |-> e.seen,
                 sinceRun |-> d.sinceRun, emitted |-> d.emitted, calibrated |-> d.calibrated,
                 batch |-> d.batch, reported |-> d.reported]
         /\ e.len \in Nat /\ e.base \in Nat /\ e.seen \in Nat
         /\ e.base + e.len = e.seen /\ e.len <= d.opt.history /\ e.seen # 0
<1>1. /\ d.len \in Nat /\ d.base \in Nat /\ d.seen \in Nat /\ d.base + d.len = d.seen
      /\ d.len <= d.opt.history /\ d.opt.history \in Nat
  BY DEF Windows, MadeWith
<1>2. e = [d EXCEPT !.len = IF d.len = d.opt.history THEN d.len ELSE d.len + 1,
                    !.base = IF d.len = d.opt.history THEN d.base + 1 ELSE d.base,
                    !.seen = d.seen + 1]
  BY DEF Slid, IsPipe
<1>3. /\ e.len = (IF d.len = d.opt.history THEN d.len ELSE d.len + 1)
      /\ e.base = (IF d.len = d.opt.history THEN d.base + 1 ELSE d.base)
      /\ e.seen = d.seen + 1
      /\ e = [kind |-> d.kind, opt |-> d.opt, len |-> e.len, base |-> e.base, seen |-> e.seen,
              sinceRun |-> d.sinceRun, emitted |-> d.emitted, calibrated |-> d.calibrated,
              batch |-> d.batch, reported |-> d.reported]
  BY <1>2 DEF IsPipe
<1>4. /\ e.len \in Nat /\ e.base \in Nat /\ e.seen \in Nat
      /\ e.base + e.len = e.seen /\ e.len <= d.opt.history /\ e.seen # 0
  BY <1>1, <1>3
<1>. QED BY <1>3, <1>4

PipeOf(k, o, l, b, n, since, emitted, done, batch, reported) ==
    [kind |-> k, opt |-> o, len |-> l, base |-> b, seen |-> n, sinceRun |-> since,
     emitted |-> emitted, calibrated |-> done, batch |-> batch, reported |-> reported]
\* A report of nothing.
Reported(d) ==
    /\ d.reported \in Seq(Int)
    /\ d.kind = "pipe" => \A j \in 1..Len(d.reported) : d.reported[j] <= d.emitted
LEMMA NothingToldIs ==
  ASSUME NEW d, d.batch = <<>>, Reported(d)
  PROVE  Reports(d)
<1>1. d.batch \in Seq(Lasting(d)) /\ Len(d.batch) = 0
  OBVIOUS
<1>. QED BY <1>1 DEF Reports, Reported

LEMMA PipeFields ==
  ASSUME NEW k, NEW o, NEW l, NEW b, NEW n, NEW since, NEW emit, NEW cal, NEW btch, NEW rep
  PROVE  LET e == PipeOf(k, o, l, b, n, since, emit, cal, btch, rep) IN
         /\ e.kind = k /\ e.opt = o /\ e.len = l /\ e.base = b /\ e.seen = n
         /\ e.sinceRun = since /\ e.emitted = emit /\ e.calibrated = cal
         /\ e.batch = btch /\ e.reported = rep
BY DEF PipeOf

\* What Push changes of it, from an observation to the next.
Restarted(e, s, c) == [e EXCEPT !.sinceRun = s, !.calibrated = c]
Rested(e, s, c, x) == [e EXCEPT !.sinceRun = s, !.calibrated = c, !.batch = x]
Told(e, x, r, m) == [e EXCEPT !.batch = x, !.reported = r, !.emitted = m]
LEMMA PipeRestarts ==
  ASSUME NEW k, NEW o, NEW l, NEW b, NEW n, NEW since, NEW emit, NEW cal, NEW btch, NEW rep,
         NEW s, NEW c
  PROVE  Restarted(PipeOf(k, o, l, b, n, since, emit, cal, btch, rep), s, c)
           = PipeOf(k, o, l, b, n, s, emit, c, btch, rep)
<1>1. PICK e, f : /\ e = PipeOf(k, o, l, b, n, since, emit, cal, btch, rep)
                  /\ f = Restarted(e, s, c)
  OBVIOUS
<1>2. f = PipeOf(k, o, l, b, n, s, emit, c, btch, rep)
  BY <1>1 DEF PipeOf, Restarted
<1>. QED BY <1>1, <1>2

LEMMA PipeRests ==
  ASSUME NEW k, NEW o, NEW l, NEW b, NEW n, NEW since, NEW emit, NEW cal, NEW btch, NEW rep,
         NEW s, NEW c, NEW x
  PROVE  Rested(PipeOf(k, o, l, b, n, since, emit, cal, btch, rep), s, c, x)
           = PipeOf(k, o, l, b, n, s, emit, c, x, rep)
<1>1. PICK e, f : /\ e = PipeOf(k, o, l, b, n, since, emit, cal, btch, rep)
                  /\ f = Rested(e, s, c, x)
  OBVIOUS
<1>2. f = PipeOf(k, o, l, b, n, s, emit, c, x, rep)
  BY <1>1 DEF PipeOf, Rested
<1>. QED BY <1>1, <1>2

\* A Push that reports nothing.
LEMMA QuietPush ==
  ASSUME NEW d, PipeHolds(d), d.kind = "pipe", NEW e, e = Slid(d),
         NEW since \in Nat, Ready(e) => since < d.opt.refresh, NEW done \in BOOLEAN,
         NEW nothing, nothing = <<>>, NEW f, f = Rested(e, since, done, nothing)
  PROVE  PipeHolds(f)
<1>1. IsPipe(d) /\ Windows(d) /\ Reports(d)
  BY DEF PipeHolds
<1>2. /\ e = [kind |-> d.kind, opt |-> d.opt, len |-> e.len, base |-> e.base, seen |-> e.seen,
              sinceRun |-> d.sinceRun, emitted |-> d.emitted, calibrated |-> d.calibrated,
              batch |-> d.batch, reported |-> d.reported]
      /\ e.len \in Nat /\ e.base \in Nat /\ e.seen \in Nat
      /\ e.base + e.len = e.seen /\ e.len <= d.opt.history
  BY <1>1, SlidIs
<1>3. /\ f.kind = "pipe" /\ f.opt = d.opt /\ f.len = e.len /\ f.base = e.base /\ f.seen = e.seen
      /\ f.sinceRun = since /\ f.emitted = d.emitted /\ f.calibrated = done /\ f.batch = <<>>
      /\ f.reported = d.reported /\ e.opt = d.opt
      /\ f = [kind |-> f.kind, opt |-> f.opt, len |-> f.len, base |-> f.base, seen |-> f.seen,
              sinceRun |-> f.sinceRun, emitted |-> f.emitted, calibrated |-> f.calibrated,
              batch |-> f.batch, reported |-> f.reported]
  <2>1. PICK len, bs, seen : len = e.len /\ bs = e.base /\ seen = e.seen
    OBVIOUS
  <2>2. e = PipeOf(d.kind, d.opt, len, bs, seen, d.sinceRun, d.emitted, d.calibrated,
                   d.batch, d.reported)
    BY <1>2, <2>1 DEF PipeOf
  <2>3. PICK x, c : x = nothing /\ c = done
    OBVIOUS
  <2>4. f = PipeOf(d.kind, d.opt, len, bs, seen, since, d.emitted, c, x, d.reported)
        /\ e.opt = d.opt
    <3>1. f = Rested(e, since, c, x)
      BY <2>3
    <3>2. e.opt = d.opt
      BY <2>2, PipeFields
    <3>. QED BY <2>2, <3>1, <3>2, PipeRests
  <2>5. /\ f.kind = d.kind /\ f.opt = d.opt /\ f.len = len /\ f.base = bs /\ f.seen = seen
        /\ f.sinceRun = since /\ f.emitted = d.emitted /\ f.calibrated = c /\ f.batch = x
        /\ f.reported = d.reported
    BY <2>4, PipeFields
  <2>6. f = PipeOf(f.kind, f.opt, f.len, f.base, f.seen, f.sinceRun, f.emitted, f.calibrated,
                   f.batch, f.reported)
    BY <2>4, <2>5
  <2>7. f.batch = <<>>
    BY <2>3, <2>5
  <2>. QED BY <2>1, <2>3, <2>4, <2>5, <2>6, <2>7 DEF PipeOf
<1>4. Ready(f) <=> Ready(e)
  BY <1>3 DEF Ready
<1>5. Windows(f)
  <2>1. MadeWith(d.opt) /\ d.emitted \in Int
    BY <1>1 DEF Windows
  <2>. QED BY <2>1, <1>2, <1>3, <1>4 DEF Windows
<1>6. Reports(f)
  <2>1. d.reported \in Seq(Int) /\ \A j \in 1..Len(d.reported) : d.reported[j] <= d.emitted
    BY <1>1 DEF Reports
  <2>3. f.batch = <<>> /\ f.kind = "pipe" /\ f.reported = d.reported /\ f.emitted = d.emitted
    BY <1>3
  <2>4. Reported(f)
    BY <2>1, <2>3 DEF Reported
  <2>. QED BY <2>3, <2>4, NothingToldIs
<1>. QED BY <1>3, <1>5, <1>6 DEF PipeHolds, IsPipe

\* The detector an evaluation starts from.
SlidTo(p, e) ==
    e = PipeOf(p.kind, p.opt, e.len, e.base, e.seen, p.sinceRun, p.emitted, p.calibrated,
               p.batch, p.reported)
Whole(d) ==
    d = PipeOf(d.kind, d.opt, d.len, d.base, d.seen, d.sinceRun, d.emitted, d.calibrated,
               d.batch, d.reported)
Anew(none, yes) == none = 0 /\ yes = TRUE
StartsFrom(p, e, d) ==
    /\ d.kind = p.kind /\ d.opt = p.opt /\ d.len = e.len /\ d.base = e.base /\ d.seen = e.seen
    /\ d.sinceRun = 0 /\ d.emitted = p.emitted /\ d.calibrated = TRUE
    /\ d.reported = p.reported /\ Whole(d)
LEMMA StartsOver ==
  ASSUME NEW p, NEW e, SlidTo(p, e), NEW none, NEW yes, Anew(none, yes),
         NEW d, d = Restarted(e, none, yes)
  PROVE  StartsFrom(p, e, d)
<1>1. PICK len, bs, seen : len = e.len /\ bs = e.base /\ seen = e.seen
  OBVIOUS
<1>2. PICK k, o, emit, rep, btch : k = p.kind /\ o = p.opt /\ emit = p.emitted /\ rep = p.reported
                                   /\ btch = p.batch
  OBVIOUS
<1>3. PICK since, cal : e = PipeOf(k, o, len, bs, seen, since, emit, cal, btch, rep)
  BY <1>1, <1>2 DEF SlidTo
<1>4. d = Restarted(e, none, yes)
  OBVIOUS
<1>5. d = PipeOf(k, o, len, bs, seen, none, emit, yes, btch, rep)
  BY <1>3, <1>4, PipeRestarts
<1>6. /\ d.kind = k /\ d.opt = o /\ d.len = len /\ d.base = bs /\ d.seen = seen
      /\ d.sinceRun = none /\ d.emitted = emit /\ d.calibrated = yes /\ d.batch = btch
      /\ d.reported = rep
  BY <1>5, PipeFields
<1>7. Whole(d)
  BY <1>5, <1>6 DEF Whole
<1>. QED BY <1>1, <1>2, <1>6, <1>7 DEF Anew, StartsFrom

\* A Push that evaluates the window.
LEMMA EvaluatingPush ==
  ASSUME PipeHolds(pipe), pipe.kind = "pipe", NEW ev, ev.dev \in [1..Slid(pipe).len -> Deviations]
  PROVE  PipeHolds(Evaluated(ev))
<1>. DEFINE p == pipe
            e == Slid(pipe)
            d == [e EXCEPT !.sinceRun = 0, !.calibrated = TRUE]
            all == Evaluate(d, ev)
            at == {k \in DOMAIN all : all[k].start > d.emitted}
            fresh == Subsequence(all, at)
            tops == [i \in DOMAIN fresh |-> fresh[i].start]
            starts == {fresh[i].start : i \in DOMAIN fresh}
            top == IF starts = {} THEN d.emitted ELSE CHOOSE m \in starts : \A s \in starts : s <= m
            f == Evaluated(ev)
<1>1. IsPipe(p) /\ Windows(p) /\ Reports(p)
  BY DEF PipeHolds
<1>. HIDE DEF p
<1>2. /\ e = [kind |-> p.kind, opt |-> p.opt, len |-> e.len, base |-> e.base, seen |-> e.seen,
              sinceRun |-> p.sinceRun, emitted |-> p.emitted, calibrated |-> p.calibrated,
              batch |-> p.batch, reported |-> p.reported]
      /\ e.len \in Nat /\ e.base \in Nat /\ e.seen \in Nat
      /\ e.base + e.len = e.seen /\ e.len <= p.opt.history /\ e.seen # 0
  BY <1>1, SlidIs DEF p
<1>3. f = [d EXCEPT !.batch = fresh, !.reported = @ \o tops, !.emitted = top]
  <2>1. d.emitted = p.emitted /\ "emitted" \in DOMAIN d
    <3>. HIDE DEF e
    <3>. QED BY <1>2
  <2>. HIDE DEF d
  <2>2. f = [d EXCEPT !.batch = fresh, !.reported = @ \o tops,
                      !.emitted = IF starts = {} THEN @ ELSE CHOOSE m \in starts : \A s \in starts : s <= m]
    BY DEF Evaluated, Returned, FreshAlarms, d
  <2>. HIDE DEF f, fresh, tops
  <2>. QED BY <2>2
<1>4. ev.dev \in [1..e.len -> Deviations]
  OBVIOUS
<1>. HIDE DEF e
<1>5. /\ d.kind = "pipe" /\ d.opt = p.opt /\ d.len = e.len /\ d.base = e.base /\ d.seen = e.seen
      /\ d.sinceRun = 0 /\ d.emitted = p.emitted /\ d.calibrated = TRUE
      /\ d.reported = p.reported
      /\ d = [kind |-> d.kind, opt |-> d.opt, len |-> d.len, base |-> d.base, seen |-> d.seen,
              sinceRun |-> d.sinceRun, emitted |-> d.emitted, calibrated |-> d.calibrated,
              batch |-> d.batch, reported |-> d.reported]
  <2>1. p.kind = "pipe"
    BY DEF p
  <2>. HIDE DEF d
  <2>2. PICK none, yes : Anew(none, yes)
    BY DEF Anew
  <2>3. d = Restarted(e, none, yes)
    BY <2>2 DEF d, Restarted, Anew
  <2>4. SlidTo(p, e)
    BY <1>2 DEF SlidTo, PipeOf
  <2>5. StartsFrom(p, e, d)
    BY <2>2, <2>3, <2>4, StartsOver
  <2>. QED BY <2>1, <2>5 DEF StartsFrom, Whole, PipeOf
<1>6. MadeWith(d.opt) /\ d.emitted \in Int /\ p.opt.refresh \in Nat \ {0}
  <2>1. MadeWith(p.opt) /\ p.emitted \in Int
    BY <1>1 DEF Windows
  <2>. QED BY <2>1, <1>5 DEF MadeWith
<1>. HIDE DEF d
<1>7. all \in Seq(Lasting(d))
  BY <1>2, <1>4, <1>5, <1>6, EvaluateIs
<1>. HIDE DEF all
<1>8. \A k \in at : k \in 1..Len(all) /\ all[k].start > d.emitted
  BY <1>7
<1>. HIDE DEF at
<1>9. /\ fresh \in Seq(Lasting(d)) /\ Len(fresh) \in Nat
      /\ \A i \in 1..Len(fresh) : fresh[i].start \in Nat /\ fresh[i].start > d.emitted
  <2>1. /\ fresh \in Seq(Lasting(d)) /\ Cardinality(at) \in Nat /\ Len(fresh) = Cardinality(at)
        /\ \A k \in 1..Cardinality(at) : KthOf(at, k) \in at /\ fresh[k] = all[KthOf(at, k)]
    BY <1>7, <1>8, SubsequenceIs
  <2>2. \A i \in 1..Len(fresh) : fresh[i] \in Lasting(d) /\ fresh[i].start > d.emitted
    <3>. HIDE DEF fresh
    <3>. QED BY <2>1, <1>8
  <2>3. \A a \in Lasting(d) : a.start \in Nat
    BY DEF Lasting, AlarmsIn
  <2>. HIDE DEF fresh
  <2>. QED BY <2>1, <2>2, <2>3
<1>. HIDE DEF fresh
<1>10. DOMAIN fresh = 1..Len(fresh)
  BY <1>9
<1>11. /\ top \in Int /\ d.emitted <= top /\ \A i \in 1..Len(fresh) : fresh[i].start <= top
  <2>1. CASE Len(fresh) = 0
    <3>1. starts = {}
      BY <1>10, <2>1
    <3>2. top = d.emitted
      BY <3>1
    <3>. HIDE DEF top, starts
    <3>. QED BY <1>6, <2>1, <3>2
  <2>2. CASE Len(fresh) # 0
    <3>1. tops \in [1..Len(fresh) -> Nat] /\ \A j \in 1..Len(fresh) : tops[j] = fresh[j].start
      BY <1>9, <1>10
    <3>2. PICK i \in 1..Len(fresh) : \A j \in 1..Len(fresh) : tops[j] <= tops[i]
      <4>1. 1 \in Int /\ Len(fresh) \in Int /\ 1 <= Len(fresh) /\ \A j \in 1..Len(fresh) : tops[j] \in Int
        BY <1>9, <2>2, <3>1
      <4>. HIDE DEF tops
      <4>. QED BY <4>1, GreatestAt
    <3>3. fresh[i].start \in starts /\ \A s \in starts : s <= fresh[i].start
      BY <1>10, <3>1, <3>2
    <3>4. /\ starts # {} /\ \A j \in 1..Len(fresh) : fresh[j].start \in starts
          /\ \A s \in starts : s \in Nat /\ s > d.emitted
      BY <1>9, <1>10, <3>3
    <3>. HIDE DEF starts
    <3>5. top \in starts /\ \A s \in starts : s <= top
      BY <3>3, <3>4
    <3>. HIDE DEF top
    <3>. QED BY <3>4, <3>5, <1>6
  <2>. QED BY <2>1, <2>2
<1>12. tops \in Seq(Int) /\ Len(tops) = Len(fresh) /\ \A i \in 1..Len(fresh) : tops[i] = fresh[i].start
  BY <1>9, <1>10
<1>. HIDE DEF tops, top, starts, f
<1>13. /\ f.kind = "pipe" /\ f.opt = d.opt /\ f.len = d.len /\ f.base = d.base /\ f.seen = d.seen
       /\ f.sinceRun = 0 /\ f.emitted = top /\ f.calibrated = TRUE /\ f.batch = fresh
       /\ f.reported = p.reported \o tops
       /\ f = [kind |-> f.kind, opt |-> f.opt, len |-> f.len, base |-> f.base, seen |-> f.seen,
              sinceRun |-> f.sinceRun, emitted |-> f.emitted, calibrated |-> f.calibrated,
              batch |-> f.batch, reported |-> f.reported]
  BY <1>3, <1>5
<1>14. Windows(f)
  <2>1. /\ f.opt = p.opt /\ f.len = e.len /\ f.base = e.base /\ f.seen = e.seen
        /\ MadeWith(f.opt) /\ f.opt.refresh \in Nat \ {0}
    BY <1>5, <1>6, <1>13
  <2>2. f.sinceRun = 0 /\ f.sinceRun \in Nat /\ f.sinceRun < f.opt.refresh /\ f.emitted \in Int
    BY <1>11, <1>13, <2>1
  <2>3. /\ f.len \in Nat /\ f.base \in Nat /\ f.seen \in Nat
        /\ f.base + f.len = f.seen /\ f.len <= f.opt.history
    BY <1>2, <2>1
  <2>. QED BY <1>13, <2>1, <2>2, <2>3 DEF Windows
<1>15. Reports(f)
  <2>. DEFINE old == p.reported
              new == old \o tops
  <2>1. old \in Seq(Int) /\ Len(old) \in Nat /\ \A j \in 1..Len(old) : old[j] \in Int /\ old[j] <= d.emitted
    <3>1. p.kind = "pipe"
      BY DEF p
    <3>. QED BY <3>1, <1>1, <1>5 DEF Reports
  <2>. HIDE DEF old
  <2>2. /\ new \in Seq(Int) /\ Len(new) = Len(old) + Len(fresh)
        /\ \A j \in 1..Len(old) : new[j] = old[j]
        /\ \A j \in 1..Len(fresh) : new[Len(old) + j] = tops[j]
    <3>. HIDE DEF tops
    <3>1. PICK t \in Seq(Int) : t = tops
      BY <1>12
    <3>2. old \in Seq(Int) /\ t \in Seq(Int) /\ Len(t) = Len(fresh) /\ Len(t) \in Nat
      BY <2>1, <1>9, <1>12, <3>1
    <3>3. /\ old \o t \in Seq(Int) /\ Len(old \o t) = Len(old) + Len(t)
          /\ \A j \in 1..Len(old) + Len(t) :
               (old \o t)[j] = IF j <= Len(old) THEN old[j] ELSE t[j - Len(old)]
      BY <3>2, ConcatProperties
    <3>4. \A j \in 1..Len(old) : (old \o t)[j] = old[j]
      <4>. SUFFICES ASSUME NEW j \in 1..Len(old) PROVE (old \o t)[j] = old[j]
        OBVIOUS
      <4>1. j \in 1..Len(old) + Len(t) /\ j <= Len(old)
        BY <2>1, <3>2
      <4>. QED BY <3>3, <4>1
    <3>5. \A j \in 1..Len(fresh) : (old \o t)[Len(old) + j] = t[j]
      <4>. SUFFICES ASSUME NEW j \in 1..Len(fresh) PROVE (old \o t)[Len(old) + j] = t[j]
        OBVIOUS
      <4>1. Len(old) + j \in 1..Len(old) + Len(t) /\ ~(Len(old) + j <= Len(old))
            /\ Len(old) + j - Len(old) = j
        BY <2>1, <3>2, <1>9
      <4>. QED BY <3>3, <4>1
    <3>. QED BY <3>1, <3>2, <3>3, <3>4, <3>5 DEF new
  <2>. HIDE DEF new
  <2>3. \A j \in 1..Len(new) : new[j] <= top
    <3>. SUFFICES ASSUME NEW j \in 1..Len(new) PROVE new[j] <= top
      OBVIOUS
    <3>1. CASE j \in 1..Len(old)
      BY <3>1, <2>1, <2>2, <1>6, <1>11
    <3>2. CASE j \notin 1..Len(old)
      <4>1. PICK i \in 1..Len(fresh) : j = Len(old) + i
        <5>1. j - Len(old) \in 1..Len(fresh) /\ j = Len(old) + (j - Len(old))
          BY <3>2, <2>1, <2>2, <1>9
        <5>. QED BY <5>1
      <4>. QED BY <4>1, <2>2, <1>11, <1>12
    <3>. QED BY <3>1, <3>2
  <2>4. Lasting(f) = Lasting(d)
    BY <1>13 DEF Lasting, AlarmsIn
  <2>5. \A i \in 1..Len(fresh), j \in 1..Len(new) - Len(fresh) : new[j] < fresh[i].start
    <3>. SUFFICES ASSUME NEW i \in 1..Len(fresh), NEW j \in 1..Len(new) - Len(fresh)
                  PROVE  new[j] < fresh[i].start
      OBVIOUS
    <3>1. j \in 1..Len(old)
      BY <2>1, <2>2, <1>9
    <3>2. new[j] = old[j] /\ old[j] \in Int /\ old[j] <= d.emitted
      BY <3>1, <2>1, <2>2
    <3>3. fresh[i].start \in Nat /\ d.emitted < fresh[i].start
      BY <1>6, <1>9
    <3>. QED BY <3>2, <3>3, <1>6
  <2>6. f.reported = new
    BY <1>13 DEF new, old
  <2>7. f.seen # 0
    BY <1>2, <1>5, <1>13
  <2>. QED BY <1>9, <1>13, <2>2, <2>3, <2>4, <2>5, <2>6, <2>7 DEF Reports
<1>16. IsPipe(f)
  BY <1>13 DEF IsPipe
<1>. QED BY <1>14, <1>15, <1>16 DEF PipeHolds, f

\* What Scan changes of a detector.
Framed(e, l, b, n, s, m) ==
    [e EXCEPT !.len = l, !.base = b, !.seen = n, !.sinceRun = s, !.emitted = m]
Closed(e, k) == [e EXCEPT !.kind = k]
ScanEnded(e, k, c, x) == [e EXCEPT !.kind = k, !.calibrated = c, !.batch = x]
LEMMA PipeOpens ==
  ASSUME NEW k, NEW o, NEW l, NEW b, NEW n, NEW since, NEW emit, NEW cal, NEW btch, NEW rep,
         NEW l1, NEW b1, NEW n1, NEW s, NEW m
  PROVE  Framed(PipeOf(k, o, l, b, n, since, emit, cal, btch, rep), l1, b1, n1, s, m)
           = PipeOf(k, o, l1, b1, n1, s, m, cal, btch, rep)
<1>1. PICK e, f : /\ e = PipeOf(k, o, l, b, n, since, emit, cal, btch, rep)
                  /\ f = Framed(e, l1, b1, n1, s, m)
  OBVIOUS
<1>2. f = PipeOf(k, o, l1, b1, n1, s, m, cal, btch, rep)
  BY <1>1 DEF PipeOf, Framed
<1>. QED BY <1>1, <1>2

LEMMA PipeCloses ==
  ASSUME NEW k, NEW o, NEW l, NEW b, NEW n, NEW since, NEW emit, NEW cal, NEW btch, NEW rep,
         NEW k1
  PROVE  Closed(PipeOf(k, o, l, b, n, since, emit, cal, btch, rep), k1)
           = PipeOf(k1, o, l, b, n, since, emit, cal, btch, rep)
<1>1. PICK e, f : /\ e = PipeOf(k, o, l, b, n, since, emit, cal, btch, rep)
                  /\ f = Closed(e, k1)
  OBVIOUS
<1>2. f = PipeOf(k1, o, l, b, n, since, emit, cal, btch, rep)
  BY <1>1 DEF PipeOf, Closed
<1>. QED BY <1>1, <1>2

LEMMA PipeJudged ==
  ASSUME NEW k, NEW o, NEW l, NEW b, NEW n, NEW since, NEW emit, NEW cal, NEW btch, NEW rep,
         NEW k1, NEW c, NEW x
  PROVE  ScanEnded(PipeOf(k, o, l, b, n, since, emit, cal, btch, rep), k1, c, x)
           = PipeOf(k1, o, l, b, n, since, emit, c, x, rep)
<1>1. PICK e, f : /\ e = PipeOf(k, o, l, b, n, since, emit, cal, btch, rep)
                  /\ f = ScanEnded(e, k1, c, x)
  OBVIOUS
<1>2. f = PipeOf(k1, o, l, b, n, since, emit, c, x, rep)
  BY <1>1 DEF PipeOf, ScanEnded
<1>. QED BY <1>1, <1>2

IsScanned(f, p, size, n, cal, out) ==
    f = PipeOf("scanned", p.opt, size, n - size, n, 0, -1, cal, out, p.reported)
LEMMA ScannedHolds ==
  ASSUME NEW p, MadeWith(p.opt), p.reported \in Seq(Int), NEW n \in Nat \ {0}, NEW size \in Nat,
         size <= n, size <= p.opt.history, NEW cal \in BOOLEAN, NEW f, NEW out,
         IsScanned(f, p, size, n, cal, out), out \in Seq(Lasting(f)), ~cal => out = <<>>
  PROVE  PipeHolds(f)
<1>1. PICK c, past, none, base1, k, m : /\ c = cal /\ past = p.reported /\ none = 0 /\ base1 = n - size
                                       /\ k = "scanned" /\ m = -1
  OBVIOUS
<1>2. f = PipeOf(k, p.opt, size, base1, n, none, m, c, out, past)
  BY <1>1 DEF IsScanned
<1>3. /\ f.kind = k /\ f.opt = p.opt /\ f.len = size /\ f.base = base1 /\ f.seen = n
      /\ f.sinceRun = none /\ f.emitted = m /\ f.calibrated = c /\ f.batch = out
      /\ f.reported = past
  BY <1>2, PipeFields
<1>4. IsPipe(f)
  <2>1. Whole(f)
    BY <1>2, <1>3 DEF Whole
  <2>2. f.kind \in {"pipe", "scanned"}
    BY <1>1, <1>3
  <2>. QED BY <2>1, <2>2 DEF IsPipe, Whole, PipeOf
<1>5. /\ f.len \in Nat /\ f.base \in Nat /\ f.seen \in Nat /\ f.sinceRun \in Nat /\ f.emitted \in Int
      /\ f.base + f.len = f.seen /\ f.len <= f.opt.history /\ f.seen # 0 /\ f.kind # "pipe"
  BY <1>1, <1>3
<1>6. Windows(f)
  <2>1. f.calibrated \in BOOLEAN /\ MadeWith(f.opt)
    BY <1>1, <1>3
  <2>. QED BY <1>5, <2>1 DEF Windows
<1>7. Reports(f)
  <2>1. f.batch \in Seq(Lasting(f)) /\ f.reported \in Seq(Int) /\ (~f.calibrated => f.batch = <<>>)
    BY <1>1, <1>3
  <2>. QED BY <1>5, <2>1 DEF Reports
<1>. QED BY <1>4, <1>6, <1>7 DEF PipeHolds

\* Scan looks at one window, from a fresh start.
LEMMA ScanHolds ==
  ASSUME PipeHolds(pipe), NEW n \in 1..MaxSeen, Scan(n)
  PROVE  PipeHolds(pipe')
<1>. DEFINE p == pipe
            size == IF n > p.opt.history THEN p.opt.history ELSE n
            d == [p EXCEPT !.len = size, !.base = n - size, !.seen = n, !.sinceRun = 0,
                           !.emitted = -1]
            f == pipe'
<1>1. IsPipe(p) /\ Windows(p) /\ Reports(p) /\ p.seen = 0 /\ p.kind = "pipe"
  BY DEF PipeHolds, Scan
<1>2. /\ MadeWith(p.opt) /\ p.opt.history \in Nat /\ n \in Nat \ {0} /\ p.calibrated \in BOOLEAN
      /\ p.batch = <<>> /\ p.reported \in Seq(Int)
  BY <1>1, PipelineAssumption DEF Windows, Reports, MadeWith
<1>3. IF ~Ready(d) THEN f = Closed(d, "scanned")
      ELSE \E ev \in Statistics(d) : f = ScanEnded(d, "scanned", TRUE, Evaluate(d, ev))
  BY DEF Scan, Closed, ScanEnded
<1>4. d = Framed(p, size, n - size, n, 0, -1)
  BY DEF Framed
<1>. HIDE DEF p, f, d
<1>5. PICK bs, none, least, k, yes : /\ bs = n - size /\ none = 0 /\ least = -1 /\ k = "scanned"
                                     /\ yes = TRUE
  OBVIOUS
<1>6. /\ size \in Nat /\ bs \in Nat /\ size <= n /\ size <= p.opt.history
  BY <1>2, <1>5
<1>. HIDE DEF size
<1>7. Whole(p)
  BY <1>1 DEF IsPipe, Whole, PipeOf
<1>8. d = PipeOf(p.kind, p.opt, size, bs, n, none, least, p.calibrated, p.batch, p.reported)
  BY <1>4, <1>5, <1>7, PipeOpens DEF Whole
<1>9. d.opt = p.opt /\ d.len = size /\ d.base = bs
  BY <1>8, PipeFields
<1>10. CASE ~Ready(d)
  <2>1. f = Closed(d, k)
    BY <1>3, <1>5, <1>10
  <2>2. f = PipeOf(k, p.opt, size, bs, n, none, least, p.calibrated, p.batch, p.reported)
    BY <1>8, <2>1, PipeCloses
  <2>3. IsScanned(f, p, size, n, p.calibrated, p.batch)
    BY <1>5, <2>2 DEF IsScanned
  <2>4. p.batch \in Seq(Lasting(f))
    BY <1>2
  <2>5. PipeHolds(f)
    BY <1>2, <1>6, <2>3, <2>4, ScannedHolds
  <2>. QED BY <2>5 DEF f
<1>11. CASE Ready(d)
  <2>1. PICK ev \in Statistics(d) : f = ScanEnded(d, "scanned", TRUE, Evaluate(d, ev))
    BY <1>3, <1>11
  <2>2. ev.dev \in [1..d.len -> Deviations]
    BY DEF Statistics
  <2>3. PICK out : out = Evaluate(d, ev)
    OBVIOUS
  <2>4. out \in Seq(Lasting(d))
    BY <1>2, <1>6, <1>9, <2>2, <2>3, EvaluateIs
  <2>5. f = ScanEnded(d, k, yes, out)
    BY <1>5, <2>1, <2>3
  <2>6. f = PipeOf(k, p.opt, size, bs, n, none, least, yes, out, p.reported)
    BY <1>8, <2>5, PipeJudged
  <2>7. IsScanned(f, p, size, n, TRUE, out)
    BY <1>5, <2>6 DEF IsScanned
  <2>8. f.opt = p.opt /\ f.len = size /\ f.base = bs
    BY <2>6, PipeFields
  <2>9. out \in Seq(Lasting(f))
    <3>1. Lasting(f) = Lasting(d)
      BY <1>9, <2>8 DEF Lasting, AlarmsIn
    <3>. QED BY <2>4, <3>1
  <2>10. PipeHolds(f)
    BY <1>2, <1>6, <2>7, <2>9, ScannedHolds
  <2>. QED BY <2>10 DEF f
<1>. QED BY <1>10, <1>11

LEMMA WaitHolds ==
  ASSUME PipeHolds(pipe), pipe.kind = "pipe", Wait
  PROVE  PipeHolds(pipe')
<1>. DEFINE e == Slid(pipe)
<1>1. IsPipe(pipe) /\ Windows(pipe) /\ pipe.sinceRun \in Nat /\ pipe.calibrated \in BOOLEAN
  BY DEF PipeHolds, Windows
<1>2. SlidTo(pipe, e)
  BY <1>1, SlidIs DEF SlidTo, PipeOf
<1>3. /\ ~Ready(e) \/ pipe.sinceRun + 1 < pipe.opt.refresh
      /\ pipe' = [e EXCEPT !.sinceRun = @ + 1, !.batch = <<>>]
  BY DEF Wait
<1>. HIDE DEF e
<1>4. PICK since, nothing, done : since = pipe.sinceRun + 1 /\ nothing = <<>> /\ done = pipe.calibrated
  OBVIOUS
<1>5. e.sinceRun = pipe.sinceRun /\ e.calibrated = pipe.calibrated /\ Whole(e)
  BY <1>2 DEF SlidTo, PipeOf, Whole
<1>6. pipe' = Rested(e, since, done, nothing)
  BY <1>3, <1>4, <1>5 DEF Rested, Whole, PipeOf
<1>7. since \in Nat /\ (Ready(e) => since < pipe.opt.refresh)
  BY <1>1, <1>3, <1>4
<1>. QED BY <1>1, <1>4, <1>6, <1>7, QuietPush DEF e

LEMMA UncalibratedHolds ==
  ASSUME PipeHolds(pipe), pipe.kind = "pipe", RunUncalibrated
  PROVE  PipeHolds(pipe')
<1>. DEFINE e == Slid(pipe)
<1>1. Windows(pipe) /\ pipe.opt.refresh \in Nat \ {0}
  BY DEF PipeHolds, Windows, MadeWith
<1>2. pipe' = [e EXCEPT !.sinceRun = 0, !.calibrated = FALSE, !.batch = <<>>]
  BY DEF RunUncalibrated
<1>3. pipe' = Rested(e, 0, FALSE, <<>>)
  BY <1>2 DEF Rested
<1>4. 0 \in Nat /\ 0 < pipe.opt.refresh /\ FALSE \in BOOLEAN
  BY <1>1
<1>5. PICK since \in Nat, done \in BOOLEAN :
        pipe' = Rested(e, since, done, <<>>) /\ since < pipe.opt.refresh
  BY <1>3, <1>4, Zenon
<1>. HIDE DEF e
<1>. QED BY <1>5, QuietPush DEF e

LEMMA PipeKeeps == PipeInv /\ [PipeNext]_pipeVars => PipeInv'
<1>. SUFFICES ASSUME PipeInv, [PipeNext]_pipeVars PROVE PipeInv'
  OBVIOUS
<1>1. CASE UNCHANGED pipeVars
  BY <1>1 DEF PipeInv, pipeVars
<1>2. ASSUME NEW opt \in PipeOptions, MakeDetector(opt) PROVE PipeInv'
  <2>1. CASE Acceptable(ResolvedPipe(opt))
    <3>1. PipeHolds(NewDetector(ResolvedPipe(opt)))
      BY <2>1, ResolvedMade, FreshPipe
    <3>2. pipe' = NewDetector(ResolvedPipe(opt))
      BY <1>2, <2>1 DEF MakeDetector
    <3>3. PipeHolds(pipe')
      BY <3>1, <3>2
    <3>. QED BY <3>3 DEF PipeInv
  <2>2. CASE ~Acceptable(ResolvedPipe(opt))
    BY <1>2, <2>2 DEF MakeDetector, PipeInv
  <2>. QED BY <2>1, <2>2
<1>3. CASE Wait
  <2>1. pipe.kind = "pipe" /\ PipeHolds(pipe)
    BY <1>3, KindOfPipe DEF Wait
  <2>. QED BY <1>3, <2>1, WaitHolds DEF PipeInv
<1>4. CASE Run
  <2>1. pipe.kind = "pipe" /\ PipeHolds(pipe)
    BY <1>4, KindOfPipe DEF Run, Due
  <2>2. PICK ev \in Statistics(Slid(pipe)) : pipe' = Evaluated(ev)
    BY <1>4 DEF Run
  <2>3. ev.dev \in [1..Slid(pipe).len -> Deviations]
    BY DEF Statistics
  <2>4. PipeHolds(Evaluated(ev))
    BY <2>1, <2>3, EvaluatingPush
  <2>5. PipeHolds(pipe')
    BY <2>2, <2>4
  <2>. QED BY <2>5 DEF PipeInv
<1>5. CASE RunUncalibrated
  <2>1. pipe.kind = "pipe" /\ PipeHolds(pipe)
    BY <1>5, KindOfPipe DEF RunUncalibrated, Due
  <2>. QED BY <1>5, <2>1, UncalibratedHolds DEF PipeInv
<1>6. ASSUME NEW n \in 1..MaxSeen, Scan(n) PROVE PipeInv'
  <2>1. PipeHolds(pipe)
    BY <1>6, KindOfPipe DEF Scan
  <2>2. PipeHolds(pipe')
    BY <1>6, <2>1, ScanHolds
  <2>. QED BY <2>2 DEF PipeInv
<1>. QED BY <1>1, <1>2, <1>3, <1>4, <1>5, <1>6 DEF PipeNext

LEMMA ReportsTold == PipeInv => ReportsInWindow
<1>. SUFFICES ASSUME PipeInv, pipe.kind \in {"pipe", "scanned"} PROVE ReportsInWindow
  BY DEF ReportsInWindow
<1>1. IsPipe(pipe) /\ Windows(pipe) /\ Reports(pipe)
  BY KindOfPipe DEF PipeHolds
<1>2. /\ pipe.base + pipe.len = pipe.seen /\ pipe.len <= pipe.opt.history
      /\ pipe.kind = "pipe" /\ Ready(pipe) => pipe.sinceRun < pipe.opt.refresh
      /\ ~pipe.calibrated => pipe.batch = <<>>
  BY <1>1 DEF Windows, Reports
<1>3. ASSUME NEW i \in DOMAIN pipe.batch
      PROVE  LET a == pipe.batch[i] IN
             /\ pipe.base <= a.start /\ a.start <= a.crossing
             /\ a.crossing <= a.end /\ a.end < pipe.seen
             /\ a.crossing >= pipe.base + pipe.opt.calibration
             /\ a.end - a.start + 1 >= pipe.opt.minDuration
             /\ pipe.kind = "pipe" =>
                  \A j \in 1..Len(pipe.reported) - Len(pipe.batch) : pipe.reported[j] < a.start
  <2>1. i \in 1..Len(pipe.batch) /\ pipe.batch[i] \in Lasting(pipe)
    BY <1>1 DEF Reports
  <2>2. pipe.kind = "pipe" =>
          \A j \in 1..Len(pipe.reported) - Len(pipe.batch) : pipe.reported[j] < pipe.batch[i].start
    BY <1>1, <2>1 DEF Reports
  <2>. QED BY <1>2, <2>1, <2>2 DEF Lasting, AlarmsIn
<1>. QED BY <1>2, <1>3 DEF ReportsInWindow

-----------------------------------------------------------------------------
(* The ranker.                                                             *)

TermAt(m, f, i) == IF f[i] = Unknown THEN 0 ELSE m.w[i] * f[i]
Terms(m, f) == [i \in Coords |-> TermAt(m, f, i)]
Weights == [w : [Coords -> Int], b : Int, seen : Nat]

LEMMA CoordsFinite == \E n \in Nat : Coords = 1..n /\ IsFiniteSet(Coords)
<1>1. Len(Directions) \in Nat /\ DOMAIN Directions = 1..Len(Directions)
  BY RankingAssumption
<1>2. IsFiniteSet(1..Len(Directions))
  BY <1>1, FS_Interval
<1>. QED BY <1>1, <1>2 DEF Coords

LEMMA TermTyped ==
  ASSUME NEW m \in Weights, NEW f \in Features, NEW i \in Coords
  PROVE  TermAt(m, f, i) \in Int /\ (f[i] # Unknown => f[i] \in Int) /\ m.w[i] \in Int
<1>1. f[i] \in FeatureValues \cup {Unknown} /\ m.w[i] \in Int
  BY DEF Features, Weights
<1>2. FeatureValues \subseteq Int
  BY RankingAssumption
<1>3. f[i] # Unknown => f[i] \in Int
  BY <1>1, <1>2
<1>4. f[i] # Unknown => m.w[i] * f[i] \in Int
  BY <1>1, <1>3
<1>. QED BY <1>1, <1>3, <1>4 DEF TermAt

LEMMA LogitIs ==
  ASSUME NEW m \in Weights, NEW f \in Features
  PROVE  \E g : IsSum(g, Coords, Terms(m, f)) /\ Logit(m, f) = m.b + g[Coords]
<1>. DEFINE F(k) == [s \in SUBSET Coords |-> IF s = {} THEN 0 ELSE Terms(m, f)[AnyOf(s)] + k[s \ {AnyOf(s)}]]
            E(k) == [s \in SUBSET Coords |-> IF s = {} THEN 0 ELSE TermAt(m, f, AnyOf(s)) + k[s \ {AnyOf(s)}]]
<1>1. \A s \in SUBSET Coords : s # {} => Terms(m, f)[AnyOf(s)] = TermAt(m, f, AnyOf(s))
  BY PickIs DEF Terms
<1>2. ASSUME NEW k PROVE F(k) = E(k)
  BY <1>1
<1>3. PICK g : IsSum(g, Coords, Terms(m, f))
  BY CoordsFinite, SumExists
<1>. DEFINE h == CHOOSE k : k = E(k)
<1>4. g = E(g)
  <2>1. g = F(g)
    BY <1>3 DEF IsSum
  <2>. HIDE DEF F, E
  <2>. QED BY <1>2, <2>1
<1>5. h = E(h)
  <2>. HIDE DEF E
  <2>. QED BY <1>4
<1>6. IsSum(h, Coords, Terms(m, f))
  <2>. HIDE DEF h
  <2>1. h = F(h)
    <3>. HIDE DEF F, E
    <3>. QED BY <1>2, <1>5
  <2>. QED BY <2>1 DEF IsSum
<1>7. Logit(m, f) = m.b + h[Coords]
  BY DEF Logit, MapThenSumSet, MapThenFoldSet, TermAt, AnyOf
<1>. HIDE DEF h
<1>. QED BY <1>6, <1>7

\* Raising a feature moves the score the way its direction says.
LEMMA RaisedTells ==
  ASSUME NEW m \in Weights, \A i \in Coords : Directions[i] * m.w[i] >= 0,
         NEW f \in Features, NEW i \in Coords, NEW v \in FeatureValues,
         f[i] # Unknown, v > f[i]
  PROVE  Directions[i] * (Logit(m, [f EXCEPT ![i] = v]) - Logit(m, f)) >= 0
<1>. DEFINE r == [f EXCEPT ![i] = v]
<1>1. r \in Features /\ r[i] = v /\ \A j \in Coords \ {i} : r[j] = f[j]
  BY DEF Features
<1>2. v \in Int /\ f[i] \in Int /\ m.w[i] \in Int /\ r[i] # Unknown
  BY <1>1, TermTyped, RankingAssumption
<1>. HIDE DEF r
<1>3. PICK F : IsSum(F, Coords, Terms(m, f)) /\ Logit(m, f) = m.b + F[Coords]
  BY LogitIs
<1>4. PICK H : IsSum(H, Coords, Terms(m, r)) /\ Logit(m, r) = m.b + H[Coords]
  BY <1>1, LogitIs
<1>5. \A j \in Coords : Terms(m, f)[j] \in Int /\ Terms(m, r)[j] \in Int
  BY <1>1, TermTyped DEF Terms
<1>6. \A j \in Coords \ {i} : Terms(m, f)[j] = Terms(m, r)[j]
  BY <1>1 DEF Terms, TermAt
<1>7. /\ F[Coords] \in Int /\ H[Coords] \in Int
      /\ H[Coords] - F[Coords] = Terms(m, r)[i] - Terms(m, f)[i]
  <2>1. IsFiniteSet(Coords)
    BY CoordsFinite
  <2>. DEFINE A == Terms(m, f)
              B == Terms(m, r)
  <2>2. /\ \A j \in Coords : A[j] \in Int /\ B[j] \in Int
        /\ \A j \in Coords \ {i} : A[j] = B[j]
        /\ IsSum(F, Coords, A) /\ IsSum(H, Coords, B)
    BY <1>3, <1>4, <1>5, <1>6
  <2>. HIDE DEF A, B
  <2>3. F[Coords] \in Int /\ H[Coords] \in Int /\ H[Coords] - F[Coords] = B[i] - A[i]
    BY <2>1, <2>2, SumChanges, SMT
  <2>. QED BY <2>3 DEF A, B
<1>8. Terms(m, r)[i] = m.w[i] * v /\ Terms(m, f)[i] = m.w[i] * f[i]
  BY <1>1, <1>2 DEF Terms, TermAt
<1>9. m.b \in Int /\ Directions[i] \in {-1, 0, 1}
  BY RankingAssumption DEF Weights, Coords
<1>. DEFINE d == v - f[i]
<1>10. d \in Nat /\ m.w[i] * v - m.w[i] * f[i] = m.w[i] * d
  BY <1>2
<1>. HIDE DEF d
<1>11. Logit(m, r) - Logit(m, f) = m.w[i] * d
  <2>1. m.w[i] * d \in Int /\ m.w[i] * v \in Int /\ m.w[i] * f[i] \in Int
    BY <1>2, <1>10
  <2>. QED BY <1>3, <1>4, <1>7, <1>8, <1>9, <1>10, <2>1
<1>12. Directions[i] * m.w[i] >= 0
  OBVIOUS
<1>13. Directions[i] * (m.w[i] * d) >= 0
  <2>1. CASE Directions[i] = 0
    BY <1>2, <1>10, <2>1
  <2>2. CASE Directions[i] = 1
    <3>1. m.w[i] >= 0
      BY <1>2, <1>12, <2>2
    <3>2. m.w[i] * d >= 0
      BY <1>2, <1>10, <3>1
    <3>. QED BY <1>2, <1>10, <2>2, <3>2
  <2>3. CASE Directions[i] = -1
    <3>1. m.w[i] <= 0
      BY <1>2, <1>12, <2>3
    <3>2. m.w[i] * d <= 0
      BY <1>2, <1>10, <3>1
    <3>. QED BY <1>2, <1>10, <2>3, <3>2
  <2>. QED BY <1>9, <2>1, <2>2, <2>3
<1>14. Directions[i] * (Logit(m, r) - Logit(m, f)) >= 0
  BY <1>11, <1>13
<1>. QED BY <1>14 DEF r

LEMMA LearnKeeps ==
  ASSUME NEW m \in Weights, NEW f \in Features, NEW err \in Int, NEW decay \in 0..1
  PROVE  /\ Descent(m, f, err, decay) \in Weights
         /\ \A i \in Coords : Directions[i] * Descent(m, f, err, decay).w[i] >= 0
<1>. DEFINE w == [i \in Coords |->
              IF f[i] = Unknown THEN m.w[i]
              ELSE Clip(m.w[i] - err * f[i] - (IF m.w[i] > 0 THEN decay
                                               ELSE IF m.w[i] < 0 THEN -decay ELSE 0))]
<1>1. \A x \in Int : Clip(x) \in Int
  BY RankingAssumption DEF Clip
<1>2. ASSUME NEW i \in Coords PROVE w[i] \in Int
  <2>1. m.w[i] \in Int /\ (f[i] # Unknown => f[i] \in Int)
    BY TermTyped
  <2>2. CASE f[i] = Unknown
    BY <2>1, <2>2
  <2>3. CASE f[i] # Unknown
    <3>1. m.w[i] - err * f[i] - (IF m.w[i] > 0 THEN decay ELSE IF m.w[i] < 0 THEN -decay ELSE 0) \in Int
      BY <2>1, <2>3
    <3>. QED BY <1>1, <2>3, <3>1
  <2>. QED BY <2>2, <2>3
<1>3. m.b \in Int /\ m.seen \in Nat /\ m.b - err \in Int
  BY DEF Weights
<1>4. Descent(m, f, err, decay) = [w |-> Projected(w), b |-> Clip(m.b - err), seen |-> m.seen + 1]
  BY DEF Descent
<1>. HIDE DEF w
<1>5. Projected(w) \in [Coords -> Int]
  BY <1>2 DEF Projected
<1>6. \A i \in Coords : Directions[i] * Projected(w)[i] >= 0
  <2>. SUFFICES ASSUME NEW i \in Coords PROVE Directions[i] * Projected(w)[i] >= 0
    OBVIOUS
  <2>1. Directions[i] \in {-1, 0, 1}
    BY RankingAssumption DEF Coords
  <2>2. Projected(w)[i] = IF Directions[i] * w[i] < 0 THEN 0 ELSE w[i]
    BY DEF Projected
  <2>3. w[i] \in Int
    BY <1>2
  <2>. QED BY <2>1, <2>2, <2>3
<1>. QED BY <1>1, <1>3, <1>4, <1>5, <1>6 DEF Weights

-----------------------------------------------------------------------------
(* The cut.                                                                *)

ScoredExamples(ex, n) ==
    n \in Nat /\ DOMAIN ex = 1..n /\ \A i \in 1..n : ex[i].score \in Int /\ ex[i].real \in BOOLEAN
Cuts == [cut : Int, kept : Int]

LEMMA BetteredTyped ==
  ASSUME NEW n, NEW ex, ScoredExamples(ex, n), NEW rate, NEW best \in Cuts, NEW cut \in Int
  PROVE  Bettered(ex, rate, best, cut) \in Cuts /\ Cardinality(Kept(ex, cut)) \in Nat
<1>1. IsFiniteSet(Kept(ex, cut))
  <2>1. IsFiniteSet(1..n)
    BY FS_Interval DEF ScoredExamples
  <2>2. Kept(ex, cut) \subseteq 1..n
    BY DEF Kept, ScoredExamples
  <2>. QED BY <2>1, <2>2, FS_Subset
<1>2. Cardinality(Kept(ex, cut)) \in Nat
  BY <1>1, FS_CardinalityType
<1>. QED BY <1>2 DEF Bettered, Cuts

\* BestBar goes through the examples from the first to the last.
LEMMA BarRun ==
  ASSUME NEW n, NEW ex, ScoredExamples(ex, n), NEW rate
  PROVE  \E h : /\ h[0] = NoCut /\ h[n] = BestBar(ex, rate)
                /\ \A k \in 0..n : h[k] \in Cuts
                /\ \A k \in 1..n : h[k] = Bettered(ex, rate, h[k - 1], ex[k].score)
<1>. DEFINE g == [x \in Cuts \X (1..n) |-> Bettered(ex, rate, x[1], ex[x[2]].score)]
            F(f) == [s \in SUBSET DOMAIN ex |->
                       IF s = {} THEN NoCut
                       ELSE Bettered(ex, rate, f[s \ {Max(s)}], ex[Max(s)].score)]
<1>1. n \in Nat /\ DOMAIN ex = 1..n /\ \A i \in 1..n : ex[i].score \in Int
  BY DEF ScoredExamples
<1>2. \A a \in Cuts, i \in 1..n :
         /\ Bettered(ex, rate, a, ex[i].score) \in Cuts
         /\ g[<<a, i>>] = Bettered(ex, rate, a, ex[i].score)
  BY <1>1, BetteredTyped
<1>3. g \in [Cuts \X (1..n) -> Cuts] /\ NoCut \in Cuts
  <2>1. NoCut \in Cuts
    BY DEF NoCut, Cuts
  <2>2. \A x \in Cuts \X (1..n) : Bettered(ex, rate, x[1], ex[x[2]].score) \in Cuts
    BY <1>2
  <2>. QED BY <2>1, <2>2
<1>. HIDE DEF g
<1>4. PICK it0 \in [SUBSET (1..n) -> Cuts] : IsFold(it0, n, NoCut, g)
  BY <1>1, <1>3, FoldExists
<1>5. \A s \in SUBSET (1..n) : s # {} => Max(s) \in 1..n /\ s \ {Max(s)} \in SUBSET (1..n)
  BY <1>1, GreatestOf
<1>6. it0 = F(it0)
  <2>1. ASSUME NEW s \in SUBSET (1..n)
        PROVE  it0[s] = IF s = {} THEN NoCut
                        ELSE Bettered(ex, rate, it0[s \ {Max(s)}], ex[Max(s)].score)
    <3>1. it0[s] = IF s = {} THEN NoCut ELSE g[<<it0[s \ {Max(s)}], Max(s)>>]
      BY <1>4 DEF IsFold
    <3>2. s # {} => it0[s \ {Max(s)}] \in Cuts /\ Max(s) \in 1..n
      BY <1>5
    <3>. QED BY <1>2, <3>1, <3>2
  <2>2. it0 = [s \in SUBSET (1..n) |-> it0[s]]
    OBVIOUS
  <2>. QED BY <1>1, <2>1, <2>2
<1>. DEFINE it == CHOOSE f : f = F(f)
<1>7. it = F(it)
  <2>. HIDE DEF F
  <2>. QED BY <1>6
<1>8. BestBar(ex, rate) = it[1..n]
  BY <1>1 DEF BestBar, FoldLeft, MapThenFoldSet
<1>. HIDE DEF it
<1>9. Folding(it, n, Cuts, NoCut, g)
  <2>1. \A s \in SUBSET (1..n) : it[s] = IF s = {} THEN NoCut
                        ELSE Bettered(ex, rate, it[s \ {Max(s)}], ex[Max(s)].score)
    BY <1>1, <1>7
  <2>. QED BY <1>2, <1>5, <2>1 DEF Folding
<1>. HIDE DEF F
<1>10. PICK h : h[n] = it[1..n] /\ Stepping(h, n, Cuts, NoCut, g)
  BY <1>1, <1>3, <1>9, FoldRuns
<1>11. ASSUME NEW k \in 1..n PROVE h[k] = Bettered(ex, rate, h[k - 1], ex[k].score)
  <2>1. k - 1 \in 0..n
    BY <1>1
  <2>. QED BY <1>2, <1>10, <2>1 DEF Stepping
<1>. QED BY <1>8, <1>10, <1>11 DEF Stepping

\* The cut honours the rate, and no cut that does keeps more.
LEMMA BestBarTells ==
  ASSUME NEW n, NEW ex, ScoredExamples(ex, n), NEW rate
  PROVE  IF BestBar(ex, rate) = NoCut THEN \A i \in 1..n : ~Honest(ex, rate, ex[i].score)
         ELSE /\ Honest(ex, rate, BestBar(ex, rate).cut)
              /\ \A i \in 1..n : Honest(ex, rate, ex[i].score) =>
                    Cardinality(Kept(ex, ex[i].score))
                       <= Cardinality(Kept(ex, BestBar(ex, rate).cut))
<1>1. PICK h : /\ h[0] = NoCut /\ h[n] = BestBar(ex, rate)
               /\ \A k \in 0..n : h[k] \in Cuts
               /\ \A k \in 1..n : h[k] = Bettered(ex, rate, h[k - 1], ex[k].score)
  BY BarRun
<1>. DEFINE NoBar(k) == h[k] = NoCut /\ \A i \in 1..k : ~Honest(ex, rate, ex[i].score)
            TopBar(k) == /\ h[k].kept \in Nat /\ Honest(ex, rate, h[k].cut)
                         /\ h[k].kept = Cardinality(Kept(ex, h[k].cut))
                         /\ \A i \in 1..k : Honest(ex, rate, ex[i].score) =>
                               Cardinality(Kept(ex, ex[i].score)) <= h[k].kept
            T == {k \in 0..n : NoBar(k) \/ TopBar(k)}
<1>2. n \in Nat /\ \A i \in 1..n : ex[i].score \in Int
  BY DEF ScoredExamples
<1>3. NoBar(0)
  BY <1>1
<1>4. ASSUME NEW k \in 0..n - 1, NoBar(k) \/ TopBar(k) PROVE NoBar(k + 1) \/ TopBar(k + 1)
  <2>1. k \in 0..n /\ k + 1 \in 1..n /\ (k + 1) - 1 = k /\ 1..k + 1 = (1..k) \cup {k + 1}
    BY <1>2
  <2>. DEFINE c == ex[k + 1].score
              kept == Cardinality(Kept(ex, c))
  <2>2. c \in Int /\ kept \in Nat /\ h[k] \in Cuts
    BY <1>1, <1>2, <2>1, BetteredTyped
  <2>3. h[k + 1] = Bettered(ex, rate, h[k], c)
    BY <1>1, <2>1
  <2>4. h[k].kept \in Int
    BY <2>2 DEF Cuts
  <2>5. CASE Honest(ex, rate, c) /\ kept > h[k].kept
    <3>1. h[k + 1] = [cut |-> c, kept |-> kept]
      BY <2>3, <2>5 DEF Bettered
    <3>2. h[k + 1].cut = c /\ h[k + 1].kept = kept
      BY <3>1
    <3>3. \A i \in 1..k : Honest(ex, rate, ex[i].score) => Cardinality(Kept(ex, ex[i].score)) <= kept
      <4>1. \A i \in 1..k : Cardinality(Kept(ex, ex[i].score)) \in Nat
        <5>. SUFFICES ASSUME NEW i \in 1..k PROVE Cardinality(Kept(ex, ex[i].score)) \in Nat
          OBVIOUS
        <5>1. ex[i].score \in Int
          BY <1>2, <2>1
        <5>. QED BY <2>2, <5>1, BetteredTyped
      <4>. HIDE DEF kept
      <4>. QED BY <1>4, <2>2, <2>4, <2>5, <4>1
    <3>4. kept <= kept
      BY <2>2
    <3>. QED BY <2>1, <2>2, <2>5, <3>2, <3>3, <3>4
  <2>6. CASE ~(Honest(ex, rate, c) /\ kept > h[k].kept)
    <3>1. h[k + 1] = h[k]
      BY <2>3, <2>6 DEF Bettered
    <3>2. CASE NoBar(k)
      <4>1. h[k].kept = -1
        BY <3>2 DEF NoCut
      <4>2. ~Honest(ex, rate, c)
        BY <2>2, <2>6, <4>1
      <4>. QED BY <2>1, <3>1, <3>2, <4>2
    <3>3. CASE TopBar(k)
      <4>1. Honest(ex, rate, c) => kept <= h[k].kept
        BY <2>2, <2>4, <2>6
      <4>. QED BY <2>1, <3>1, <3>3, <4>1
    <3>. QED BY <1>4, <3>2, <3>3
  <2>. QED BY <2>5, <2>6
<1>5. n \in T
  <2>. HIDE DEF NoBar, TopBar
  <2>1. 0 \in T
    BY <1>2, <1>3
  <2>2. \A k \in 0..n - 1 : k \in T => k + 1 \in T
    BY <1>2, <1>4
  <2>. HIDE DEF T
  <2>3. \A k \in 0..n : k \in T
    BY <1>2, <2>1, <2>2, StepByStep
  <2>. QED BY <1>2, <2>3
<1>6. NoBar(n) \/ TopBar(n)
  BY <1>5
<1>7. NoCut.kept = -1
  BY DEF NoCut
<1>8. TopBar(n) => h[n] # NoCut
  BY <1>7
<1>. QED BY <1>1, <1>6, <1>8

-----------------------------------------------------------------------------
(* Influencers.                                                            *)

RecordLists == UNION {[1..n -> InfRecords] : n \in Nat}

LEMMA MentionTyped ==
  ASSUME NEW rs \in RecordLists, NEW p \in Mentions(rs)
  PROVE  /\ rs[p[1]] \in InfRecords /\ p[2] \in DOMAIN rs[p[1]].infl
         /\ p[1] \in DOMAIN rs /\ p = <<p[1], p[2]>>
         /\ Weighed(rs, p) \in Int /\ rs[p[1]].score \in Nat
         /\ Spelled(NameAt(rs, p)[1], NameAt(rs, p)[2]) \in Int
<1>1. PICK r \in DOMAIN rs : \E k \in DOMAIN rs[r].infl : p = <<r, k>>
  BY DEF Mentions
<1>2. PICK k \in DOMAIN rs[r].infl : p = <<r, k>>
  BY <1>1
<1>3. rs[r] \in InfRecords
  BY DEF RecordLists
<1>4. p[1] = r /\ p[2] = k
  BY <1>2
<1>5. /\ rs[r].score \in Nat /\ rs[r].infl[k][3] \in Int
      /\ Spelled(rs[r].infl[k][1], rs[r].infl[k][2]) \in Int
  BY <1>2, <1>3, RankingAssumption
<1>6. Weighed(rs, p) \in Int
  BY <1>4, <1>5 DEF Weighed, Mentioned
<1>. QED BY <1>2, <1>3, <1>4, <1>5, <1>6 DEF NameAt, Mentioned

LEMMA MentionsFinite ==
  ASSUME NEW rs \in RecordLists
  PROVE  IsFiniteSet(Mentions(rs))
<1>1. PICK n \in Nat : rs \in [1..n -> InfRecords]
  BY DEF RecordLists
<1>. DEFINE Of(r) == {<<r, k>> : k \in DOMAIN rs[r].infl}
            C == {Of(r) : r \in DOMAIN rs}
<1>2. IsFiniteSet(DOMAIN rs)
  BY <1>1, FS_Interval
<1>3. IsFiniteSet(C)
  <2>. DEFINE f == [r \in DOMAIN rs |-> Of(r)]
  <2>1. f \in Surjection(DOMAIN rs, C)
    <3>. HIDE DEF Of
    <3>. QED BY DEF Surjection
  <2>. HIDE DEF f, C
  <2>. QED BY <1>2, <2>1, FS_Surjection
<1>4. \A s \in C : IsFiniteSet(s)
  <2>. SUFFICES ASSUME NEW r \in DOMAIN rs PROVE IsFiniteSet(Of(r))
    OBVIOUS
  <2>1. DOMAIN rs[r].infl = 1..Len(rs[r].infl) /\ Len(rs[r].infl) \in Nat
    BY <1>1, RankingAssumption
  <2>2. IsFiniteSet(DOMAIN rs[r].infl)
    BY <2>1, FS_Interval
  <2>. DEFINE f == [k \in DOMAIN rs[r].infl |-> <<r, k>>]
  <2>3. f \in Surjection(DOMAIN rs[r].infl, Of(r))
    BY DEF Surjection
  <2>. HIDE DEF f, Of
  <2>. QED BY <2>2, <2>3, FS_Surjection
<1>5. IsFiniteSet(UNION C)
  <2>. HIDE DEF C
  <2>. QED BY <1>3, <1>4, FS_UNION
<1>. QED BY <1>5 DEF Mentions

\* t is s the other way round.
Turns(n, s, t) ==
  DOMAIN t = 1..n /\ \A i \in 1..n : n + 1 - i \in 1..n /\ t[i] = s[n + 1 - i]
LEMMA ReverseIs ==
  ASSUME NEW V, NEW n \in Nat, NEW s \in [1..n -> V]
  PROVE  Reverse(s) \in [1..n -> V] /\ Turns(n, s, Reverse(s))
<1>1. s \in Seq(V) /\ Len(s) = n
  <2>1. s \in Seq(V)
    OBVIOUS
  <2>2. DOMAIN s = 1..n /\ DOMAIN s = 1..Len(s) /\ Len(s) \in Nat
    BY <2>1
  <2>. QED BY <2>1, <2>2
<1>2. \A i \in 1..n : n + 1 - i \in 1..n /\ (Len(s) - i) + 1 = n + 1 - i
  BY <1>1
<1>3. Reverse(s) = [i \in 1..n |-> s[(Len(s) - i) + 1]]
  BY <1>1 DEF Reverse
<1>. QED BY <1>2, <1>3 DEF Turns

\* The same mention in the list the other way round.
TurnedAt(n, p) == <<n + 1 - p[1], p[2]>>
LEMMA TurnedMention ==
  ASSUME NEW n \in Nat, NEW rs \in [1..n -> InfRecords], NEW t \in [1..n -> InfRecords],
         \A i \in 1..n : n + 1 - i \in 1..n /\ t[i] = rs[n + 1 - i],
         NEW p \in Mentions(rs)
  PROVE  /\ TurnedAt(n, p) \in Mentions(t) /\ TurnedAt(n, TurnedAt(n, p)) = p
         /\ NameAt(t, TurnedAt(n, p)) = NameAt(rs, p)
         /\ Weighed(t, TurnedAt(n, p)) = Weighed(rs, p)
         /\ t[TurnedAt(n, p)[1]] = rs[p[1]]
<1>1. /\ rs[p[1]] \in InfRecords /\ p[2] \in DOMAIN rs[p[1]].infl
      /\ p[1] \in DOMAIN rs /\ p = <<p[1], p[2]>>
  <2>1. rs \in RecordLists
    BY DEF RecordLists
  <2>. QED BY <2>1, MentionTyped
<1>. DEFINE q == TurnedAt(n, p)
<1>2. q[1] = n + 1 - p[1] /\ q[2] = p[2] /\ q = <<q[1], q[2]>>
  BY DEF TurnedAt
<1>3. p[1] \in 1..n /\ q[1] \in 1..n /\ n + 1 - q[1] = p[1]
  BY <1>1, <1>2
<1>4. t[q[1]] = rs[p[1]]
  BY <1>2, <1>3
<1>5. TurnedAt(n, q) = p
  BY <1>1, <1>2, <1>3 DEF TurnedAt
<1>. HIDE DEF q
<1>6. Mentioned(t, q) = Mentioned(rs, p)
  BY <1>2, <1>4 DEF Mentioned
<1>7. q \in Mentions(t)
  <2>1. q[1] \in DOMAIN t /\ q[2] \in DOMAIN t[q[1]].infl
    BY <1>1, <1>2, <1>3, <1>4
  <2>2. q \in {<<q[1], k>> : k \in DOMAIN t[q[1]].infl}
    BY <1>2, <2>1
  <2>. QED BY <2>1, <2>2 DEF Mentions
<1>8. NameAt(t, q) = NameAt(rs, p)
  BY <1>6 DEF NameAt
<1>9. Weighed(t, q) = Weighed(rs, p)
  BY <1>4, <1>6 DEF Weighed
<1>. QED BY <1>4, <1>5, <1>7, <1>8, <1>9 DEF q

Total(rs, S) == MapThenSumSet(LAMBDA p : Weighed(rs, p), S)
WeighedAll(rs, S) == [p \in S |-> Weighed(rs, p)]
LEMMA TotalIs ==
  ASSUME NEW rs \in RecordLists, NEW S \in SUBSET Mentions(rs)
  PROVE  \E g : IsSum(g, S, WeighedAll(rs, S)) /\ Total(rs, S) = g[S]
<1>. DEFINE w == WeighedAll(rs, S)
            F(k) == [s \in SUBSET S |-> IF s = {} THEN 0 ELSE w[AnyOf(s)] + k[s \ {AnyOf(s)}]]
            E(k) == [s \in SUBSET S |-> IF s = {} THEN 0 ELSE Weighed(rs, AnyOf(s)) + k[s \ {AnyOf(s)}]]
<1>1. \A s \in SUBSET S : s # {} => w[AnyOf(s)] = Weighed(rs, AnyOf(s))
  BY PickIs DEF WeighedAll
<1>2. ASSUME NEW k PROVE F(k) = E(k)
  <2>. HIDE DEF w
  <2>. QED BY <1>1
<1>3. PICK g : IsSum(g, S, w)
  <2>1. IsFiniteSet(S)
    BY MentionsFinite, FS_Subset
  <2>. HIDE DEF w
  <2>. QED BY <2>1, SumExists
<1>. HIDE DEF w
<1>. DEFINE h == CHOOSE k : k = E(k)
<1>4. g = E(g)
  <2>1. g = F(g)
    BY <1>3 DEF IsSum
  <2>. HIDE DEF F, E
  <2>. QED BY <1>2, <2>1
<1>5. h = E(h)
  <2>. HIDE DEF E
  <2>. QED BY <1>4
<1>6. IsSum(h, S, w)
  <2>. HIDE DEF h
  <2>1. h = F(h)
    <3>. HIDE DEF F, E
    <3>. QED BY <1>2, <1>5
  <2>. QED BY <2>1 DEF IsSum
<1>7. Total(rs, S) = h[S]
  BY DEF Total, MapThenSumSet, MapThenFoldSet, AnyOf
<1>. HIDE DEF h
<1>. QED BY <1>6, <1>7 DEF w

\* A name's total does not depend on the order of the records.
LEMMA TurnedTally ==
  ASSUME NEW n \in Nat, NEW rs \in [1..n -> InfRecords], NEW t \in [1..n -> InfRecords],
         \A i \in 1..n : n + 1 - i \in 1..n /\ t[i] = rs[n + 1 - i],
         \A i \in 1..n : rs[i] = t[n + 1 - i],
         NEW name
  PROVE  Tally(t, name) = Tally(rs, name)
<1>. DEFINE M == MentionsOf(rs, name)
            N == MentionsOf(t, name)
            b == [p \in M |-> TurnedAt(n, p)]
            f == WeighedAll(rs, M)
            h == WeighedAll(t, N)
<1>1. rs \in RecordLists /\ t \in RecordLists
  BY DEF RecordLists
<1>2. \A p \in M : p \in Mentions(rs) /\ NameAt(rs, p) = name
  BY DEF MentionsOf
<1>3. \A q \in N : q \in Mentions(t) /\ NameAt(t, q) = name
  BY DEF MentionsOf
<1>4. ASSUME NEW p \in M
      PROVE  /\ TurnedAt(n, p) \in N /\ TurnedAt(n, TurnedAt(n, p)) = p
             /\ Weighed(t, TurnedAt(n, p)) = Weighed(rs, p)
             /\ t[TurnedAt(n, p)[1]].score = rs[p[1]].score
  <2>1. /\ TurnedAt(n, p) \in Mentions(t) /\ TurnedAt(n, TurnedAt(n, p)) = p
        /\ NameAt(t, TurnedAt(n, p)) = NameAt(rs, p)
        /\ Weighed(t, TurnedAt(n, p)) = Weighed(rs, p)
        /\ t[TurnedAt(n, p)[1]] = rs[p[1]]
    BY <1>2, TurnedMention
  <2>. QED BY <1>2, <2>1 DEF MentionsOf
<1>5. ASSUME NEW q \in N
      PROVE  /\ TurnedAt(n, q) \in M /\ TurnedAt(n, TurnedAt(n, q)) = q
             /\ rs[TurnedAt(n, q)[1]].score = t[q[1]].score
  <2>1. /\ TurnedAt(n, q) \in Mentions(rs) /\ TurnedAt(n, TurnedAt(n, q)) = q
        /\ NameAt(rs, TurnedAt(n, q)) = NameAt(t, q)
        /\ rs[TurnedAt(n, q)[1]] = t[q[1]]
    BY <1>3, TurnedMention
  <2>. QED BY <1>3, <2>1 DEF MentionsOf
<1>6. M \subseteq Mentions(rs) /\ N \subseteq Mentions(t)
  BY <1>2, <1>3
<1>7. IsFiniteSet(M) /\ IsFiniteSet(N)
  <2>1. IsFiniteSet(Mentions(rs)) /\ IsFiniteSet(Mentions(t))
    BY <1>1, MentionsFinite
  <2>. HIDE DEF M, N
  <2>. QED BY <1>6, <2>1, FS_Subset
<1>. HIDE DEF M, N
<1>8. b \in [M -> N]
  BY <1>4
<1>9. b \in Bijection(M, N)
  <2>1. \A p, q \in M : b[p] = b[q] => p = q
    <3>. SUFFICES ASSUME NEW p \in M, NEW q \in M, b[p] = b[q] PROVE p = q
      OBVIOUS
    <3>1. TurnedAt(n, p) = TurnedAt(n, q)
      OBVIOUS
    <3>2. TurnedAt(n, TurnedAt(n, p)) = p /\ TurnedAt(n, TurnedAt(n, q)) = q
      BY <1>4
    <3>. QED BY <3>1, <3>2
  <2>2. \A q \in N : \E p \in M : b[p] = q
    BY <1>5
  <2>. HIDE DEF b
  <2>3. IsInjective(b)
    BY <1>8, <2>1 DEF IsInjective
  <2>. QED BY <1>8, <2>2, <2>3 DEF Bijection, Injection, Surjection
<1>10. Cardinality(N) = Cardinality(M)
  <2>1. ExistsBijection(M, N)
    BY <1>9 DEF ExistsBijection
  <2>. QED BY <1>7, <2>1, FS_Bijection
<1>11. Renames(b, M, N, f, h)
  <2>1. ASSUME NEW p \in M PROVE f[p] \in Int /\ h[b[p]] = f[p]
    <3>1. Weighed(rs, p) \in Int
      BY <1>1, <1>2, MentionTyped
    <3>2. b[p] = TurnedAt(n, p) /\ b[p] \in N
      BY <1>8
    <3>. QED BY <1>4, <3>1, <3>2 DEF WeighedAll
  <2>. HIDE DEF b, f, h
  <2>. QED BY <1>9, <2>1 DEF Renames
<1>12. Total(t, N) = Total(rs, M)
  <2>1. PICK F : IsSum(F, M, f) /\ Total(rs, M) = F[M]
    BY <1>1, <1>6, TotalIs
  <2>2. PICK H : IsSum(H, N, h) /\ Total(t, N) = H[N]
    BY <1>1, <1>6, TotalIs
  <2>. HIDE DEF b, f, h
  <2>3. F[M] = H[N]
    BY <1>7, <1>11, <2>1, <2>2, SumRenamed
  <2>. QED BY <2>1, <2>2, <2>3
<1>13. {t[q[1]].score : q \in N} = {rs[p[1]].score : p \in M}
  <2>1. ASSUME NEW p \in M PROVE rs[p[1]].score \in {t[q[1]].score : q \in N}
    BY <1>4
  <2>2. ASSUME NEW q \in N PROVE t[q[1]].score \in {rs[p[1]].score : p \in M}
    BY <1>5
  <2>. DEFINE A == {t[q[1]].score : q \in N}
              B == {rs[p[1]].score : p \in M}
  <2>3. \A x \in B : x \in A
    <3>. HIDE DEF A
    <3>. QED BY <2>1 DEF A
  <2>4. \A x \in A : x \in B
    <3>. HIDE DEF B
    <3>. QED BY <2>2 DEF B
  <2>. HIDE DEF A, B
  <2>5. A = B
    BY <2>3, <2>4
  <2>. QED BY <2>5 DEF A, B
<1>. QED BY <1>10, <1>12, <1>13 DEF Tally, Total, M, N

LEMMA TurnedNames ==
  ASSUME NEW n \in Nat, NEW rs \in [1..n -> InfRecords], NEW t \in [1..n -> InfRecords],
         \A i \in 1..n : n + 1 - i \in 1..n /\ t[i] = rs[n + 1 - i]
  PROVE  Names(rs) \subseteq Names(t)
<1>1. ASSUME NEW p \in Mentions(rs) PROVE NameAt(rs, p) \in {NameAt(t, q) : q \in Mentions(t)}
  <2>1. TurnedAt(n, p) \in Mentions(t) /\ NameAt(t, TurnedAt(n, p)) = NameAt(rs, p)
    BY TurnedMention
  <2>. QED BY <2>1
<1>. QED BY <1>1 DEF Names

LEMMA TurnedTallies ==
  ASSUME NEW n \in Nat, NEW rs \in [1..n -> InfRecords]
  PROVE  Tallies(Reverse(rs)) = Tallies(rs) /\ Reverse(rs) \in [1..n -> InfRecords]
<1>. DEFINE t == Reverse(rs)
<1>1. t \in [1..n -> InfRecords] /\ \A i \in 1..n : n + 1 - i \in 1..n /\ t[i] = rs[n + 1 - i]
  <2>1. Reverse(rs) \in [1..n -> InfRecords] /\ Turns(n, rs, Reverse(rs))
    BY ReverseIs
  <2>. QED BY <2>1 DEF Turns
<1>. HIDE DEF t
<1>2. \A i \in 1..n : n + 1 - i \in 1..n /\ rs[i] = t[n + 1 - i]
  <2>. SUFFICES ASSUME NEW i \in 1..n PROVE n + 1 - i \in 1..n /\ rs[i] = t[n + 1 - i]
    OBVIOUS
  <2>1. n + 1 - i \in 1..n /\ n + 1 - (n + 1 - i) = i
    OBVIOUS
  <2>. QED BY <1>1, <2>1
<1>3. Names(rs) \subseteq Names(t)
  BY <1>1, TurnedNames
<1>4. Names(t) \subseteq Names(rs)
  BY <1>1, <1>2, TurnedNames
<1>5. \A name : Tally(t, name) = Tally(rs, name)
  BY <1>1, <1>2, TurnedTally
<1>6. Tallies(t) = Tallies(rs)
  <2>1. Names(t) = Names(rs)
    BY <1>3, <1>4
  <2>. QED BY <1>5, <2>1 DEF Tallies
<1>. QED BY <1>1, <1>6 DEF t

\* Totals and greatest scores are numbers, and names that differ are spelled apart.
LEMMA TallyTyped ==
  ASSUME NEW rs \in RecordLists, NEW name \in Names(rs)
  PROVE  /\ Tally(rs, name).total \in Int /\ Tally(rs, name).max \in Int
         /\ Tally(rs, name).key = name /\ Spelled(name[1], name[2]) \in Int
<1>. DEFINE S == MentionsOf(rs, name)
<1>1. S \subseteq Mentions(rs) /\ IsFiniteSet(S)
  <2>1. S \subseteq Mentions(rs)
    BY DEF MentionsOf
  <2>. HIDE DEF S
  <2>. QED BY <2>1, MentionsFinite, FS_Subset
<1>2. Tally(rs, name).total = Total(rs, S) /\ Tally(rs, name).key = name
      /\ Tally(rs, name).max = Max({0} \cup {rs[p[1]].score : p \in S})
  BY DEF Tally, Total
<1>. HIDE DEF S
<1>3. Total(rs, S) \in Int
  <2>1. PICK g : IsSum(g, S, WeighedAll(rs, S)) /\ Total(rs, S) = g[S]
    BY <1>1, TotalIs
  <2>2. \A p \in S : WeighedAll(rs, S)[p] \in Int
    BY <1>1, MentionTyped DEF WeighedAll
  <2>. DEFINE w == WeighedAll(rs, S)
  <2>. HIDE DEF w
  <2>3. \A s \in SUBSET S : g[s] \in Int
    BY <1>1, <2>1, <2>2, SumInteger DEF w
  <2>. QED BY <2>1, <2>3
<1>4. Max({0} \cup {rs[p[1]].score : p \in S}) \in Int
  <2>. DEFINE C == {rs[p[1]].score : p \in S}
              f == [p \in S |-> rs[p[1]].score]
  <2>1. C \subseteq Nat
    BY <1>1, MentionTyped
  <2>2. f \in Surjection(S, C)
    BY DEF Surjection
  <2>. HIDE DEF C, f
  <2>3. IsFiniteSet(C)
    BY <1>1, <2>2, FS_Surjection
  <2>4. IsFiniteSet({0} \cup C)
    BY <2>3, FS_AddElement
  <2>5. {0} \cup C \subseteq Nat /\ {0} \cup C # {}
    BY <2>1
  <2>6. Max({0} \cup C) \in {0} \cup C
    BY <2>4, <2>5, GreatestIn
  <2>. QED BY <2>5, <2>6 DEF C
<1>5. Spelled(name[1], name[2]) \in Int
  <2>1. PICK p \in Mentions(rs) : NameAt(rs, p) = name
    BY DEF Names
  <2>. QED BY <2>1, MentionTyped
<1>. QED BY <1>2, <1>3, <1>4, <1>5

LEMMA TalliesFinite ==
  ASSUME NEW rs \in RecordLists
  PROVE  IsFiniteSet(Tallies(rs)) /\ Cardinality(Tallies(rs)) \in Nat
<1>1. IsFiniteSet(Mentions(rs))
  BY MentionsFinite
<1>. DEFINE C == {NameAt(rs, p) : p \in Mentions(rs)}
            f == [p \in Mentions(rs) |-> NameAt(rs, p)]
            g == [name \in Names(rs) |-> Tally(rs, name)]
<1>2. f \in Surjection(Mentions(rs), C) /\ Names(rs) \subseteq C
  BY DEF Surjection, Names
<1>3. g \in Surjection(Names(rs), Tallies(rs))
  BY DEF Surjection, Tallies
<1>. HIDE DEF C, f, g
<1>4. IsFiniteSet(C)
  BY <1>1, <1>2, FS_Surjection
<1>5. IsFiniteSet(Names(rs))
  BY <1>2, <1>4, FS_Subset
<1>6. IsFiniteSet(Tallies(rs))
  BY <1>3, <1>5, FS_Surjection
<1>. QED BY <1>6, FS_CardinalityType

\* Two ways sort.Slice may leave the totals have ties at each place.
LEMMA InfluencersSettled ==
  ASSUME NEW n \in Nat, NEW rs \in [1..n -> InfRecords], NEW out \in Influencers(rs)
  PROVE  /\ out \in Influencers(Reverse(rs))
         /\ \A o \in Influencers(Reverse(rs)), i \in DOMAIN out : Tied(o[i], out[i])
<1>. DEFINE S == Tallies(rs)
            m == Cardinality(S)
            R == {x \in S \X S : Outranks(x[1], x[2])}
<1>1. rs \in RecordLists
  BY DEF RecordLists
<1>2. ASSUME NEW x \in S
      PROVE  /\ x.total \in Int /\ x.max \in Int /\ Spelled(x.key[1], x.key[2]) \in Int
  <2>1. PICK c \in Names(rs) : x = Tally(rs, c)
    BY DEF Tallies
  <2>. QED BY <1>1, <2>1, TallyTyped
<1>3. WeakOrder(S, R)
  <2>1. ASSUME NEW x \in S PROVE ~Outranks(x, x)
    BY <1>2 DEF Outranks
  <2>2. ASSUME NEW x \in S, NEW y \in S, NEW z \in S, ~Outranks(x, y), ~Outranks(y, z)
        PROVE  ~Outranks(x, z)
    <3>. DEFINE u == Spelled(x.key[1], x.key[2])
                v == Spelled(y.key[1], y.key[2])
                w == Spelled(z.key[1], z.key[2])
    <3>1. /\ x.total \in Int /\ y.total \in Int /\ z.total \in Int /\ x.max \in Int
          /\ y.max \in Int /\ z.max \in Int /\ u \in Int /\ v \in Int /\ w \in Int
      BY <1>2
    <3>2. /\ Outranks(x, y) <=> \/ x.total > y.total
                                \/ x.total = y.total /\ x.max > y.max
                                \/ x.total = y.total /\ x.max = y.max /\ u < v
          /\ Outranks(y, z) <=> \/ y.total > z.total
                                \/ y.total = z.total /\ y.max > z.max
                                \/ y.total = z.total /\ y.max = z.max /\ v < w
          /\ Outranks(x, z) <=> \/ x.total > z.total
                                \/ x.total = z.total /\ x.max > z.max
                                \/ x.total = z.total /\ x.max = z.max /\ u < w
      BY DEF Outranks
    <3>. HIDE DEF u, v, w
    <3>. QED BY <2>2, <3>1, <3>2
  <2>. QED BY <2>1, <2>2 DEF WeakOrder
<1>4. IsFiniteSet(S) /\ m \in Nat
  BY <1>1, TalliesFinite
<1>5. ASSUME NEW o \in Influencers(rs) PROVE RankedBy(o, m, S, R) /\ DOMAIN o = 1..m
  <2>1. o \in Bijection(1..m, S) /\ \A i, j \in DOMAIN o : i < j => ~Outranks(o[j], o[i])
    BY <1>5 DEF Influencers
  <2>2. o \in [1..m -> S] /\ \A i, j \in 1..m : o[i] = o[j] => i = j
    <3>. DEFINE T == 1..m
    <3>. HIDE DEF T, R, S, m
    <3>1. o \in Bijection(T, S)
      BY <2>1 DEF T
    <3>2. o \in [T -> S] /\ \A i, j \in T : o[i] = o[j] => i = j
      BY <3>1, Fun_BijectionProperties
    <3>. QED BY <3>2 DEF T
  <2>. HIDE DEF S, m
  <2>. QED BY <2>1, <2>2 DEF RankedBy
<1>6. Influencers(Reverse(rs)) = Influencers(rs)
  <2>1. Tallies(Reverse(rs)) = Tallies(rs)
    BY <1>1, TurnedTallies
  <2>. QED BY <2>1 DEF Influencers
<1>7. ASSUME NEW o \in Influencers(rs), NEW i \in DOMAIN out PROVE Tied(o[i], out[i])
  <2>1. /\ RankedBy(o, m, S, R) /\ RankedBy(out, m, S, R) /\ i \in 1..m /\ m = Cardinality(S)
    BY <1>5, <1>7
  <2>2. o[i] \in S /\ out[i] \in S
    BY <2>1 DEF RankedBy
  <2>3. <<o[i], out[i]>> \notin R /\ <<out[i], o[i]>> \notin R
    <3>. HIDE DEF R, S, m
    <3>. QED BY <1>3, <1>4, <2>1, RankedAlike
  <2>. QED BY <2>2, <2>3 DEF Tied
<1>. QED BY <1>6, <1>7

-----------------------------------------------------------------------------
(* Candidates that lead.                                                   *)

LEMMA BeforeOrders ==
  ASSUME NEW a \in Measures, NEW b \in Measures, NEW c \in Measures
  PROVE  /\ ~(Before(a, b) /\ Before(b, a))
         /\ (a # b => Before(a, b) \/ Before(b, a))
         /\ (Before(a, b) /\ Before(b, c) => Before(a, c))
         /\ (Before(a, b) /\ Leads(b) => Leads(a))
<1>1. \A m \in Measures : /\ m.label \in Int /\ m.improvement \in Int
                          /\ Magnitude(m.corr) \in Int /\ Leads(m) \in BOOLEAN
  <2>. SUFFICES ASSUME NEW m \in Measures
                PROVE  /\ m.label \in Int /\ m.improvement \in Int
                       /\ Magnitude(m.corr) \in Int /\ Leads(m) \in BOOLEAN
    OBVIOUS
  <2>1. m.label \in Int /\ m.corr \in Int /\ m.improvement \in Int
    BY RankingAssumption
  <2>. QED BY <2>1 DEF Magnitude, Leads
<1>2. a.label = b.label => a = b
  BY RankingAssumption
<1>3. ~(Before(a, b) /\ Before(b, a))
  BY <1>1 DEF Before
<1>4. a # b => Before(a, b) \/ Before(b, a)
  BY <1>1, <1>2 DEF Before
<1>5. Before(a, b) /\ Before(b, c) => Before(a, c)
  BY <1>1 DEF Before
<1>6. Before(a, b) /\ Leads(b) => Leads(a)
  BY <1>1 DEF Before
<1>. QED BY <1>3, <1>4, <1>5, <1>6

Sorted(out) == \A i, j \in 1..Len(out) : i < j => Before(out[i], out[j])

\* An insertion keeps the order and loses none.
LEMMA PlacedIs ==
  ASSUME NEW out \in Seq(Measures), Sorted(out), NEW m \in Measures,
         \A i \in 1..Len(out) : out[i] # m
  PROVE  /\ Placed(out, m) \in Seq(Measures) /\ Sorted(Placed(out, m))
         /\ Range(Placed(out, m)) = Range(out) \cup {m}
<1>. DEFINE n == Len(out)
            K == {i \in DOMAIN out : ~Before(m, out[i])}
            k == Cardinality(K)
            p == Placed(out, m)
<1>1. n \in Nat /\ DOMAIN out = 1..n /\ \A i \in 1..n : out[i] \in Measures
  OBVIOUS
<1>2. \A i \in 1..n : i \in K <=> Before(out[i], m)
  BY <1>1, BeforeOrders
<1>3. k \in 0..n /\ K = 1..k
  <2>1. K \in SUBSET (1..n)
    BY <1>1
  <2>2. ASSUME NEW i \in K, NEW j \in 1..n, j < i PROVE j \in K
    <3>1. i \in 1..n
      BY <2>1
    <3>. HIDE DEF K
    <3>2. Before(out[i], m) /\ Before(out[j], out[i])
      BY <1>2, <2>2, <3>1 DEF Sorted
    <3>3. Before(out[j], m)
      BY <1>1, <3>1, <3>2, BeforeOrders
    <3>. QED BY <1>2, <3>3
  <2>. HIDE DEF K, n
  <2>. QED BY <1>1, <2>1, <2>2, BeginningIs
<1>4. p = SubSeq(out, 1, k) \o <<m>> \o SubSeq(out, k + 1, n)
  BY DEF Placed
<1>. HIDE DEF k, K, n, p
<1>. DEFINE u == SubSeq(out, 1, k)
            v == SubSeq(out, k + 1, n)
<1>5. u \in Seq(Measures) /\ Len(u) = k /\ \A i \in 1..k : u[i] = out[i]
  BY <1>1, <1>3 DEF n
<1>6. v \in Seq(Measures) /\ Len(v) = n - k /\ \A i \in 1..n - k : v[i] = out[k + i]
  <2>1. k + 1 \in Int /\ n \in Int /\ \A i \in k + 1..n : out[i] \in Measures
    BY <1>1, <1>3
  <2>2. /\ v \in Seq(Measures)
        /\ Len(v) = (IF k + 1 <= n THEN n - (k + 1) + 1 ELSE 0)
        /\ \A i \in 1..n - (k + 1) + 1 : v[i] = out[(k + 1) + i - 1]
    BY <2>1, SubSeqProperties DEF v
  <2>3. \A i \in 1..n - k : i \in 1..n - (k + 1) + 1 /\ (k + 1) + i - 1 = k + i
    BY <1>1, <1>3
  <2>. QED BY <1>1, <1>3, <2>2, <2>3
<1>. HIDE DEF u, v
<1>7. /\ p \in Seq(Measures) /\ Len(p) = n + 1
      /\ \A i \in 1..k : p[i] = out[i]
      /\ p[k + 1] = m
      /\ \A i \in 1..n - k : p[k + 1 + i] = out[k + i]
  <2>. DEFINE w == u \o <<m>>
  <2>1. /\ w \in Seq(Measures) /\ Len(w) = k + 1
        /\ \A i \in 1..k : w[i] = out[i]
        /\ w[k + 1] = m
    BY <1>3, <1>5
  <2>. HIDE DEF w
  <2>2. p = w \o v
    BY <1>4 DEF w, u, v
  <2>3. p \in Seq(Measures) /\ Len(p) = n + 1
    <3>1. p \in Seq(Measures) /\ Len(p) = Len(w) + Len(v)
      BY <1>6, <2>1, <2>2, ConcatProperties
    <3>. QED BY <1>1, <1>3, <1>6, <2>1, <3>1
  <2>4. \A i \in 1..k + 1 : p[i] = w[i]
    BY <1>3, <1>6, <2>1, <2>2
  <2>5. \A i \in 1..n - k : p[k + 1 + i] = v[i]
    BY <1>1, <1>3, <1>6, <2>1, <2>2
  <2>. QED BY <1>3, <1>6, <2>1, <2>3, <2>4, <2>5
<1>8. \A i \in 1..n + 1 : /\ i <= k => p[i] = out[i] /\ i \in 1..n /\ i \in K
                          /\ i = k + 1 => p[i] = m
                          /\ i > k + 1 => p[i] = out[i - 1] /\ i - 1 \in 1..n /\ i - 1 \notin K
  <2>. SUFFICES ASSUME NEW i \in 1..n + 1
                PROVE  /\ i <= k => p[i] = out[i] /\ i \in 1..n /\ i \in K
                       /\ i = k + 1 => p[i] = m
                       /\ i > k + 1 => p[i] = out[i - 1] /\ i - 1 \in 1..n /\ i - 1 \notin K
    OBVIOUS
  <2>1. CASE i <= k
    BY <1>1, <1>3, <1>7, <2>1
  <2>2. CASE i = k + 1
    BY <1>1, <1>3, <1>7, <2>2
  <2>3. CASE i > k + 1
    <3>. DEFINE j == i - (k + 1)
    <3>1. j \in 1..n - k /\ k + 1 + j = i /\ k + j = i - 1
      BY <1>1, <1>3, <2>3
    <3>2. p[i] = out[i - 1]
      BY <1>7, <3>1
    <3>. QED BY <1>1, <1>3, <2>3, <3>2
  <2>. QED BY <1>1, <1>3, <2>1, <2>2, <2>3
<1>9. ASSUME NEW i \in 1..n + 1, NEW j \in 1..n + 1, i < j PROVE Before(p[i], p[j])
  <2>1. CASE j <= k
    <3>1. p[i] = out[i] /\ p[j] = out[j] /\ i \in 1..n /\ j \in 1..n
      BY <1>3, <1>8, <1>9, <2>1
    <3>. QED BY <1>9, <3>1 DEF Sorted, n
  <2>2. CASE j = k + 1
    <3>1. p[i] = out[i] /\ p[j] = m /\ i \in 1..n /\ i \in K
      BY <1>3, <1>8, <1>9, <2>2
    <3>. QED BY <1>2, <3>1
  <2>3. CASE j > k + 1
    <3>1. p[j] = out[j - 1] /\ j - 1 \in 1..n /\ j - 1 \notin K
      BY <1>3, <1>8, <1>9, <2>3
    <3>2. out[j - 1] # m /\ ~Before(out[j - 1], m)
      BY <1>2, <3>1 DEF n
    <3>3. Before(m, out[j - 1])
      BY <1>1, <3>1, <3>2, BeforeOrders
    <3>4. CASE i <= k
      <4>1. p[i] = out[i] /\ i \in 1..n /\ i < j - 1
        BY <1>3, <1>8, <2>3, <3>4
      <4>. QED BY <3>1, <4>1 DEF Sorted, n
    <3>5. CASE i = k + 1
      BY <1>8, <3>1, <3>3, <3>5
    <3>6. CASE i > k + 1
      <4>1. p[i] = out[i - 1] /\ i - 1 \in 1..n /\ i - 1 < j - 1
        BY <1>3, <1>8, <1>9, <3>6
      <4>. QED BY <3>1, <4>1 DEF Sorted, n
    <3>. QED BY <1>3, <3>4, <3>5, <3>6
  <2>. QED BY <1>3, <2>1, <2>2, <2>3
<1>10. Sorted(p)
  BY <1>7, <1>9 DEF Sorted
<1>11. Range(p) = Range(out) \cup {m}
  <2>1. DOMAIN p = 1..n + 1
    BY <1>7
  <2>2. \A i \in 1..n + 1 : p[i] \in Range(out) \cup {m}
    <3>. SUFFICES ASSUME NEW i \in 1..n + 1 PROVE p[i] \in Range(out) \cup {m}
      OBVIOUS
    <3>1. i <= k \/ i = k + 1 \/ i > k + 1
      BY <1>3
    <3>. QED BY <1>1, <1>8, <3>1 DEF Range
  <2>3. \A i \in 1..n : \E j \in 1..n + 1 : p[j] = out[i]
    <3>. SUFFICES ASSUME NEW i \in 1..n PROVE \E j \in 1..n + 1 : p[j] = out[i]
      OBVIOUS
    <3>1. CASE i <= k
      <4>1. i \in 1..n + 1
        BY <1>1
      <4>. QED BY <1>8, <3>1, <4>1
    <3>2. CASE i > k
      <4>1. i + 1 \in 1..n + 1 /\ i + 1 > k + 1 /\ (i + 1) - 1 = i
        BY <1>1, <1>3, <3>2
      <4>2. p[i + 1] = out[i]
        BY <1>8, <4>1
      <4>. QED BY <4>1, <4>2
    <3>. QED BY <1>3, <3>1, <3>2
  <2>4. k + 1 \in 1..n + 1 /\ p[k + 1] = m
    BY <1>1, <1>3, <1>7
  <2>. DEFINE A == Range(p)
              B == Range(out) \cup {m}
  <2>5. \A x \in A : x \in B
    BY <2>1, <2>2 DEF Range
  <2>6. \A x \in B : x \in A
    BY <1>1, <2>1, <2>3, <2>4 DEF Range
  <2>. HIDE DEF A, B
  <2>7. A = B
    BY <2>5, <2>6
  <2>. QED BY <2>7 DEF A, B
<1>. QED BY <1>7, <1>10, <1>11 DEF p

LEMMA PlacedTyped ==
  ASSUME NEW out \in Seq(Measures), NEW m \in Measures
  PROVE  Placed(out, m) \in Seq(Measures)
<1>. DEFINE K == {i \in DOMAIN out : ~Before(m, out[i])}
            k == Cardinality(K)
            n == Len(out)
<1>1. n \in Nat /\ DOMAIN out = 1..n /\ \A i \in 1..n : out[i] \in Measures
  OBVIOUS
<1>2. k \in 0..n
  <2>1. IsFiniteSet(1..n) /\ Cardinality(1..n) = n
    <3>. HIDE DEF n, K
    <3>. QED BY <1>1, FS_Interval
  <2>2. K \subseteq 1..n
    BY <1>1
  <2>. HIDE DEF K, n
  <2>3. IsFiniteSet(K) /\ Cardinality(K) <= n
    BY <2>1, <2>2, FS_Subset
  <2>4. k \in Nat
    BY <2>3, FS_CardinalityType
  <2>. QED BY <1>1, <2>3, <2>4
<1>3. Placed(out, m) = SubSeq(out, 1, k) \o <<m>> \o SubSeq(out, k + 1, n)
  BY DEF Placed
<1>. HIDE DEF k, K, n
<1>4. SubSeq(out, 1, k) \in Seq(Measures)
  <2>1. k \in Int /\ \A i \in 1..k : out[i] \in Measures
    BY <1>1, <1>2
  <2>. QED BY <2>1, SubSeqProperties
<1>5. SubSeq(out, k + 1, n) \in Seq(Measures)
  <2>1. k + 1 \in Int /\ n \in Int /\ \A i \in k + 1..n : out[i] \in Measures
    BY <1>1, <1>2
  <2>. QED BY <2>1, SubSeqProperties
<1>. QED BY <1>3, <1>4, <1>5

\* OrderByCausality takes in the candidates from the first to the last.
LEMMA OrderRun ==
  ASSUME NEW n \in Nat, NEW ms \in [1..n -> Measures]
  PROVE  \E h : /\ h[0] = <<>> /\ h[n] = OrderByCausality(ms)
                /\ \A k \in 0..n : h[k] \in Seq(Measures)
                /\ \A k \in 1..n : h[k] = Placed(h[k - 1], ms[k])
<1>. DEFINE A == Seq(Measures)
            g == [x \in A \X (1..n) |-> Placed(x[1], ms[x[2]])]
            F(f) == [s \in SUBSET DOMAIN ms |->
                       IF s = {} THEN <<>> ELSE Placed(f[s \ {Max(s)}], ms[Max(s)])]
<1>1. DOMAIN ms = 1..n /\ \A i \in 1..n : ms[i] \in Measures
  OBVIOUS
<1>2. \A a \in A, i \in 1..n : Placed(a, ms[i]) \in A /\ g[<<a, i>>] = Placed(a, ms[i])
  BY <1>1, PlacedTyped
<1>3. g \in [A \X (1..n) -> A] /\ <<>> \in A
  <2>1. \A x \in A \X (1..n) : Placed(x[1], ms[x[2]]) \in A
    BY <1>2
  <2>2. <<>> \in A
    OBVIOUS
  <2>. HIDE DEF A
  <2>. QED BY <2>1, <2>2
<1>. HIDE DEF g, A
<1>4. PICK it0 \in [SUBSET (1..n) -> A] : IsFold(it0, n, <<>>, g)
  BY <1>3, FoldExists
<1>5. \A s \in SUBSET (1..n) : s # {} => Max(s) \in 1..n /\ s \ {Max(s)} \in SUBSET (1..n)
  BY GreatestOf
<1>6. it0 = F(it0)
  <2>1. ASSUME NEW s \in SUBSET (1..n)
        PROVE  it0[s] = IF s = {} THEN <<>> ELSE Placed(it0[s \ {Max(s)}], ms[Max(s)])
    <3>1. it0[s] = IF s = {} THEN <<>> ELSE g[<<it0[s \ {Max(s)}], Max(s)>>]
      BY <1>4 DEF IsFold
    <3>2. s # {} => it0[s \ {Max(s)}] \in A /\ Max(s) \in 1..n
      BY <1>5
    <3>. QED BY <1>2, <3>1, <3>2
  <2>2. it0 = [s \in SUBSET (1..n) |-> it0[s]]
    OBVIOUS
  <2>. QED BY <1>1, <2>1, <2>2
<1>. DEFINE it == CHOOSE f : f = F(f)
<1>7. it = F(it)
  <2>. HIDE DEF F
  <2>. QED BY <1>6
<1>8. OrderByCausality(ms) = it[1..n]
  BY <1>1 DEF OrderByCausality, FoldLeft, MapThenFoldSet
<1>. HIDE DEF it
<1>9. Folding(it, n, A, <<>>, g)
  <2>1. \A s \in SUBSET (1..n) :
           it[s] = IF s = {} THEN <<>> ELSE Placed(it[s \ {Max(s)}], ms[Max(s)])
    BY <1>1, <1>7
  <2>. QED BY <1>2, <1>5, <2>1 DEF Folding
<1>. HIDE DEF F
<1>10. PICK h : h[n] = it[1..n] /\ Stepping(h, n, A, <<>>, g)
  BY <1>3, <1>9, FoldRuns
<1>11. ASSUME NEW k \in 1..n PROVE h[k] = Placed(h[k - 1], ms[k])
  <2>1. k - 1 \in 0..n
    OBVIOUS
  <2>. QED BY <1>2, <1>10, <2>1 DEF Stepping
<1>. QED BY <1>8, <1>10, <1>11 DEF Stepping, A

\* The candidates in order, each of them once.
LEMMA OrderIs ==
  ASSUME NEW n \in Nat, NEW ms \in [1..n -> Measures], IsInjective(ms)
  PROVE  /\ OrderByCausality(ms) \in Seq(Measures) /\ Sorted(OrderByCausality(ms))
         /\ Range(OrderByCausality(ms)) = Range(ms)
<1>1. PICK h : /\ h[0] = <<>> /\ h[n] = OrderByCausality(ms)
               /\ \A k \in 0..n : h[k] \in Seq(Measures)
               /\ \A k \in 1..n : h[k] = Placed(h[k - 1], ms[k])
  BY OrderRun
<1>. DEFINE First(k) == {ms[j] : j \in 1..k}
            T == {k \in 0..n : Sorted(h[k]) /\ Range(h[k]) = First(k)}
<1>2. 0 \in T
  <2>1. Len(<<>>) = 0 /\ Range(<<>>) = {} /\ First(0) = {}
    BY DEF Range
  <2>2. Sorted(<<>>)
    BY <2>1 DEF Sorted
  <2>. QED BY <1>1, <2>1, <2>2
<1>3. ASSUME NEW k \in 0..n - 1, k \in T PROVE k + 1 \in T
  <2>1. k + 1 \in 1..n /\ (k + 1) - 1 = k /\ k \in 0..n /\ k + 1 \in 0..n
    OBVIOUS
  <2>2. h[k] \in Seq(Measures) /\ h[k + 1] = Placed(h[k], ms[k + 1]) /\ ms[k + 1] \in Measures
    BY <1>1, <2>1
  <2>3. Sorted(h[k]) /\ Range(h[k]) = First(k)
    BY <1>3
  <2>4. ms[k + 1] \notin First(k)
    <3>1. \A j \in 1..k : j \in 1..n /\ j # k + 1
      BY <2>1
    <3>2. \A j \in 1..k : ms[j] # ms[k + 1]
      BY <2>1, <3>1 DEF IsInjective
    <3>. QED BY <3>2
  <2>5. \A i \in 1..Len(h[k]) : h[k][i] # ms[k + 1]
    <3>1. \A i \in 1..Len(h[k]) : h[k][i] \in Range(h[k])
      BY <2>2 DEF Range
    <3>. QED BY <2>3, <2>4, <3>1
  <2>6. Sorted(h[k + 1]) /\ Range(h[k + 1]) = Range(h[k]) \cup {ms[k + 1]}
    BY <2>2, <2>3, <2>5, PlacedIs
  <2>7. First(k + 1) = First(k) \cup {ms[k + 1]}
    <3>1. 1..k + 1 = (1..k) \cup {k + 1}
      BY <2>1
    <3>. QED BY <3>1
  <2>. HIDE DEF First
  <2>. QED BY <2>1, <2>3, <2>6, <2>7
<1>4. n \in T
  <2>. HIDE DEF T
  <2>1. \A k \in 0..n : k \in T
    BY <1>2, <1>3, StepByStep
  <2>. QED BY <2>1
<1>5. First(n) = Range(ms)
  BY DEF Range
<1>6. n \in 0..n
  OBVIOUS
<1>. QED BY <1>1, <1>4, <1>5, <1>6

LEMMA OrderSettled ==
  ASSUME NEW n \in Nat, NEW ms \in [1..n -> Measures], IsInjective(ms)
  PROVE  /\ OrderByCausality(Reverse(ms)) = OrderByCausality(ms)
         /\ \A i \in 1..Len(OrderByCausality(ms)) - 1 :
               Leads(OrderByCausality(ms)[i + 1]) => Leads(OrderByCausality(ms)[i])
<1>. DEFINE t == Reverse(ms)
            o == OrderByCausality(ms)
            q == OrderByCausality(t)
            S == Range(ms)
            R == {x \in S \X S : Before(x[1], x[2])}
<1>1. t \in [1..n -> Measures] /\ \A i \in 1..n : n + 1 - i \in 1..n /\ t[i] = ms[n + 1 - i]
  <2>1. Reverse(ms) \in [1..n -> Measures] /\ Turns(n, ms, Reverse(ms))
    BY ReverseIs
  <2>. QED BY <2>1 DEF Turns
<1>. HIDE DEF t
<1>2. IsInjective(t)
  <2>. SUFFICES ASSUME NEW i \in 1..n, NEW j \in 1..n, t[i] = t[j] PROVE i = j
    BY <1>1 DEF IsInjective
  <2>1. n + 1 - i \in DOMAIN ms /\ n + 1 - j \in DOMAIN ms /\ ms[n + 1 - i] = ms[n + 1 - j]
    BY <1>1
  <2>2. n + 1 - i = n + 1 - j
    BY <2>1 DEF IsInjective
  <2>. QED BY <2>2
<1>3. Range(t) = S
  <2>1. \A i \in 1..n : t[i] \in S
    BY <1>1 DEF Range
  <2>2. \A i \in 1..n : \E j \in 1..n : t[j] = ms[i]
    <3>. SUFFICES ASSUME NEW i \in 1..n PROVE \E j \in 1..n : t[j] = ms[i]
      OBVIOUS
    <3>1. n + 1 - i \in 1..n /\ n + 1 - (n + 1 - i) = i
      OBVIOUS
    <3>2. t[n + 1 - i] = ms[i]
      BY <1>1, <3>1
    <3>. QED BY <3>1, <3>2
  <2>3. \A x \in Range(t) : x \in S
    BY <1>1, <2>1 DEF Range
  <2>4. \A x \in S : x \in Range(t)
    BY <1>1, <2>2 DEF Range
  <2>. HIDE DEF S
  <2>. QED BY <2>3, <2>4
<1>4. o \in Seq(Measures) /\ Sorted(o) /\ Range(o) = S
  BY OrderIs
<1>5. q \in Seq(Measures) /\ Sorted(q) /\ Range(q) = S
  BY <1>1, <1>2, <1>3, OrderIs
<1>6. S \subseteq Measures
  BY DEF Range
<1>. HIDE DEF o, q, S
<1>7. Asymmetric(S, R)
  BY <1>6, BeforeOrders DEF Asymmetric
<1>8. ASSUME NEW s \in Seq(Measures), Sorted(s), Range(s) = S PROVE ListedBy(s, Len(s), S, R) /\ Len(s) \in Nat
  <2>1. Len(s) \in Nat /\ DOMAIN s = 1..Len(s) /\ s \in [1..Len(s) -> Measures]
    OBVIOUS
  <2>2. \A i \in 1..Len(s) : s[i] \in S
    BY <1>8, <2>1 DEF Range
  <2>3. \A i, j \in 1..Len(s) : i < j => <<s[i], s[j]>> \in R
    BY <1>8, <2>2 DEF Sorted
  <2>4. \A i, j \in 1..Len(s) : s[i] = s[j] => i = j
    <3>. SUFFICES ASSUME NEW i \in 1..Len(s), NEW j \in 1..Len(s), i < j, s[i] = s[j] PROVE FALSE
      BY <2>1
    <3>1. Before(s[i], s[j]) /\ s[i] \in Measures
      BY <1>8, <2>1 DEF Sorted
    <3>. QED BY <3>1, BeforeOrders
  <2>5. \A x \in S : \E i \in 1..Len(s) : s[i] = x
    BY <1>8, <2>1 DEF Range
  <2>. HIDE DEF R
  <2>. DEFINE T == 1..Len(s)
  <2>6. s \in [T -> S] /\ DOMAIN s = T
    BY <2>1, <2>2
  <2>7. IsInjective(s)
    BY <2>1, <2>4 DEF IsInjective
  <2>8. s \in Bijection(T, S)
    <3>1. \A x \in S : \E i \in T : s[i] = x
      BY <2>5
    <3>. HIDE DEF T
    <3>. QED BY <2>6, <2>7, <3>1 DEF Bijection, Injection, Surjection
  <2>. QED BY <2>1, <2>3, <2>8 DEF ListedBy
<1>9. q = o
  <2>1. ListedBy(q, Len(q), S, R) /\ ListedBy(o, Len(o), S, R) /\ Len(q) \in Nat /\ Len(o) \in Nat
    BY <1>4, <1>5, <1>8
  <2>. HIDE DEF R
  <2>. QED BY <1>7, <2>1, SortedOnce
<1>10. ASSUME NEW i \in 1..Len(o) - 1, Leads(o[i + 1]) PROVE Leads(o[i])
  <2>1. i \in 1..Len(o) /\ i + 1 \in 1..Len(o) /\ i < i + 1
    BY <1>4
  <2>2. Before(o[i], o[i + 1]) /\ o[i] \in Measures /\ o[i + 1] \in Measures
    BY <1>4, <2>1 DEF Sorted
  <2>. QED BY <1>10, <2>2, BeforeOrders
<1>. QED BY <1>9, <1>10 DEF o, q, t

-----------------------------------------------------------------------------
(* The rankings.                                                           *)

Reasoned(m) == m \in Weights /\ \A i \in Coords : Directions[i] * m.w[i] >= 0
MeasureLists == {ms \in UNION {[1..n -> Measures] : n \in Nat} : IsInjective(ms)}

\* Each ranking is what its function returns for its input.
RankInv ==
    \/ ranking = [kind |-> "none"]
    \/ ranking = [kind |-> "model", m |-> ranking.m] /\ Reasoned(ranking.m)
    \/ /\ ranking = [kind |-> "cut", examples |-> ranking.examples, rate |-> ranking.rate,
                     best |-> BestBar(ranking.examples, ranking.rate)]
       /\ ranking.examples \in Examples
    \/ /\ ranking = [kind |-> "influencers", records |-> ranking.records, out |-> ranking.out]
       /\ ranking.records \in RecordLists /\ ranking.out \in Influencers(ranking.records)
    \/ /\ ranking = [kind |-> "lead", measures |-> ranking.measures,
                     out |-> OrderByCausality(ranking.measures)]
       /\ ranking.measures \in MeasureLists

LEMMA RankKeeps == RankInv /\ [RankingNext]_rankingVars => RankInv'
<1>. SUFFICES ASSUME RankInv, [RankingNext]_rankingVars PROVE RankInv'
  OBVIOUS
<1>1. CASE NewModel
  <2>. DEFINE m == [w |-> [i \in Coords |-> 0], b |-> 0, seen |-> 0]
  <2>1. \A i \in Coords : Directions[i] \in Int
    BY RankingAssumption DEF Coords
  <2>2. Reasoned(m)
    BY <2>1 DEF Reasoned, Weights
  <2>3. ranking' = [kind |-> "model", m |-> m]
    BY <1>1 DEF NewModel
  <2>. HIDE DEF m
  <2>. QED BY <2>2, <2>3 DEF RankInv
<1>2. ASSUME NEW f \in Features, NEW real \in BOOLEAN, NEW size \in Errors, NEW decay \in 0..1,
             Learn(f, real, size, decay)
      PROVE  RankInv'
  <2>. DEFINE err == IF real THEN -size ELSE size
              m == Descent(ranking.m, f, err, decay)
  <2>1. err \in Int
    BY RankingAssumption
  <2>2. ranking.kind = "model" /\ ranking' = [ranking EXCEPT !.m = m]
    BY <1>2 DEF Learn
  <2>. HIDE DEF err
  <2>3. ranking = [kind |-> "model", m |-> ranking.m] /\ Reasoned(ranking.m)
    BY <2>2 DEF RankInv
  <2>4. Reasoned(m)
    BY <2>1, <2>3, LearnKeeps DEF Reasoned
  <2>. HIDE DEF m
  <2>5. ranking' = [kind |-> "model", m |-> m]
    BY <2>2, <2>3
  <2>. QED BY <2>4, <2>5 DEF RankInv
<1>3. ASSUME NEW n \in Coords, LoadModel(n) PROVE RankInv'
  <2>1. /\ ranking.kind = "model"
        /\ ranking' = [ranking EXCEPT !.m = [ranking.m EXCEPT !.w = Resized(ranking.m.w, n)]]
    BY <1>3 DEF LoadModel
  <2>2. ranking = [kind |-> "model", m |-> ranking.m] /\ Reasoned(ranking.m)
    BY <2>1 DEF RankInv
  <2>. DEFINE m == [ranking.m EXCEPT !.w = Resized(ranking.m.w, n)]
  <2>3. n \in Nat /\ \A i \in Coords : i \in Nat /\ Directions[i] \in Int
    BY CoordsFinite, RankingAssumption DEF Coords
  <2>4. \A i \in Coords : Resized(ranking.m.w, n)[i] = IF i <= n THEN ranking.m.w[i] ELSE 0
    BY DEF Resized
  <2>5. Resized(ranking.m.w, n) \in [Coords -> Int]
    BY <2>2, <2>3 DEF Resized, Reasoned, Weights
  <2>6. m \in Weights /\ m.w = Resized(ranking.m.w, n)
    BY <2>2, <2>5 DEF Reasoned, Weights
  <2>7. Reasoned(m)
    BY <2>2, <2>3, <2>4, <2>6 DEF Reasoned
  <2>8. ranking' = [kind |-> "model", m |-> m]
    BY <2>1, <2>2
  <2>. HIDE DEF m
  <2>. QED BY <2>7, <2>8 DEF RankInv
<1>4. ASSUME NEW ex \in Examples, NEW rate \in Rates, Calibrate(ex, rate) PROVE RankInv'
  BY <1>4 DEF Calibrate, RankInv
<1>5. ASSUME NEW rs \in UNION {[1..n -> InfRecords] : n \in 1..3}, Rank(rs) PROVE RankInv'
  <2>1. PICK out \in Influencers(rs) :
           ranking' = [kind |-> "influencers", records |-> rs, out |-> out]
    BY <1>5 DEF Rank
  <2>2. rs \in RecordLists
    <3>1. PICK n \in 1..3 : rs \in [1..n -> InfRecords]
      OBVIOUS
    <3>. QED BY <3>1 DEF RecordLists
  <2>. QED BY <2>1, <2>2 DEF RankInv
<1>6. ASSUME NEW ms \in UNION {[1..n -> Measures] : n \in 1..3}, IsInjective(ms), Order(ms)
      PROVE  RankInv'
  <2>1. ms \in MeasureLists
    <3>1. PICK n \in 1..3 : ms \in [1..n -> Measures]
      OBVIOUS
    <3>. QED BY <1>6, <3>1 DEF MeasureLists
  <2>. QED BY <1>6, <2>1 DEF RankInv, Order
<1>7. CASE UNCHANGED rankingVars
  BY <1>7 DEF RankInv, rankingVars
<1>. QED BY <1>1, <1>2, <1>3, <1>4, <1>5, <1>6, <1>7 DEF RankingNext

LEMMA RankTells == RankInv => RankerSound /\ RankingsSettled
<1>. SUFFICES ASSUME RankInv PROVE RankerSound /\ RankingsSettled
  OBVIOUS
<1>1. ASSUME ranking.kind = "model", NEW f \in Features, NEW i \in Coords, NEW v \in FeatureValues,
             f[i] # Unknown, v > f[i]
      PROVE  Directions[i] * (Logit(ranking.m, [f EXCEPT ![i] = v]) - Logit(ranking.m, f)) >= 0
  <2>1. ranking.m \in Weights /\ \A j \in Coords : Directions[j] * ranking.m.w[j] >= 0
    BY <1>1 DEF RankInv, Reasoned
  <2>. DEFINE m == ranking.m
  <2>2. m \in Weights /\ \A j \in Coords : Directions[j] * m.w[j] >= 0
    BY <2>1
  <2>. HIDE DEF m
  <2>3. Directions[i] * (Logit(m, [f EXCEPT ![i] = v]) - Logit(m, f)) >= 0
    BY <1>1, <2>2, RaisedTells
  <2>. QED BY <2>3 DEF m
<1>2. ASSUME ranking.kind = "cut"
      PROVE  LET ex == ranking.examples  rate == ranking.rate
                 honest(cut) == Honest(ex, rate, cut)
                 cuts == {ex[i].score : i \in DOMAIN ex} IN
             IF ranking.best = NoCut THEN \A c \in cuts : ~honest(c)
             ELSE /\ honest(ranking.best.cut)
                  /\ \A c \in cuts : honest(c) =>
                        Cardinality(Kept(ex, c)) <= Cardinality(Kept(ex, ranking.best.cut))
  <2>. DEFINE ex == ranking.examples
              rate == ranking.rate
  <2>1. ranking.best = BestBar(ex, rate) /\ ex \in Examples
    BY <1>2 DEF RankInv
  <2>2. PICK n \in Nat : ScoredExamples(ex, n)
    <3>1. PICK n \in 1..MaxExamples + 1 : ex \in [1..n -> [score : FeatureValues, real : BOOLEAN]]
      BY <2>1 DEF Examples
    <3>2. n \in Nat /\ FeatureValues \subseteq Int
      BY RankingAssumption
    <3>. QED BY <3>1, <3>2 DEF ScoredExamples
  <2>. HIDE DEF ex, rate
  <2>3. IF BestBar(ex, rate) = NoCut THEN \A i \in 1..n : ~Honest(ex, rate, ex[i].score)
        ELSE /\ Honest(ex, rate, BestBar(ex, rate).cut)
             /\ \A i \in 1..n : Honest(ex, rate, ex[i].score) =>
                   Cardinality(Kept(ex, ex[i].score))
                      <= Cardinality(Kept(ex, BestBar(ex, rate).cut))
    BY <2>2, BestBarTells
  <2>4. DOMAIN ex = 1..n
    BY <2>2 DEF ScoredExamples
  <2>5. IF ranking.best = NoCut THEN \A i \in DOMAIN ex : ~Honest(ex, rate, ex[i].score)
        ELSE /\ Honest(ex, rate, ranking.best.cut)
             /\ \A i \in DOMAIN ex : Honest(ex, rate, ex[i].score) =>
                   Cardinality(Kept(ex, ex[i].score)) <= Cardinality(Kept(ex, ranking.best.cut))
    BY <2>1, <2>3, <2>4
  <2>. QED BY <2>5 DEF ex, rate
<1>3. RankerSound
  BY <1>1, <1>2 DEF RankerSound
<1>4. ASSUME ranking.kind = "influencers"
      PROVE  /\ ranking.out \in Influencers(Reverse(ranking.records))
             /\ \A out \in Influencers(Reverse(ranking.records)), i \in DOMAIN ranking.out :
                   Tied(out[i], ranking.out[i])
  <2>1. ranking.records \in RecordLists /\ ranking.out \in Influencers(ranking.records)
    BY <1>4 DEF RankInv
  <2>2. PICK n \in Nat : ranking.records \in [1..n -> InfRecords]
    BY <2>1 DEF RecordLists
  <2>. QED BY <2>1, <2>2, InfluencersSettled
<1>5. ASSUME ranking.kind = "lead"
      PROVE  /\ OrderByCausality(Reverse(ranking.measures)) = ranking.out
             /\ \A i \in 1..Len(ranking.out) - 1 : Leads(ranking.out[i + 1]) => Leads(ranking.out[i])
  <2>1. ranking.measures \in MeasureLists /\ ranking.out = OrderByCausality(ranking.measures)
    BY <1>5 DEF RankInv
  <2>2. PICK n \in Nat : ranking.measures \in [1..n -> Measures]
    BY <2>1 DEF MeasureLists
  <2>3. IsInjective(ranking.measures)
    BY <2>1 DEF MeasureLists
  <2>. QED BY <2>1, <2>2, <2>3, OrderSettled
<1>6. RankingsSettled
  BY <1>4, <1>5 DEF RankingsSettled
<1>. QED BY <1>3, <1>6

-----------------------------------------------------------------------------
(* The components together.                                                *)

\* A step of the composition is a step of a component, or leaves it alone.
LEMMA AnalysisSteps ==
  [AnalysisNext]_analysisVars =>
    /\ part' = part
    /\ [SpecNext]_specVars /\ [BaselineNext]_baseVars /\ [SeasonNext]_seasonVars
    /\ [EmissionNext]_emissionVars /\ [AlarmNext]_alarmVars /\ [PipeNext]_pipeVars
    /\ [RankingNext]_rankingVars
BY DEF AnalysisNext, analysisVars, specVars, baseVars, seasonVars, emissionVars, alarmVars, pipeVars,
       rankingVars

\* A window of a calendar recurs to the second for as long as anyone asks; and of
\* the detectors that are accepted, those with an unknown function and rates over a
\* population never score, all others every bucket with points on the temporal and
\* the population path (jobspec: Covers, Validate; detect: Aggregate).
THEOREM JobsCorrect == AnalysisSpec => []JobsStand
<1>1. AnalysisInit => SpecInv
  BY SpecStarts DEF AnalysisInit
<1>2. SpecInv /\ [AnalysisNext]_analysisVars => SpecInv'
  BY AnalysisSteps, SpecKeeps
<1>3. SpecInv => JobsStand
  BY SpecTells DEF JobsStand
<1>. QED BY <1>1, <1>2, <1>3, PTL DEF AnalysisSpec

\* Regions over a threshold are maximal, a solved threshold keeps its budget, and
\* what Push and Scan report is inside the window, new, and as long as asked
\* (guard: Candidates, SolveThreshold, WithBudget; pipeline: Push, Scan, evaluate).
THEOREM AlarmsCorrect == AnalysisSpec => []AlarmsStand
<1>. DEFINE Inv == AlarmInv /\ WindowInv /\ PipeInv
<1>1. AnalysisInit => Inv
  BY DEF AnalysisInit, AlarmInit, PipeInit, AlarmInv, WindowInv, PipeInv, None
<1>2. Inv /\ [AnalysisNext]_analysisVars => Inv'
  BY AnalysisSteps, AlarmKeeps, WindowKeeps, PipeKeeps
<1>3. Inv => AlarmsStand
  BY WindowTells, ReportsTold DEF AlarmsStand
<1>. HIDE DEF Inv
<1>. QED BY <1>1, <1>2, <1>3, PTL DEF AnalysisSpec

\* Whatever the labels taught, a feature that speaks for an alarm never lowers its
\* score; the calibrated cut honours the false rate and no cut that does keeps
\* more; and no ranking depends on the order a map is read in, but for the places
\* of names that are spelled alike (rank: Learn, project, Threshold; correlate:
\* RankInfluencers, OrderByCausality).
THEOREM RankingsCorrect == AnalysisSpec => []RankingsTell
<1>1. AnalysisInit => RankInv
  BY DEF AnalysisInit, RankingInit, RankInv
<1>2. RankInv /\ [AnalysisNext]_analysisVars => RankInv'
  BY AnalysisSteps, RankKeeps
<1>3. RankInv => RankingsTell
  BY RankTells DEF RankingsTell
<1>. QED BY <1>1, <1>2, <1>3, PTL DEF AnalysisSpec

\* A baseline adapts to a lasting change and to nothing less, scores nothing
\* before it has a history, takes what falls on a side it does not watch for no
\* deviation, and with a warm-up goes on after a restart as before; every value
\* reaches the model of its season once, whatever periods come and go
\* (detect: baselineModel.Observe, seasonal.Observe, State, FromState).
THEOREM BaselinesCorrect == AnalysisSpec => []BaselinesTell
<1>1. AnalysisInit => BaseInv /\ SeasonInv
  BY BaseStarts, SeasonStarts DEF AnalysisInit
<1>2. BaseInv /\ SeasonInv /\ [AnalysisNext]_analysisVars => (BaseInv /\ SeasonInv)'
  BY AnalysisSteps, BaseKeeps, SeasonKeeps
<1>3. BaseInv /\ SeasonInv => BaselinesTell
  BY BaseAdapts, BaseScores, SeasonTells DEF BaselinesTell
<1>. QED BY <1>1, <1>2, <1>3, PTL DEF AnalysisSpec

\* Whatever a user reports as a false positive and takes back, the engine
\* learns what an engine without reports learns, and of that engine's records
\* exactly those below the penalised bar are missing; and reading a bucket
\* before it closes teaches nothing (engine: emit, scoreBucket, Interim,
\* observeThreshold, MarkFalsePositive, ClearFeedback).
THEOREM LearningCorrect == AnalysisSpec => []LearningUndisturbed
<1>1. AnalysisInit => LearningInv
  BY LearningInit DEF AnalysisInit
<1>2. LearningInv /\ [AnalysisNext]_analysisVars => LearningInv'
  BY AnalysisSteps, LearningStep
<1>3. LearningInv => LearningUndisturbed
  BY LearningTold DEF LearningUndisturbed
<1>. QED BY <1>1, <1>2, <1>3, PTL DEF AnalysisSpec

\* No rare value is missed, whatever the models say: a value seen in few of the
\* buckets so far is reported once the warm-up is over, whatever the table of
\* seen values had to drop, and never with too high a count; detectors that
\* share a table count a bucket once each, and the last of them reports it
\* (engine: scoreRare, evictCommon).
THEOREM RareCorrect == AnalysisSpec => []RareNeverMissed
<1>1. AnalysisInit => LearningInv /\ RareInv
  <2>1. AnalysisInit => LearningInv
    BY LearningInit DEF AnalysisInit
  <2>2. AnalysisInit => RareInv
    BY DEF AnalysisInit, EmissionInit, RareInv
  <2>. QED BY <2>1, <2>2
<1>2. LearningInv /\ RareInv /\ [AnalysisNext]_analysisVars => LearningInv' /\ RareInv'
  BY AnalysisSteps, LearningStep, RareStep
<1>3. LearningInv /\ RareInv => RareNeverMissed
  BY RareReported
<1>. QED BY <1>1, <1>2, <1>3, PTL DEF AnalysisSpec

-----------------------------------------------------------------------------
(* The watch loop: the shape of the state.                                 *)

\* With no grace period only the bucket of the watermark is open, and what a
\* call returns carries its number.
EngineInv ==
  /\ \A t \in BucketTimes : pending[t] # {} => hasMark /\ t = watermark
  /\ \A r \in results : r.call <= calls

DiskInv ==
  /\ disk = [hasMark |-> disk.hasMark, watermark |-> disk.watermark, learned |-> disk.learned]
  /\ disk.hasMark \in BOOLEAN /\ disk.watermark \in BucketTimes
  /\ disk.hasMark => hasMark /\ disk.watermark <= watermark

\* What was fetched has arrived at the source.
SourceInv ==
  /\ \A p \in todo : p.time <= now /\ world[p.time] > 0
  /\ \A t \in taken : t \in BucketTimes /\ t <= now /\ world[t] > 0
  /\ taken # {} => Series # {}

ShapeInv == TypeOK /\ EngineInv /\ DiskInv /\ SourceInv

\* Models know only buckets before their watermark, each once.
Learns(L, marked, mark) ==
  /\ \A r, s \in L : r.time = s.time => r = s
  /\ \A r \in L : marked /\ r.time < mark

LearnInv ==
  /\ Learns(learned, hasMark, watermark)
  /\ Learns(disk.learned, disk.hasMark, disk.watermark)

OfferInv ==
  /\ \A r \in learned : r.time \in offered \cup found
  /\ phase \in {"idle", "push", "save"} => found = {}
  /\ OfferedBeforeSaved

\* A bucket is in the models, or held.
KeptBucket(t) == t \in LearnedTimes \/ pending[t] # {}

\* The models know all that was taken up to the watermark, the engine's or the
\* file's; what a tick has still to push, and what no tick is to push again.
PastLearned == \A t \in taken : hasMark /\ t < watermark => t \in LearnedTimes

PastSaved ==
  \A t \in taken : disk.hasMark /\ t < disk.watermark =>
    t \in {r.time : r \in disk.learned}

StillToPush ==
  phase \in {"push", "fresh"} =>
    \A t \in taken : KeptBucket(t) \/ \E p \in todo : p.time = t /\ ~Seen(p)

AllKept ==
  phase \in {"notify", "save"} \/ (phase = "idle" /\ lastSeen # Never) =>
    \A t \in taken : KeptBucket(t)

LostInv == ~missed => PastLearned /\ PastSaved /\ StillToPush /\ AllKept

-----------------------------------------------------------------------------
(* What a push does to the engine, whose open bucket is the watermark's.   *)

LEMMA Period ==
  /\ IsFiniteSet(BucketTimes) /\ Cardinality(BucketTimes) \in Nat \ {0}
  /\ 0 \in BucketTimes
  /\ \A t \in BucketTimes : t \in Nat /\ 0..t \subseteq BucketTimes
<1>1. PICK end \in Nat : BucketTimes = 0..end
  BY PeriodAssumption
<1>2. IsFiniteSet(BucketTimes) /\ Cardinality(BucketTimes) = end + 1
  BY <1>1, FS_Interval
<1>. QED BY <1>1, <1>2

\* The bucket due, and those that are filled in after it.
ClosedBy(bt) ==
  IF pending[watermark] = {} THEN {}
  ELSE Engine!FillGaps(watermark, bt - 1)

LEMMA ClosedRange ==
  ASSUME TypeOK, NEW bt \in BucketTimes, watermark < bt
  PROVE  /\ \A t \in ClosedBy(bt) : t \in Nat /\ watermark <= t /\ t < bt
         /\ pending[watermark] # {} => watermark \in ClosedBy(bt)
<1>1. watermark \in Nat /\ bt \in Nat
  BY Period DEF TypeOK, Engine!TypeOK
<1>2. \A t \in Engine!FillGaps(watermark, bt - 1) : t \in Nat /\ watermark <= t /\ t < bt
  BY <1>1 DEF Engine!FillGaps, Engine!Steps
<1>3. watermark \in Engine!FillGaps(watermark, bt - 1)
  BY <1>1 DEF Engine!FillGaps, Engine!Steps
<1>. QED BY <1>2, <1>3 DEF ClosedBy

LEMMA PushIs ==
  ASSUME TypeOK, EngineInv, NEW bt \in BucketTimes, Engine!Push(bt)
  PROVE  /\ calls' = calls + 1 /\ calls < MaxCalls
         /\ arrived' = [arrived EXCEPT ![calls + 1] = bt] /\ flushedAt' = flushedAt
         /\ \/ /\ hasMark /\ bt < watermark /\ pending[bt] = {}
               /\ UNCHANGED <<pending, watermark, hasMark, results>>
               /\ stats' = [stats EXCEPT !.dropped = @ + 1]
            \/ /\ hasMark => bt = watermark
               /\ watermark' = bt /\ hasMark' = TRUE /\ results' = results
               /\ stats' = stats
               /\ pending' = [pending EXCEPT ![bt] = @ \cup {calls + 1}]
            \/ /\ hasMark /\ watermark < bt /\ watermark' = bt /\ hasMark' = hasMark
               /\ results' = results \cup
                    {[time |-> t, pts |-> Engine!HeldIn(t), call |-> calls + 1] :
                       t \in ClosedBy(bt)}
               /\ stats' = Engine!CloseStats({t \in Engine!Open : t < bt}, {bt - 1})
               /\ pending' = [[t \in BucketTimes |-> IF t \in ClosedBy(bt) THEN {} ELSE pending[t]]
                                EXCEPT ![bt] = @ \cup {calls + 1}]
<1>1. /\ watermark \in BucketTimes /\ hasMark \in BOOLEAN /\ watermark \in Nat /\ bt \in Nat
      /\ \A t \in BucketTimes : t \in Nat
  BY Period DEF TypeOK, Engine!TypeOK
<1>2. Engine!Open = {t \in BucketTimes : pending[t] # {}}
  BY DEF Engine!Open
<1>3. CASE Engine!DropLate(bt)
  BY <1>1, <1>2, <1>3 DEF Engine!DropLate, Engine!Arrive, Engine!Mark
<1>4. CASE Engine!Join(bt)
  <2>1. hasMark => bt = watermark
    BY <1>1, <1>2, <1>4 DEF Engine!Join, Engine!Mark, EngineInv
  <2>2. Engine!Mark(bt) = bt /\ ~(bt < bt)
    BY <1>1, <2>1 DEF Engine!Mark
  <2>. QED BY <1>4, <2>1, <2>2 DEF Engine!Join, Engine!Arrive
<1>5. CASE Engine!Advance(bt)
  <2>. DEFINE due   == {t \in Engine!Open : t < bt - 0}
              times == Engine!Closing(due, {bt - 0 - 1})
  <2>1. /\ Engine!Arrive(bt) /\ bt > Engine!Mark(bt) /\ watermark' = bt /\ hasMark' = hasMark
        /\ results' = Engine!Return(times, calls + 1)
        /\ stats' = Engine!CloseStats(due, {bt - 0 - 1})
        /\ pending' = [Engine!Forget(times) EXCEPT ![bt] = @ \cup {calls + 1}]
    BY <1>5 DEF Engine!Advance, Engine!AdvanceWith
  <2>2. hasMark /\ watermark < bt
    BY <1>1, <2>1 DEF Engine!Mark
  <2>3. due = {t \in Engine!Open : t < bt} /\ {bt - 0 - 1} = {bt - 1}
    BY <1>1
  <2>4. times = ClosedBy(bt)
    <3>1. CASE pending[watermark] = {}
      <4>1. due = {}
        BY <1>2, <3>1 DEF EngineInv
      <4>. QED BY <3>1, <4>1 DEF Engine!Closing, ClosedBy
    <3>2. CASE pending[watermark] # {}
      <4>1. Engine!Open = {watermark}
        <5>1. \A t \in BucketTimes : pending[t] # {} => t = watermark
          BY DEF EngineInv
        <5>. HIDE DEF due, times
        <5>. QED BY <1>1, <1>2, <3>2, <5>1, Zenon
      <4>2. watermark < bt - 0
        BY <1>1, <2>2
      <4>3. due = {watermark}
        BY <4>1, <4>2
      <4>4. Engine!Min({watermark}) = watermark
        BY DEF Engine!Min
      <4>5. Engine!LastTime({watermark}, {bt - 0 - 1}) = bt - 1
        BY <1>1, <2>2 DEF Engine!LastTime, Engine!Max
      <4>. QED BY <3>2, <4>3, <4>4, <4>5 DEF Engine!Closing, ClosedBy
    <3>. QED BY <3>1, <3>2
  <2>. HIDE DEF due, times
  <2>. QED BY <2>1, <2>2, <2>3, <2>4 DEF Engine!Return, Engine!Forget, Engine!Arrive
<1>. QED BY <1>3, <1>4, <1>5 DEF Engine!Push

\* The instance counts as this module does.
LEMMA SameCardinality == \A S : Engine!Cardinality(S) = Cardinality(S)
BY DEF Engine!Cardinality, Cardinality

LEMMA CloseStatsType ==
  ASSUME TypeOK, EngineInv, NEW bt \in BucketTimes, watermark < bt
  PROVE  /\ Engine!CloseStats({t \in Engine!Open : t < bt}, {bt - 1}) \in Engine!StatsType
         /\ Engine!CloseStats({t \in Engine!Open : t < bt}, {bt - 1}).dropped = stats.dropped
<1>. DEFINE due == {t \in Engine!Open : t < bt}
<1>1. watermark \in BucketTimes /\ watermark \in Nat /\ bt \in Nat /\ stats \in Engine!StatsType
  BY Period DEF TypeOK, Engine!TypeOK
<1>2. CASE due = {}
  BY <1>1, <1>2 DEF Engine!CloseStats, Engine!StatsType
<1>3. CASE due # {}
  <2>. DEFINE end == bt - 1
              run == Engine!RunLength(watermark, end)
  <2>1. due = {watermark}
    BY <1>3 DEF EngineInv, Engine!Open
  <2>2. Engine!Min({watermark}) = watermark
    BY DEF Engine!Min
  <2>3. Engine!LastTime({watermark}, {bt - 1}) = end
    BY <1>1 DEF Engine!LastTime, Engine!Max
  <2>4. end \in Int /\ run \in Int
    BY <1>1 DEF Engine!RunLength
  <2>5. CASE Engine!TooLong(watermark, end)
    <3>1. run - 2 \in Nat
      BY <2>4, <2>5, Period DEF Engine!TooLong
    <3>2. stats.skipped + run - 2 \in Nat
      BY <1>1, <2>4, <3>1 DEF Engine!StatsType
    <3>3. Engine!CloseStats(due, {bt - 1}) = [stats EXCEPT !.skipped = @ + run - 2]
      BY <2>1, <2>2, <2>3, <2>5 DEF Engine!CloseStats
    <3>. HIDE DEF run, due
    <3>4. Engine!CloseStats(due, {bt - 1}) \in Engine!StatsType
      BY <1>1, <3>2, <3>3 DEF Engine!StatsType
    <3>5. Engine!CloseStats(due, {bt - 1}).dropped = stats.dropped
      BY <1>1, <3>3 DEF Engine!StatsType
    <3>. QED BY <3>4, <3>5 DEF due
  <2>6. CASE ~Engine!TooLong(watermark, end)
    <3>. DEFINE empty == Cardinality(Engine!Steps(watermark, end) \ Engine!Open)
    <3>1. empty \in Nat
      <4>1. IsFiniteSet(watermark..end)
        BY <1>1, <2>4, FS_Interval
      <4>2. Engine!Steps(watermark, end) \ Engine!Open \subseteq watermark..end
        BY DEF Engine!Steps
      <4>3. IsFiniteSet(Engine!Steps(watermark, end) \ Engine!Open)
        BY <4>1, <4>2, FS_Subset
      <4>. QED BY <4>3, FS_CardinalityType
    <3>2. Engine!CloseStats(due, {bt - 1}) = [stats EXCEPT !.filled = @ + empty]
      <4>1. Engine!CloseStats({watermark}, {bt - 1}) = [stats EXCEPT !.filled = @ + empty]
        BY <2>2, <2>3, <2>6, SameCardinality DEF Engine!CloseStats
      <4>. QED BY <2>1, <4>1
    <3>. HIDE DEF empty, due
    <3>3. Engine!CloseStats(due, {bt - 1}) \in Engine!StatsType
      BY <1>1, <3>1, <3>2 DEF Engine!StatsType
    <3>4. Engine!CloseStats(due, {bt - 1}).dropped = stats.dropped
      BY <1>1, <3>2 DEF Engine!StatsType
    <3>. QED BY <3>3, <3>4 DEF due
  <2>. QED BY <2>5, <2>6
<1>. QED BY <1>2, <1>3

\* What a push leaves: what it drops was late; what it takes is held, at the
\* watermark; what it returns is new, of different buckets from the old watermark
\* to the new one, and holds what was pending.
LEMMA PushMoves ==
  ASSUME TypeOK, EngineInv, NEW bt \in BucketTimes, Engine!Push(bt)
  PROVE  /\ Engine!TypeOK' /\ EngineInv'
         /\ results \subseteq results'
         /\ hasMark => watermark <= watermark'
         /\ hasMark'
         /\ \/ /\ stats'.dropped > stats.dropped
               /\ hasMark /\ bt < watermark /\ UNCHANGED <<pending, watermark>>
               /\ results' = results
            \/ /\ stats'.dropped = stats.dropped
               /\ hasMark => watermark <= bt
               /\ watermark' = bt /\ pending'[bt] # {}
         /\ \A r \in results' \ results :
              /\ hasMark /\ watermark <= r.time /\ r.time < watermark'
              /\ r.time \in BucketTimes
         /\ \A r, s \in results' \ results : r.time = s.time => r = s
         /\ \A t \in BucketTimes : pending[t] # {} =>
              pending'[t] # {} \/ \E r \in results' \ results : r.time = t
<1>1. /\ watermark \in BucketTimes /\ hasMark \in BOOLEAN /\ stats \in Engine!StatsType
      /\ pending \in [BucketTimes -> SUBSET (1..MaxCalls)] /\ calls \in 0..MaxCalls
      /\ arrived \in [1..MaxCalls -> BucketTimes \cup {Engine!NoPoint}]
      /\ results \subseteq Engine!ResultType /\ flushedAt \subseteq BucketTimes
  BY DEF TypeOK, Engine!TypeOK
<1>2. \A t \in BucketTimes : t \in Nat
  BY Period
<1>3. MaxCalls \in Nat /\ calls \in Nat
  BY <1>1, BoundsAssumption
<1>4. /\ calls' = calls + 1 /\ calls < MaxCalls
      /\ arrived' = [arrived EXCEPT ![calls + 1] = bt] /\ flushedAt' = flushedAt
  BY PushIs
<1>5. calls' \in 0..MaxCalls /\ calls + 1 \in 1..MaxCalls
  BY <1>3, <1>4
<1>6. arrived' \in [1..MaxCalls -> BucketTimes \cup {Engine!NoPoint}]
  BY <1>1, <1>4
<1>7. stats.dropped \in Nat /\ \A r \in results : r.call \in Nat /\ r.call <= calls
  BY <1>1, <1>3 DEF Engine!StatsType, Engine!ResultType, EngineInv
<1>8. CASE /\ hasMark /\ bt < watermark /\ pending[bt] = {}
           /\ UNCHANGED <<pending, watermark, hasMark, results>>
           /\ stats' = [stats EXCEPT !.dropped = @ + 1]
  <2>1. stats' \in Engine!StatsType /\ stats'.dropped > stats.dropped
    BY <1>1, <1>7, <1>8 DEF Engine!StatsType
  <2>2. Engine!TypeOK'
    BY <1>1, <1>4, <1>5, <1>6, <1>8, <2>1 DEF Engine!TypeOK
  <2>3. EngineInv'
    BY <1>3, <1>4, <1>7, <1>8 DEF EngineInv
  <2>. QED BY <1>1, <1>2, <1>8, <2>1, <2>2, <2>3
<1>9. CASE /\ hasMark => bt = watermark
           /\ watermark' = bt /\ hasMark' = TRUE /\ results' = results
           /\ stats' = stats
           /\ pending' = [pending EXCEPT ![bt] = @ \cup {calls + 1}]
  <2>1. pending' \in [BucketTimes -> SUBSET (1..MaxCalls)]
    BY <1>1, <1>5, <1>9
  <2>2. Engine!TypeOK'
    BY <1>1, <1>4, <1>5, <1>6, <1>9, <2>1 DEF Engine!TypeOK
  <2>3. \A t \in BucketTimes : pending'[t] =
          IF t = bt THEN pending[t] \cup {calls + 1} ELSE pending[t]
    BY <1>1, <1>9
  <2>4. EngineInv'
    BY <1>3, <1>4, <1>7, <1>9, <2>3 DEF EngineInv
  <2>. QED BY <1>1, <1>2, <1>9, <2>2, <2>3, <2>4
<1>10. CASE /\ hasMark /\ watermark < bt /\ watermark' = bt /\ hasMark' = hasMark
            /\ results' = results \cup
                 {[time |-> t, pts |-> Engine!HeldIn(t), call |-> calls + 1] : t \in ClosedBy(bt)}
            /\ stats' = Engine!CloseStats({t \in Engine!Open : t < bt}, {bt - 1})
            /\ pending' = [[t \in BucketTimes |-> IF t \in ClosedBy(bt) THEN {} ELSE pending[t]]
                             EXCEPT ![bt] = @ \cup {calls + 1}]
  <2>1. /\ \A t \in ClosedBy(bt) : t \in Nat /\ watermark <= t /\ t < bt
        /\ pending[watermark] # {} => watermark \in ClosedBy(bt)
    BY <1>10, ClosedRange
  <2>2. \A t \in ClosedBy(bt) : t \in BucketTimes
    BY <1>2, <2>1, Period
  <2>3. \A t \in BucketTimes : pending'[t] =
          (IF t \in ClosedBy(bt) THEN {} ELSE pending[t]) \cup (IF t = bt THEN {calls + 1} ELSE {})
    BY <1>10
  <2>4. pending' \in [BucketTimes -> SUBSET (1..MaxCalls)]
    BY <1>1, <1>5, <1>10
  <2>5. stats' \in Engine!StatsType /\ stats'.dropped = stats.dropped
    BY <1>10, CloseStatsType
  <2>6. \A t : Engine!HeldIn(t) \in SUBSET (1..MaxCalls)
    BY <1>1 DEF Engine!HeldIn
  <2>7. \A r \in results' : r \in results \/
          \E t \in ClosedBy(bt) :
            r = [time |-> t, pts |-> Engine!HeldIn(t), call |-> calls + 1]
    BY <1>10
  <2>8. results' \subseteq Engine!ResultType
    BY <1>1, <1>5, <2>1, <2>6, <2>7 DEF Engine!ResultType
  <2>9. Engine!TypeOK'
    BY <1>1, <1>4, <1>5, <1>6, <1>10, <2>4, <2>5, <2>8 DEF Engine!TypeOK
  <2>10. EngineInv'
    <3>1. \A r \in results' : r.call <= calls'
      BY <1>3, <1>4, <1>7, <2>7
    <3>2. \A t \in BucketTimes : pending'[t] # {} => t = bt
      BY <1>1, <2>1, <2>3 DEF EngineInv
    <3>. QED BY <1>10, <3>1, <3>2 DEF EngineInv
  <2>11. \A r \in results' \ results :
           /\ hasMark /\ watermark <= r.time /\ r.time < watermark'
           /\ r.time \in BucketTimes
    BY <1>10, <2>1, <2>2, <2>7
  <2>12. \A r, s \in results' \ results : r.time = s.time => r = s
    BY <2>7
  <2>13. ASSUME NEW t \in BucketTimes, pending[t] # {}
         PROVE  \E r \in results' \ results : r.time = t
    <3>. DEFINE r == [time |-> t, pts |-> Engine!HeldIn(t), call |-> calls + 1]
    <3>1. t \in ClosedBy(bt)
      BY <2>1, <2>13 DEF EngineInv
    <3>2. r \in results' /\ r.time = t /\ r.call = calls + 1
      BY <1>10, <3>1
    <3>3. r \notin results
      BY <1>3, <1>7, <3>2
    <3>. HIDE DEF r
    <3>. QED BY <3>2, <3>3
  <2>14. pending'[bt] # {} /\ watermark <= bt /\ watermark <= watermark'
    BY <1>1, <1>2, <1>10, <2>3
  <2>. QED BY <1>10, <2>5, <2>9, <2>10, <2>11, <2>12, <2>13, <2>14
<1>. HIDE DEF EngineInv
<1>. QED BY <1>8, <1>9, <1>10, PushIs

-----------------------------------------------------------------------------
(* The shape is kept.                                                      *)

LEMMA ShapeInit == Init => ShapeInv
<1>. SUFFICES ASSUME Init PROVE ShapeInv
  OBVIOUS
<1>1. 0 \in BucketTimes /\ MaxCalls \in Nat /\ MaxDocs \in Nat
  BY Period, BoundsAssumption, LimitsAssumption
<1>2. /\ pending = [t \in BucketTimes |-> {}] /\ watermark = 0 /\ hasMark = FALSE
      /\ stats = [dropped |-> 0, accepted |-> 0, filled |-> 0, skipped |-> 0]
      /\ calls = 0 /\ arrived = [i \in 1..MaxCalls |-> Engine!NoPoint]
      /\ results = {} /\ flushedAt = {}
  BY DEF Init, Engine!Init
<1>3. Engine!TypeOK
  <2>1. stats \in Engine!StatsType
    BY <1>2 DEF Engine!StatsType
  <2>2. /\ pending \in [BucketTimes -> SUBSET (1..MaxCalls)] /\ calls \in 0..MaxCalls
        /\ arrived \in [1..MaxCalls -> BucketTimes \cup {Engine!NoPoint}]
    BY <1>1, <1>2
  <2>. QED BY <1>1, <1>2, <2>1, <2>2 DEF Engine!TypeOK
<1>4. EngineInv
  BY <1>2 DEF EngineInv
<1>5. TypeOK
  <2>1. /\ learned = {} /\ now = 0 /\ world = [s \in BucketTimes |-> 0]
        /\ phase = "idle" /\ ticked = FALSE /\ lastSeen = Never /\ last = Never
        /\ todo = {} /\ found = {} /\ disk.learned = {}
    BY DEF Init, NoFile
  <2>2. 0 \in 0..MaxDocs
    BY <1>1
  <2>. QED BY <1>1, <1>3, <2>1, <2>2 DEF TypeOK
<1>6. DiskInv /\ SourceInv
  BY <1>1 DEF Init, NoFile, DiskInv, SourceInv
<1>. QED BY <1>4, <1>5, <1>6 DEF ShapeInv

LEMMA PointIs ==
  ASSUME TypeOK, NEW p \in todo
  PROVE  p \in Points /\ p.time \in BucketTimes /\ p.series \in Series
BY DEF TypeOK, Points

\* The engine changes when a point is consumed and when the process starts.
LEMMA TypeNext ==
  ASSUME ShapeInv, [Next]_vars
  PROVE  TypeOK' /\ EngineInv'
<1>. USE DEF ShapeInv
<1>1. ASSUME UNCHANGED engine
      PROVE  Engine!TypeOK' /\ EngineInv'
  BY <1>1 DEF engine, TypeOK, Engine!TypeOK, EngineInv
<1>2. ASSUME UNCHANGED <<engine, learned, source>>,
             phase' \in {"idle", "push", "fresh", "notify", "save", "down"}, ticked' \in BOOLEAN,
             lastSeen' = lastSeen, last' \in BucketTimes \cup {Never}, todo' \subseteq Points,
             found' \subseteq BucketTimes, disk'.learned \subseteq results
      PROVE  TypeOK' /\ EngineInv'
  BY <1>1, <1>2 DEF TypeOK, engine, source
<1>3. CASE Clock
  BY <1>1, <1>3 DEF Clock, TypeOK, engine
<1>4. ASSUME NEW t \in BucketTimes, Document(t)
      PROVE  TypeOK' /\ EngineInv'
  <2>1. world' \in [BucketTimes -> 0..MaxDocs]
    BY <1>4, LimitsAssumption DEF Document, TypeOK
  <2>. QED BY <1>1, <1>4, <2>1 DEF Document, TypeOK, watcher, engine
<1>5. CASE FetchFails
  BY <1>2, <1>5 DEF FetchFails, TypeOK
<1>6. CASE Fetch
  <2>1. todo' \subseteq Points
    <3>1. \A t \in Window : t \in BucketTimes /\ world[t] \in 1..MaxDocs
      BY LimitsAssumption DEF Window, TypeOK
    <3>. QED BY <1>6, <3>1 DEF Fetch, Point, Points
  <2>. QED BY <1>2, <1>6, <2>1 DEF Fetch, TypeOK
<1>7. ASSUME NEW p \in todo, Skip(p)
      PROVE  TypeOK' /\ EngineInv'
  BY <1>2, <1>7 DEF Skip, TypeOK
<1>8. ASSUME NEW p \in todo, Consume(p)
      PROVE  TypeOK' /\ EngineInv'
  <2>1. p.time \in BucketTimes /\ Engine!Push(p.time)
    BY <1>8, PointIs DEF Consume
  <2>2. /\ Engine!TypeOK' /\ EngineInv' /\ results \subseteq results'
        /\ \A r \in results' \ results : r.time \in BucketTimes
    BY <2>1, PushMoves
  <2>. QED BY <1>8, <2>1, <2>2 DEF Consume, MarkSeen, TypeOK, source
<1>9. CASE EndPush
  BY <1>2, <1>9 DEF EndPush, Pushed, TypeOK
<1>10. ASSUME NEW t \in found, Notify(t)
       PROVE  TypeOK' /\ EngineInv'
  BY <1>2, <1>10 DEF Notify, TypeOK
<1>11. CASE EndNotify
  BY <1>2, <1>11 DEF EndNotify, TypeOK
<1>12. CASE Save \/ Stop
  BY <1>2, <1>12 DEF Save, Stop, Snapshot, TypeOK
<1>13. CASE Crash
  BY <1>2, <1>13 DEF Crash, TypeOK
<1>14. CASE Start
  <2>1. Engine!TypeOK'
    BY <1>14 DEF Start, TypeOK, Engine!TypeOK, Engine!StatsType, DiskInv
  <2>2. EngineInv'
    BY <1>14 DEF Start, EngineInv
  <2>. QED BY <1>14, <2>1, <2>2 DEF Start, FirstSeen, TypeOK, source
<1>15. CASE UNCHANGED vars
  BY <1>1, <1>15 DEF vars, source, watcher, TypeOK, engine
<1>. QED
  BY <1>3, <1>4, <1>5, <1>6, <1>7, <1>8, <1>9, <1>10, <1>11, <1>12, <1>13, <1>14, <1>15
  DEF Next, Tick

LEMMA ShapeNext ==
  ASSUME ShapeInv, [Next]_vars
  PROVE  ShapeInv'
<1>. SUFFICES DiskInv' /\ SourceInv'
  BY TypeNext DEF ShapeInv
<1>1. \A t \in BucketTimes : t \in Nat
  BY Period
<1>2. /\ watermark \in BucketTimes /\ hasMark \in BOOLEAN /\ now \in BucketTimes
      /\ world \in [BucketTimes -> 0..MaxDocs]
      /\ disk = [hasMark |-> disk.hasMark, watermark |-> disk.watermark,
                 learned |-> disk.learned]
      /\ disk.hasMark \in BOOLEAN /\ disk.watermark \in BucketTimes
      /\ disk.hasMark => hasMark /\ disk.watermark <= watermark
  BY DEF ShapeInv, TypeOK, Engine!TypeOK, DiskInv
<1>3. /\ \A p \in todo : p.time \in BucketTimes /\ p.series \in Series
      /\ \A p \in todo : p.time <= now /\ world[p.time] > 0
      /\ \A t \in taken : t \in BucketTimes /\ t <= now /\ world[t] > 0
      /\ taken # {} => Series # {}
  BY PointIs DEF ShapeInv, SourceInv
<1>4. ASSUME NEW p \in todo, Consume(p)
      PROVE  DiskInv' /\ SourceInv'
  <2>1. hasMark' /\ (hasMark => watermark <= watermark') /\ watermark' \in BucketTimes
    <3>1. TypeOK'
      BY TypeNext
    <3>. QED BY <1>3, <1>4, <3>1, PushMoves DEF Consume, ShapeInv, TypeOK, Engine!TypeOK
  <2>2. DiskInv'
    BY <1>1, <1>2, <1>4, <2>1 DEF Consume, DiskInv
  <2>3. /\ todo' \subseteq todo /\ taken' \subseteq taken \cup {p.time}
        /\ UNCHANGED <<now, world>>
    BY <1>4 DEF Consume, source
  <2>4. SourceInv'
    BY <1>3, <2>3 DEF SourceInv
  <2>. QED BY <2>2, <2>4
<1>5. CASE Start
  BY <1>1, <1>2, <1>3, <1>5 DEF Start, DiskInv, SourceInv, source, history
<1>6. ASSUME UNCHANGED engine, disk' = disk \/ disk' = Snapshot
      PROVE  DiskInv'
  BY <1>1, <1>2, <1>6 DEF engine, DiskInv, Snapshot
<1>7. ASSUME UNCHANGED taken, todo' \subseteq todo, now' \in BucketTimes, now <= now',
             \A t \in BucketTimes : world[t] > 0 => world'[t] > 0
      PROVE  SourceInv'
  BY <1>1, <1>2, <1>3, <1>7 DEF SourceInv
<1>8. CASE Clock
  BY <1>1, <1>2, <1>6, <1>7, <1>8 DEF Clock, history
<1>9. ASSUME NEW t \in BucketTimes, Document(t)
      PROVE  DiskInv' /\ SourceInv'
  <2>1. \A s \in BucketTimes : world[s] \in Nat /\ world[s] > 0 => world'[s] > 0
    BY <1>2, <1>9 DEF Document
  <2>2. \A s \in BucketTimes : world[s] \in Nat
    BY <1>2, LimitsAssumption
  <2>. QED BY <1>1, <1>2, <1>6, <1>7, <1>9, <2>1, <2>2 DEF Document, history, watcher
<1>10. CASE Fetch
  <2>1. \A p \in todo' : p.time \in Window
    BY <1>10 DEF Fetch, Point
  <2>2. \A p \in todo' : p.time <= now /\ world[p.time] > 0
    BY <2>1 DEF Window
  <2>. QED BY <1>3, <1>6, <1>10, <2>2 DEF Fetch, SourceInv, source
<1>11. CASE /\ UNCHANGED <<engine, now, world, taken>> /\ todo' \subseteq todo
            /\ disk' = disk \/ disk' = Snapshot
  <2>1. DiskInv'
    BY <1>6, <1>11
  <2>2. SourceInv'
    BY <1>1, <1>2, <1>7, <1>11
  <2>. QED BY <2>1, <2>2
<1>12. \/ Clock \/ (\E t \in BucketTimes : Document(t)) \/ Fetch
       \/ (\E p \in todo : Consume(p)) \/ Start
       \/ /\ UNCHANGED <<engine, now, world, taken>> /\ todo' \subseteq todo
          /\ disk' = disk \/ disk' = Snapshot
  BY DEF Next, Tick, FetchFails, Skip, EndPush, Notify, EndNotify, Save, Stop, Crash,
     vars, source, watcher, history
<1>. QED BY <1>4, <1>5, <1>8, <1>9, <1>10, <1>11, <1>12

-----------------------------------------------------------------------------
(* What the models learn, and what the notifier is offered.                *)

LEMMA LearnNext ==
  ASSUME ShapeInv, LearnInv, [Next]_vars
  PROVE  LearnInv'
<1>1. /\ watermark \in Int /\ \A r \in results : r.time \in Int
      /\ learned \subseteq results /\ watermark' \in Int
  <2>1. \A t \in BucketTimes : t \in Nat
    BY Period
  <2>2. ShapeInv'
    BY ShapeNext
  <2>3. /\ watermark \in BucketTimes /\ results \subseteq Engine!ResultType
        /\ learned \subseteq results
    BY DEF ShapeInv, TypeOK, Engine!TypeOK
  <2>4. watermark' \in BucketTimes
    BY <2>2 DEF ShapeInv, TypeOK, Engine!TypeOK
  <2>. QED BY <2>1, <2>3, <2>4 DEF Engine!ResultType
<1>2. CASE UNCHANGED <<learned, hasMark, watermark, disk>>
  BY <1>2 DEF LearnInv, Learns
<1>3. ASSUME NEW p \in todo, Consume(p)
      PROVE  LearnInv'
  <2>1. p.time \in BucketTimes /\ Engine!Push(p.time)
    BY <1>3, PointIs DEF Consume, ShapeInv
  <2>. DEFINE fresh == results' \ results
  <2>2. /\ hasMark' /\ (hasMark => watermark <= watermark')
        /\ \A r \in fresh : hasMark /\ watermark <= r.time /\ r.time < watermark'
        /\ \A r \in fresh : r.time \in BucketTimes
        /\ \A r, s \in fresh : r.time = s.time => r = s
    BY <2>1, PushMoves DEF ShapeInv
  <2>3. learned' = learned \cup fresh /\ disk' = disk
    BY <1>3 DEF Consume
  <2>. HIDE DEF fresh
  <2>4. \A r \in fresh : r.time \in Int
    BY <2>2, Period
  <2>5. \A r \in learned : r.time \in Int /\ hasMark /\ r.time < watermark
    BY <1>1 DEF LearnInv, Learns
  <2>6. \A r \in learned' : r.time < watermark'
    BY <1>1, <2>2, <2>3, <2>4, <2>5
  <2>7. ASSUME NEW r \in learned', NEW s \in learned', r.time = s.time
        PROVE  r = s
    <3>1. CASE r \in learned /\ s \in learned
      BY <2>7, <3>1 DEF LearnInv, Learns
    <3>2. CASE r \in fresh /\ s \in fresh
      BY <2>2, <2>7, <3>2
    <3>3. CASE (r \in learned /\ s \in fresh) \/ (r \in fresh /\ s \in learned)
      BY <1>1, <2>2, <2>4, <2>5, <2>7, <3>3
    <3>. QED BY <2>3, <3>1, <3>2, <3>3
  <2>. QED BY <2>2, <2>3, <2>6, <2>7 DEF LearnInv, Learns
<1>4. CASE Save \/ Stop
  BY <1>4 DEF Save, Stop, Snapshot, engine, LearnInv, Learns
<1>5. CASE Start
  BY <1>5 DEF Start, LearnInv, Learns
<1>. QED
  BY <1>2, <1>3, <1>4, <1>5
  DEF Next, Tick, Clock, Document, FetchFails, Fetch, Skip, EndPush, Notify, EndNotify, Crash,
     vars, engine

LEMMA OfferNext ==
  ASSUME ShapeInv, OfferInv, [Next]_vars
  PROVE  OfferInv'
<1>1. CASE UNCHANGED <<learned, offered, found, disk>> /\ (phase' = phase \/ Crash \/ FetchFails)
  BY <1>1 DEF OfferInv, OfferedBeforeSaved, Crash, FetchFails
<1>2. CASE Fetch \/ EndPush \/ EndNotify
  BY <1>2 DEF Fetch, EndPush, Pushed, EndNotify, history, OfferInv, OfferedBeforeSaved
<1>3. ASSUME NEW p \in todo, Consume(p)
      PROVE  OfferInv'
  BY <1>3 DEF Consume, OfferInv, OfferedBeforeSaved
<1>4. ASSUME NEW t \in found, Notify(t)
      PROVE  OfferInv'
  BY <1>4 DEF Notify, OfferInv, OfferedBeforeSaved
<1>5. CASE Save \/ Stop
  BY <1>5 DEF Save, Stop, Snapshot, history, OfferInv, OfferedBeforeSaved
<1>6. CASE Start
  BY <1>6 DEF Start, history, OfferInv, OfferedBeforeSaved
<1>. QED
  BY <1>1, <1>2, <1>3, <1>4, <1>5, <1>6
  DEF Next, Tick, Clock, Document, FetchFails, Skip, Crash, vars, watcher, history

-----------------------------------------------------------------------------
(* What the engine took is learned, held or fetched again.                 *)

\* A push keeps what was kept, and keeps what it takes.
LEMMA ConsumeKeeps ==
  ASSUME ShapeInv, NEW p \in todo, Consume(p)
  PROVE  /\ p.time \in BucketTimes
         /\ \A t \in BucketTimes : KeptBucket(t) => KeptBucket(t)'
         /\ LearnedTimes \subseteq LearnedTimes'
         /\ \/ taken' = taken /\ hasMark /\ p.time < watermark /\ watermark' = watermark
            \/ /\ taken' = taken \cup {p.time} /\ KeptBucket(p.time)'
               /\ watermark' = p.time /\ (hasMark => watermark <= p.time)
<1>1. p.time \in BucketTimes /\ Engine!Push(p.time)
  BY PointIs DEF Consume, ShapeInv
<1>2. /\ \/ /\ stats'.dropped > stats.dropped
            /\ hasMark /\ p.time < watermark /\ watermark' = watermark
         \/ /\ stats'.dropped = stats.dropped
            /\ hasMark => watermark <= p.time
            /\ watermark' = p.time /\ pending'[p.time] # {}
      /\ \A t \in BucketTimes : pending[t] # {} =>
           pending'[t] # {} \/ \E r \in results' \ results : r.time = t
  BY <1>1, PushMoves DEF ShapeInv
<1>3. /\ taken' = IF stats'.dropped > stats.dropped THEN taken ELSE taken \cup {p.time}
      /\ learned' = learned \cup (results' \ results)
  BY DEF Consume
<1>4. stats.dropped \in Nat
  BY DEF ShapeInv, TypeOK, Engine!TypeOK, Engine!StatsType
<1>5. LearnedTimes \subseteq LearnedTimes'
  BY <1>3 DEF LearnedTimes
<1>6. \A t \in BucketTimes : KeptBucket(t) => KeptBucket(t)'
  BY <1>2, <1>3, <1>5 DEF KeptBucket, LearnedTimes
<1>. QED BY <1>1, <1>2, <1>3, <1>4, <1>5, <1>6 DEF KeptBucket

LEMMA LostNext ==
  ASSUME ShapeInv, LostInv, [Next]_vars
  PROVE  LostInv'
<1>. SUFFICES ASSUME ~missed'
              PROVE  PastLearned' /\ PastSaved' /\ StillToPush' /\ AllKept'
  BY DEF LostInv
<1>0. ASSUME Fetch
      PROVE  ~missed /\ (lastSeen = Never => \A t \in taken \ LearnedTimes : ~(t < now - Lookback))
  BY <1>0, Zenon DEF Fetch
<1>1. ~missed
  <2>1. ~Fetch => missed' = missed
    BY DEF Next, Tick, Clock, Document, FetchFails, Skip, Consume, EndPush, Notify,
       EndNotify, Save, Stop, Crash, Start, vars, history
  <2>. QED BY <1>0, <2>1
<1>2. PastLearned /\ PastSaved /\ StillToPush /\ AllKept
  BY <1>1 DEF LostInv
<1>3. \A t \in BucketTimes : t \in Nat
  BY Period
<1>4. /\ watermark \in BucketTimes /\ now \in BucketTimes /\ Never \notin BucketTimes
      /\ \A t \in taken : t \in BucketTimes /\ t <= now /\ world[t] > 0
      /\ taken # {} => Series # {}
      /\ \A p \in todo : p.time \in BucketTimes
      /\ disk.hasMark => hasMark /\ disk.watermark <= watermark
      /\ disk.watermark \in BucketTimes
  BY <1>3, PointIs DEF ShapeInv, TypeOK, Engine!TypeOK, SourceInv, DiskInv, Never
<1>5. UNCHANGED <<learned, pending>> => \A t : KeptBucket(t)' = KeptBucket(t)
  BY DEF KeptBucket, LearnedTimes
<1>6. UNCHANGED <<learned, hasMark, watermark, taken>> => PastLearned'
  BY <1>2 DEF PastLearned, LearnedTimes
<1>7. UNCHANGED <<disk, taken>> => PastSaved'
  BY <1>2 DEF PastSaved
<1>8. ASSUME NEW p \in todo, Consume(p)
      PROVE  PastLearned' /\ PastSaved' /\ StillToPush' /\ AllKept'
  <2>1. /\ phase \in {"push", "fresh"} /\ phase' = "fresh" /\ disk' = disk
        /\ \A q \in todo : p.time <= q.time
        /\ todo' = todo \ {p} /\ lastSeen' = p.time
    BY <1>8 DEF Consume, Turn, MarkSeen
  <2>2. /\ p.time \in BucketTimes
        /\ \A t \in BucketTimes : KeptBucket(t) => KeptBucket(t)'
        /\ LearnedTimes \subseteq LearnedTimes'
        /\ \/ taken' = taken /\ hasMark /\ p.time < watermark /\ watermark' = watermark
           \/ /\ taken' = taken \cup {p.time} /\ KeptBucket(p.time)'
              /\ watermark' = p.time /\ (hasMark => watermark <= p.time)
    BY <1>8, ConsumeKeeps
  <2>3. \A t \in taken : KeptBucket(t) \/ \E q \in todo : q.time = t
    BY <1>2, <2>1 DEF StillToPush
  <2>4. ASSUME NEW t \in taken', t < watermark'
        PROVE  t \in LearnedTimes'
    <3>1. CASE taken' = taken /\ hasMark /\ watermark' = watermark
      BY <1>2, <2>2, <2>4, <3>1 DEF PastLearned
    <3>2. CASE taken' = taken \cup {p.time} /\ watermark' = p.time
      <4>1. t \in taken /\ t \in BucketTimes /\ t < p.time
        BY <1>3, <1>4, <2>2, <2>4, <3>2
      <4>2. \A q \in todo : q.time # t
        BY <1>3, <1>4, <2>1, <2>2, <4>1
      <4>3. KeptBucket(t)'
        BY <2>2, <2>3, <4>1, <4>2
      <4>4. pending'[t] = {}
        <5>1. EngineInv'
          BY TypeNext
        <5>. QED BY <1>3, <2>2, <3>2, <4>1, <5>1 DEF EngineInv
      <4>. QED BY <4>3, <4>4 DEF KeptBucket
    <3>. QED BY <2>2, <3>1, <3>2
  <2>5. ASSUME NEW t \in taken', disk.hasMark, t < disk.watermark
        PROVE  t \in taken
    <3>1. hasMark /\ disk.watermark <= watermark
      BY <1>4, <2>5
    <3>2. CASE t = p.time /\ watermark <= p.time
      BY <1>3, <1>4, <2>2, <2>5, <3>1, <3>2
    <3>. QED BY <2>2, <2>5, <3>1, <3>2
  <2>6. PastSaved'
    BY <1>2, <2>1, <2>5 DEF PastSaved
  <2>7. ASSUME NEW t \in taken', ~KeptBucket(t)'
        PROVE  \E q \in todo' : q.time = t /\ ~Seen(q)'
    <3>1. t \in taken /\ t # p.time
      <4>1. p.time \in taken /\ hasMark /\ p.time < watermark => KeptBucket(p.time)'
        BY <1>2, <2>2 DEF PastLearned, KeptBucket
      <4>. QED BY <2>2, <2>7, <4>1
    <3>2. ~KeptBucket(t)
      BY <1>4, <2>2, <2>7, <3>1
    <3>3. PICK q \in todo : q.time = t
      BY <2>3, <3>1, <3>2
    <3>4. q \in todo' /\ p.time < q.time
      BY <1>3, <1>4, <2>1, <3>1, <3>3
    <3>5. ~Seen(q)'
      BY <1>3, <1>4, <2>1, <2>2, <3>4 DEF Seen
    <3>. QED BY <3>3, <3>4, <3>5
  <2>. QED BY <2>1, <2>4, <2>6, <2>7 DEF PastLearned, StillToPush, AllKept
<1>9. CASE Fetch
  <2>1. /\ UNCHANGED <<learned, pending, hasMark, watermark, disk, taken, lastSeen>>
        /\ phase = "idle" /\ phase' = "push"
        /\ todo' = {Point(t, s) : t \in Window, s \in Series}
        /\ lastSeen = Never => \A t \in taken \ LearnedTimes : ~(t < now - Lookback)
    BY <1>0, <1>9 DEF Fetch, engine
  <2>2. ASSUME NEW t \in taken, ~KeptBucket(t)
        PROVE  \E q \in todo' : q.time = t /\ ~Seen(q)'
    <3>1. lastSeen = Never
      BY <1>2, <2>1, <2>2 DEF AllKept
    <3>2. t \in Window
      <4>1. ~(t < now - Lookback) /\ Lookback \in Nat
        BY <2>1, <2>2, <3>1, LimitsAssumption DEF KeptBucket
      <4>. QED BY <1>3, <1>4, <4>1 DEF Window
    <3>3. PICK s \in Series : TRUE
      BY <1>4
    <3>4. Point(t, s) \in todo' /\ Point(t, s).time = t
      BY <2>1, <3>2 DEF Point
    <3>. HIDE DEF Point
    <3>. QED BY <2>1, <3>1, <3>4 DEF Seen
  <2>. QED BY <1>5, <1>6, <1>7, <2>1, <2>2 DEF StillToPush, AllKept
<1>10. ASSUME NEW p \in todo, Skip(p)
       PROVE  PastLearned' /\ PastSaved' /\ StillToPush' /\ AllKept'
  <2>1. /\ UNCHANGED <<learned, pending, hasMark, watermark, disk, taken, lastSeen, phase>>
        /\ phase \in {"push", "fresh"} /\ Seen(p) /\ todo' = todo \ {p}
    BY <1>10 DEF Skip, Turn, engine, history
  <2>2. \A q \in todo : ~Seen(q) => q \in todo' /\ ~Seen(q)'
    BY <2>1 DEF Seen
  <2>. QED BY <1>2, <1>5, <1>6, <1>7, <2>1, <2>2 DEF StillToPush, AllKept
<1>11. CASE EndPush
  <2>1. /\ UNCHANGED <<learned, pending, hasMark, watermark, disk, taken>>
        /\ phase \in {"push", "fresh"} /\ phase' \in {"notify", "idle"} /\ todo = {}
    BY <1>11 DEF EndPush, Pushed, engine, history
  <2>2. \A t \in taken : KeptBucket(t)
    BY <1>2, <2>1 DEF StillToPush
  <2>. QED BY <1>5, <1>6, <1>7, <2>1, <2>2 DEF StillToPush, AllKept
<1>12. CASE Save \/ Stop
  <2>1. /\ UNCHANGED <<learned, pending, hasMark, watermark, taken, lastSeen>>
        /\ (phase = "save" /\ phase' = "idle") \/ phase' = "down"
        /\ disk' = disk \/ disk' = Snapshot
    BY <1>12 DEF Save, Stop, engine, history
  <2>2. PastSaved'
    <3>1. CASE disk' = Snapshot
      BY <1>2, <2>1, <3>1 DEF PastLearned, PastSaved, Snapshot, LearnedTimes
    <3>. QED BY <1>7, <2>1, <3>1
  <2>. QED BY <1>2, <1>5, <1>6, <2>1, <2>2 DEF StillToPush, AllKept
<1>13. CASE Start
  <2>1. /\ learned' = disk.learned /\ hasMark' = disk.hasMark /\ watermark' = disk.watermark
        /\ UNCHANGED <<disk, taken>> /\ phase' = "idle" /\ lastSeen' = Never
    BY <1>13 DEF Start, FirstSeen, history
  <2>2. PastLearned'
    BY <1>2, <2>1 DEF PastLearned, PastSaved, LearnedTimes
  <2>. QED BY <1>7, <2>1, <2>2 DEF StillToPush, AllKept
\* The other steps leave engine, file and fetched points alone.
<1>14. CASE /\ UNCHANGED <<learned, pending, hasMark, watermark, disk, taken, lastSeen, todo>>
            /\ phase' = phase \/ phase' = "down"
               \/ (phase \in {"notify", "save"} /\ phase' \in {"notify", "save"})
  <2>1. \A p : Seen(p)' = Seen(p)
    BY <1>14 DEF Seen
  <2>. QED BY <1>2, <1>5, <1>6, <1>7, <1>14, <2>1 DEF StillToPush, AllKept
<1>15. \/ (\E p \in todo : Consume(p) \/ Skip(p)) \/ Fetch \/ EndPush \/ Save \/ Stop \/ Start
       \/ /\ UNCHANGED <<learned, pending, hasMark, watermark, disk, taken, lastSeen, todo>>
          /\ phase' = phase \/ phase' = "down"
             \/ (phase \in {"notify", "save"} /\ phase' \in {"notify", "save"})
  BY DEF Next, Tick, Clock, Document, FetchFails, Notify, EndNotify, Crash, vars, engine,
     watcher, history
<1>. QED BY <1>8, <1>9, <1>10, <1>11, <1>12, <1>13, <1>14, <1>15

-----------------------------------------------------------------------------
(* Theorems.                                                               *)

WatchInv == ShapeInv /\ LearnInv /\ OfferInv /\ LostInv

LEMMA WatchInit == Init => WatchInv
<1>. SUFFICES ASSUME Init PROVE WatchInv
  OBVIOUS
<1>1. /\ learned = {} /\ disk.learned = {} /\ taken = {} /\ found = {} /\ lastSeen = Never
      /\ phase = "idle"
  BY DEF Init, NoFile
<1>2. LearnInv /\ OfferInv
  BY <1>1 DEF LearnInv, Learns, OfferInv, OfferedBeforeSaved
<1>3. LostInv
  BY <1>1 DEF LostInv, PastLearned, PastSaved, StillToPush, AllKept
<1>. QED BY <1>2, <1>3, ShapeInit DEF WatchInv

LEMMA WatchNext == WatchInv /\ [Next]_vars => WatchInv'
<1>. SUFFICES ASSUME WatchInv, [Next]_vars PROVE WatchInv'
  OBVIOUS
<1>1. ShapeInv /\ LearnInv /\ OfferInv /\ LostInv
  BY DEF WatchInv
<1>. QED BY <1>1, ShapeNext, LearnNext, OfferNext, LostNext DEF WatchInv

LEMMA WatchAlways == Spec => []WatchInv
BY WatchInit, WatchNext, PTL DEF Spec

\* The models learn from a bucket once, whatever a tick or a restart fetches
\* again: what they know lies before the watermark, which Snapshot and Restore
\* carry along, and the engine returns no bucket before it (tick, closeBefore).
THEOREM LearnedCorrect == Spec => []LearnedOnce
<1>1. WatchInv => LearnedOnce
  BY DEF WatchInv, LearnInv, Learns, LearnedOnce
<1>. QED BY <1>1, WatchAlways, PTL

\* Unless the process was away for longer than the lookback, each point that the
\* engine ever took is in its models or in its open bucket once a tick has run:
\* what a crash took out of memory is in the window and not behind the watermark.
THEOREM LossCorrect == Spec => []NothingLost
<1>1. WatchInv => NothingLost
  BY DEF WatchInv, LostInv, AllKept, KeptBucket, NothingLost
<1>. QED BY <1>1, WatchAlways, PTL

\* The watcher keeps to its types, and it alerts before it saves: no bucket that
\* the state file says was learned was withheld from the notifier (tick, save).
THEOREM WatchCorrect == Spec => []WatchStands
<1>1. WatchInv => WatchStands
  BY DEF WatchInv, ShapeInv, OfferInv, WatchStands
<1>. QED BY <1>1, WatchAlways, PTL

=============================================================================
