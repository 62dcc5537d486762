---------------------------- MODULE BucketStream ----------------------------
(***************************************************************************)
(* The streaming half of engine.Engine: points arrive one at a time        *)
(* (Push), are held in the map `pending` under their bucket's start time,  *)
(* and whole buckets are scored and returned when the watermark moves past *)
(* them (closeBefore), with the missing buckets of count-like detectors    *)
(* filled in as empty ones (fillGaps).  Flush closes whatever is held.     *)
(*                                                                         *)
(* Abstracted: what a point carries and what scoring a bucket computes.  A *)
(* point is the number of the call that pushed it; a BucketResult is the   *)
(* bucket's start, the points it was scored on and the call returning it.  *)
(***************************************************************************)
EXTENDS Integers, FiniteSets, FiniteSetsExt

CONSTANTS
  Span,        \* job.BucketSpan, in ticks
  Grace,       \* Engine.Grace, in ticks (0 unless a caller sets it)
  GapFill,     \* gapFillActive(): the job has a count-like detector
  MaxGapFill,  \* maxGapFill: longest run of buckets fillGaps will build
  BucketTimes, \* the bucket starts of the modelled period
  MaxCalls     \* bound: Push and Flush calls in a behaviour

ASSUME SpanAssumption == Span \in Nat \ {0}
ASSUME GraceAssumption == Grace \in Nat
ASSUME GapAssumption == GapFill \in BOOLEAN /\ MaxGapFill \in Nat \ {0}
ASSUME BucketAssumption ==
  /\ BucketTimes \subseteq Nat
  /\ 0 \in BucketTimes
  /\ \A s, t \in BucketTimes : s <= t => (t - s) % Span = 0
ASSUME BoundAssumption == MaxCalls \in Nat

VARIABLES
  pending,    \* e.pending: points held per bucket; {} is "no entry"
  watermark,  \* e.watermark, meaningful once hasMark
  hasMark,    \* e.hasMark
  stats,      \* LateDropped, LateAccepted, GapsFilled, GapsSkipped
  calls,      \* number of calls so far
  arrived,    \* history: bucket of the point pushed by call i, or -1
  results,    \* history: every BucketResult returned
  flushedAt   \* history: the watermarks at which Flush was called

vars == <<pending, watermark, hasMark, stats, calls, arrived, results, flushedAt>>

NoPoint == -1

Open == {t \in BucketTimes : pending[t] # {}}

-----------------------------------------------------------------------------
(* Closing buckets.                                                        *)

\* fillGaps(<<first, last>>): every bucket from first to last, or only the
\* two ends when the run is longer than MaxGapFill.
RunLength(first, last) == (last - first) \div Span + 1

TooLong(first, last) == RunLength(first, last) > MaxGapFill

Steps(first, last) == {t \in first..last : (t - first) % Span = 0}

FillGapsShort(first, last) ==   \* faulty variant: t.Before(last)
  IF TooLong(first, last) THEN {first, last} ELSE Steps(first, last - 1)

FillGaps(first, last) ==
  IF TooLong(first, last) THEN {first, last} ELSE Steps(first, last)

\* closeBefore's list of buckets: those due, and with GapFill the run from
\* the first of them to the last of them or to `upTo`, whichever is later.
LastTimeIgnoresLimit(due, upTo) == Max(due)   \* faulty variant

LastTime(due, upTo) == Max(due \cup upTo)

Closing(due, upTo) ==
  IF due # {} /\ GapFill THEN FillGaps(Min(due), LastTime(due, upTo)) ELSE due

HeldIn(t) == IF t \in BucketTimes THEN pending[t] ELSE {}

\* The results closeBefore returns, its counters, and what stays pending.
Return(times, c) ==
  results \cup {[time |-> t, pts |-> HeldIn(t), call |-> c] : t \in times}

ForgetNothing(times) == pending   \* faulty variant: no delete(e.pending, t)

Forget(times) ==
  [t \in BucketTimes |-> IF t \in times THEN {} ELSE pending[t]]

CloseStats(due, upTo) ==
  IF due = {} \/ ~GapFill THEN stats
  ELSE LET first == Min(due)
           last  == LastTime(due, upTo)
       IN  IF TooLong(first, last)
           THEN [stats EXCEPT !.skipped = @ + RunLength(first, last) - 2]
           ELSE [stats EXCEPT !.filled =
                   @ + Cardinality(Steps(first, last) \ Open)]

-----------------------------------------------------------------------------
(* Push(p), where bt is the start of p's bucket.                           *)

Arrive(bt) ==
  /\ calls < MaxCalls
  /\ calls' = calls + 1
  /\ arrived' = [arrived EXCEPT ![calls + 1] = bt]
  /\ UNCHANGED flushedAt

Mark(bt) == IF hasMark THEN watermark ELSE bt

\* The bucket has no entry and lies before the watermark: the point is late.
DropLate(bt) ==
  /\ Arrive(bt)
  /\ bt < Mark(bt) /\ bt \notin Open
  /\ stats' = [stats EXCEPT !.dropped = @ + 1]
  /\ UNCHANGED <<pending, watermark, hasMark, results>>

\* Faulty variant: a late point is held whether or not its bucket is open.
JoinAlways(bt) ==
  /\ Arrive(bt)
  /\ bt <= Mark(bt)
  /\ watermark' = Mark(bt)
  /\ hasMark' = TRUE
  /\ pending' = [pending EXCEPT ![bt] = @ \cup {calls + 1}]
  /\ UNCHANGED <<results, stats>>

\* The point joins its bucket; behind the watermark it counts as accepted late.
Join(bt) ==
  /\ Arrive(bt)
  /\ bt = Mark(bt) \/ (bt < Mark(bt) /\ bt \in Open)
  /\ stats' = IF bt < Mark(bt) THEN [stats EXCEPT !.accepted = @ + 1] ELSE stats
  /\ watermark' = Mark(bt)
  /\ hasMark' = TRUE
  /\ pending' = [pending EXCEPT ![bt] = @ \cup {calls + 1}]
  /\ UNCHANGED results

\* What a push that moves the watermark does, for the bound below which it
\* closes, the mark it leaves and the points it adds to its bucket.
AdvanceWith(bt, limit, mark, pts) ==
  LET due   == {t \in Open : t < limit}
      times == Closing(due, {limit - Span})
  IN  /\ Arrive(bt)
      /\ bt > Mark(bt)
      /\ watermark' = mark
      /\ UNCHANGED hasMark
      /\ results' = Return(times, calls + 1)
      /\ stats' = CloseStats(due, {limit - Span})
      /\ pending' = [Forget(times) EXCEPT ![bt] = @ \cup pts]

\* Faulty variant: the new point is not appended.
AdvanceForgetsPoint(bt) == AdvanceWith(bt, bt - Grace, bt, {})

\* The point moves the watermark: close what is older than the grace period
\* (t.Before(limit), the gap run ending at limit.Add(-span)), then hold it.
Advance(bt) == AdvanceWith(bt, bt - Grace, bt, {calls + 1})

Push(bt) == DropLate(bt) \/ Join(bt) \/ Advance(bt)

\* Flush(): closeBefore with a zero limit closes every bucket and leaves the
\* watermark alone.
Flush ==
  LET times == Closing(Open, {})
  IN  /\ calls < MaxCalls
      /\ calls' = calls + 1
      /\ results' = Return(times, calls + 1)
      /\ stats' = CloseStats(Open, {})
      /\ pending' = Forget(times)
      /\ flushedAt' = IF hasMark THEN flushedAt \cup {watermark} ELSE flushedAt
      /\ UNCHANGED <<watermark, hasMark, arrived>>

-----------------------------------------------------------------------------

Init ==
  /\ pending = [t \in BucketTimes |-> {}]
  /\ watermark = 0
  /\ hasMark = FALSE
  /\ stats = [dropped |-> 0, accepted |-> 0, filled |-> 0, skipped |-> 0]
  /\ calls = 0
  /\ arrived = [i \in 1..MaxCalls |-> NoPoint]
  /\ results = {}
  /\ flushedAt = {}

Next == Flush \/ \E bt \in BucketTimes : Push(bt)

Spec == Init /\ [][Next]_vars

-----------------------------------------------------------------------------
(* engine.Run, the batch path: all points at once, grouped into buckets,   *)
(* with the gaps between the first and the last bucket filled.             *)

Pushed == {i \in 1..calls : arrived[i] # NoPoint}

Run ==
  LET times == {arrived[i] : i \in Pushed}
      full  == IF GapFill /\ Cardinality(times) >= 2 /\ ~TooLong(Min(times), Max(times))
               THEN Steps(Min(times), Max(times)) ELSE times
  IN  {[time |-> t, pts |-> {i \in Pushed : arrived[i] = t}] : t \in full}

-----------------------------------------------------------------------------
(* Properties.                                                             *)

StatsType == [dropped: Nat, accepted: Nat, filled: Nat, skipped: Nat]

ResultType == [time: Int, pts: SUBSET (1..MaxCalls), call: 1..MaxCalls]

TypeOK ==
  /\ pending \in [BucketTimes -> SUBSET (1..MaxCalls)]
  /\ watermark \in BucketTimes
  /\ hasMark \in BOOLEAN
  /\ stats \in StatsType
  /\ calls \in 0..MaxCalls
  /\ arrived \in [1..MaxCalls -> BucketTimes \cup {NoPoint}]
  /\ results \subseteq ResultType
  /\ flushedAt \subseteq BucketTimes

Reported(i) == {r \in results : i \in r.pts}

\* Every pushed point is in one place: held in its own bucket, or reported
\* once and in its own bucket, or counted in LateDropped.  closeBefore neither
\* loses nor scores twice a point, however calls interleave with Flush.
Lost == {i \in Pushed : i \notin HeldIn(arrived[i]) /\ Reported(i) = {}}

Conservation ==
  /\ \A t \in BucketTimes : \A i \in pending[t] : i \in Pushed /\ arrived[i] = t
  /\ \A r \in results : \A i \in r.pts :
       i \in Pushed /\ arrived[i] = r.time /\ i \notin HeldIn(r.time)
  /\ \A r, s \in results : r # s => r.pts \cap s.pts = {}
  /\ Cardinality(Lost) = stats.dropped

\* With a grace period, a gap too long to fill leaves the buckets between its
\* ends pending; the order below is for streams whose gaps can be filled (the
\* code's maxGapFill is a million buckets) or that wait for no late point.
OrderSafe ==
  GapFill /\ Grace >= Span =>
    \A s, t \in BucketTimes : s <= t => ~TooLong(s, t)

\* Results come back in bucket order: a later call never returns a bucket
\* older than one an earlier call returned (within a call closeBefore sorts).
ReportedInOrder ==
  \A r, s \in results : r.call < s.call => r.time <= s.time

\* A bucket is scored again only if it was the watermark's bucket when Flush
\* closed it: no ordinary Push ever reopens a closed bucket.
ReopenedOnlyByFlush ==
  \A r, s \in results : r # s /\ r.time = s.time => r.time \in flushedAt

\* Under GapFill a silent bucket is reported as an empty one: after a reported
\* bucket comes the next bucket, unless it is the last one reported or Flush
\* emptied the engine there (or a gap was too long to fill).
NoSilentHole ==
  GapFill /\ stats.skipped = 0 => \A r \in results :
    \/ \A s \in results : s.time <= r.time
    \/ \E s \in results : s.time = r.time + Span
    \/ r.time \in flushedAt

\* GapsFilled counts exactly the empty buckets reported, as long as no run of
\* them was too long to fill.
GapsCounted ==
  stats.skipped = 0 => Cardinality({r \in results : r.pts = {}}) = stats.filled

\* closeBefore tells of every silent bucket: it is reported as empty and counted
\* in GapsFilled, or its gap was too long and is counted in GapsSkipped.
GapsTold == NoSilentHole /\ GapsCounted

\* Points pushed in bucket order and then flushed are reported exactly as Run
\* reports them in one batch, if their whole range is short enough to fill.
InOrder == \A i, j \in Pushed : i < j => arrived[i] <= arrived[j]

JustFlushed == calls > 0 /\ (1..calls) \ Pushed = {calls}

StreamMatchesBatch ==
  InOrder /\ JustFlushed /\ ~TooLong(0, watermark) =>
    {[time |-> r.time, pts |-> r.pts] : r \in results} = Run

\* What makes the order inductive: the open buckets lie between the grace
\* period and the watermark, nothing reported is newer than them, and a
\* reported bucket is open again, or is the watermark's, only after a Flush.
OrderInv ==
  /\ ~hasMark => Open = {} /\ results = {}
  /\ \A t \in Open : watermark - Grace <= t /\ t <= watermark
  /\ \A r \in results : r.time <= watermark /\ r.call <= calls
  /\ \A r \in results : r.time = watermark => watermark \in flushedAt
  /\ \A r \in results, t \in Open :
       r.time <= t /\ (r.time = t => t \in flushedAt)

\* The stream keeps the promise of PointLedger: a step of Push or Flush refuses
\* a point, takes one in and reports the oldest buckets, or reports all.
HeldPoints == UNION {pending[t] : t \in BucketTimes}
ReportedPoints == UNION {r.pts : r \in results}

Ledger == INSTANCE PointLedger WITH
  Points   <- 1..MaxCalls,
  Buckets  <- BucketTimes,
  bucket   <- arrived,
  held     <- HeldPoints,
  reported <- ReportedPoints,
  refused  <- Lost

LedgerSpec == Ledger!Spec

=============================================================================
