# TLA+ for semeion

Semeion finds anomalies in time series: a detection engine buckets points and
scores the buckets against per-series models; a command-line watcher and an HTTP
server run engines over live data, raise alerts and group anomalies into
incidents with a lifecycle.  This directory models its control in TLA+, checks
it with TLC and proves the central invariants with TLAPS.

All paths below are relative to the repository (`src/`).

## 1. Inventory

| component | state it keeps | operations | talks to | hard behaviour | modules |
|---|---|---|---|---|---|
| **engine: stream** (`engine/engine.go`) | `pending` points per bucket, watermark, late/gap counters | `Push`, `Flush`, `Run`, `closeBefore` | called by watch, API, datafeeds under the caller's lock | late and out-of-order points, gaps, grace period, Flush in mid-stream, batch = stream | `BucketStream`, `PointLedger` |
| **engine: series** | models per series with an LRU table, last sightings, series known to the counts | `scoreBucket`, `touchSeries`, `evictSeries`, `Snapshot`, `Restore` | models | eviction while a loop scores, detectors that share an id | `SeriesCache` |
| **engine: records** (`engine.go`, `autothreshold.go`, `ensemble.go`) | models, rare values, feedback, threshold | the scoring functions per detector, `emit`, `MarkFalsePositive`, `Interim`, `RenormalizeResults`, `Ensemble` | models, rules | what is learned and what is only read, bounded tables, repeated passes | `Emission` |
| **job specification** (`jobspec/`, `detect/aggregate.go`) | none | calendars, rules, `Validate`, aggregation | engine | wrap-around of days and weeks; accepted detectors that are never scored | `JobSpec` |
| **baseline** (`detect/model.go`) | window, deviations, drift run | `Observe`, `Score`, `Learn`, `State` | engine | warm-up, lasting shifts, restarts | `Baseline` |
| **seasonal model** (`detect/seasonal.go`, `state.go`) | history, periods, one model per phase | `Observe`, `detect`, `State` | baseline, provider | periods that come and go | `Seasonal` |
| **extreme values** (`evt/`) | peaks, thresholds, ring and running sum | `Init`, `Step`, `Snapshot`, `StreamProbabilities` | pipeline, thresholds | alarms not learned, restarts, no look-ahead | `Tail` |
| **calibration and error control** (`conformal/`, `fdr/`) | calibration samples, wealth | `P`, `Threshold`, `Probabilities`, `BenjaminiHochberg`, `LORD` | pipeline | off-by-one ranks, NaN, look-ahead | `Calibration` |
| **alarm policy** (`guard/`) | ring of verdicts, four counters | `Step`, `Penalize`, `SolveThreshold`, `Candidates` | pipeline, API | the ring's count as it wraps, counters in sequence, bisection | `AlarmGuard` |
| **pipeline** (`pipeline/`) | sliding window, last report | `Push`, `Scan` | guard, evt, conformal | positions in a window that moves | `Pipeline` |
| **ranker and rankings** (`rank/`, `correlate/influencers.go`, `causality.go`) | weights | `Learn`, `Fit`, `Threshold`, `RankInfluencers` | API | clamped weights, map order | `Ranking` |
| **benchmark** (`benchmark/`) | none | measures and thresholds | quality gates | segments at the edges, ties | `Benchmark` |
| **log categories** (`logcat/`) | Drain tree, pending lines, counts | `Push`, `Flush`, snapshot, suppress | API | tree limits, tree grown anew at a restart | `Categorizer` |
| **notifier** (`alert/alert.go`) | `last`, `history`, counters under a mutex | `Notify`, `Deliver` | sinks (HTTP, may fail) | concurrent callers, times out of order, delivery after the unlock | `Notifier` |
| **incident grouping** (`correlate/correlate.go`) | log of changes | `Correlate`, `RecordChange` | tracker, topology | union-find must be the connected components | `Correlation` |
| **incident tracker** (`correlate/tracker.go`) | open and resolved incidents, sequence number, under a mutex | `Reconcile`, `Snapshot`, `Restore` | API and its save loop | stale views, merging and splitting incidents, id stability, restarts | `IncidentTracker` |
| **topology** (`topology/`, `api/traces.go`) | edges, span index, orphans | `Observe`, `Reaches`, `Snapshot` | correlation | spans in any order, bounded index | `Topology` |
| **watch loop** (`cmd/semeion/watch.go`) | `lastSeen`, engine, notifier, state file | `tick`, `save`, start, SIGTERM | source, engine, notifier, `store` | a crash between any two steps, late data, refetching | `WatchLoop` |
| **Elasticsearch source** (`datafeed/elasticsearch.go`) | none | `Fetch`, chunks, pages | watch, server | seams, paging, documents that arrive meanwhile | `Datafeed` |
| **live server** (`api/live.go`, `persist.go`, `incidents.go`) | live jobs (engine or categorizer, each with a lock), results per job, tracker, history | register, push (four protocols), flush, feedback, delete, incidents, save, restore | engine, notifier, tracker, stores | concurrent pushes to one job, publication after the unlock, deletion under a push, snapshots cut at several moments | `LiveServer` |
| **gateway** (`api/server.go`, `api/cluster.go`, `cluster/`) | job results, ring | the chain of handlers, forwarding | other nodes | one owner per job whatever node is asked, lost answers | `Gateway` |
| **server's stores** (`api/forecast_store.go`, `filters.go`, `ratelimit.go`) | forecasts, lists, buckets | one per request | server | limits, several locks in one request | `Resources` |
| **objectives** (`slo/`, `api/slo.go`) | samples per series | `append`, `Evaluate` | server | late samples, pruning, three locks in one request | `Slo` |
| **state files** (`store/`) | state file, versions, result log | save, load, prune, revert, append | watch, server, commands | a kill in mid-write, version numbers | `Versions` |
| numerical models (`hst`, `mp`, `model`, `sub`, `outlier`, `fuse`, `stats`, `prep`, `peer`, `shape`, ...) | floating-point state | learn and score | engine | numerical; no control to speak of | inputs of the others |
| decoding and output (`ingest`, `otlp`, other `datafeed`s, `explain`, `alert/sinks.go`, ...) | none | parse, format, call HTTP | all | I/O | none |

How they interact.  A source (`datafeed`, a push to the API, a file) yields
points; the engine buckets them (`BucketStream`), scores closed buckets per
series (`SeriesCache`, `Emission`) by models (`Baseline`, `Seasonal`) under the
job's rules (`JobSpec`); records go to the notifier, and on the server into
lists that are correlated (`Correlation`, `Topology`) and reconciled with the
open incidents (`IncidentTracker`).  The pipeline is a second, stateless-looking
detector: calibration, extreme values and the alarm policy over a window.

What makes each of them correct:

* *stream*: no point is lost, scored twice or scored in another bucket; buckets
  come back in order and once; a silent bucket is reported as an empty one; the
  stream and the batch agree; the points held are bounded.
* *series*: the tables stay bounded and hold the same series; an eviction takes
  the oldest; what is forgotten is not scored as a silent zero.
* *records*: feedback only silences; reading an open bucket teaches nothing; a
  rare value is reported; what is renormalized keeps its first score and its order.
* *models*: every value is learned once, by the model of its season; a restart
  is not noticed; a lasting change is accepted and nothing less; nothing given
  to a value depends on a later one.
* *alarm policy, pipeline*: an alarm is raised exactly when the policy says so;
  reports are inside the window, new, and cover what they stand for.
* *categories*: templates only become more general, a restart sends later lines
  where they would have gone, no category is new twice.
* *notifier*: alerts of a series are spaced and bounded whatever the order of
  arrival; every admitted alert is tried on every sink, in the end.
* *grouping, tracker*: an incident is a chain of linked symptoms; an id names one
  incident; events tell exactly what is open; an incident is opened only if
  nothing open was left for it, and escalates upwards.
* *watch*: nothing is learned twice or lost across crashes; what is saved as
  learned has been alerted.
* *server*: what a job's engine closes is published once, under its job; saves
  and restarts keep what they claim to; a job is where every node looks for it;
  limits hold however requests overlap; pruning never shows in a report.
* *files*: a version number names one state for ever, and a kill costs at most
  the write it interrupts.

## 2. Plan

The order was: the stream, the notifier, the tracker, the watch loop, the live
server, the series cache; then the components behind them, from the ones with
most state to the pure algorithms.  All of it exists.  What would come next:

1. Proofs for `Categorizer`, `Benchmark` and `Tail`, whose properties need lemmas
   about folds and recursive functions, as `BestBar` and `Roots` did.
2. A composition of `LiveServer` with `Gateway`: a live job is created on its
   owner, but the save loop and restarts are per node.
3. `Stale` and `GapFor` as reports of the engine, and its forecasts.

Abstract specifications: `PointLedger` for the stream.  Others are stated as
reference definitions beside the algorithm: "connected by a chain of links" for
the union-find, the twin that is never restarted, never read early or never
given feedback for `Baseline`, `Seasonal`, `Tail`, `Categorizer` and `Emission`,
the report over all samples ever sent for `Slo`, a single answer without pages
for `Datafeed`.

## 3. Modules

### BucketStream and PointLedger

`BucketStream` is `Engine.Push`, `Flush`, `closeBefore` and `fillGaps`
(`engine/engine.go:842-861`, `1236-1290`).  `pending`, `watermark`, `hasMark` and
the four counters are the engine's fields.  A call is one step because every
caller holds the lock of its engine throughout.  `Push` is three actions, one
per path of the code: `DropLate` (no entry, and behind the watermark), `Join`
and `Advance`, which computes the limit, closes what is due and adds the point
last, as the code does.  A point is the number of the call that pushed it; what
scoring computes is left out.  `Run` is the batch path as an operator to compare
with.  `arrived`, `results` and `flushedAt` are history variables.

`PointLedger` says what a caller relies on: a point is refused on arrival, or
held and reported with its whole bucket, oldest buckets first, and once points
have been reported no older one is taken in.  `BucketStream` implements it with
`held` the pending points, `reported` those in results and `refused` the ones in
neither place (`LedgerSpec`).

### Notifier

`admit` is one step, as it runs under the mutex, in three actions: `Mute`,
`Flap`, `Admit`.  `Send` is the call of one sink, which may fail, outside the
mutex; `Finish` counts.  `Deliver` is the path of incident events.  Alerts under
`MinScore` are left out: `admit` returns before touching anything.

### IncidentTracker

`Call` reads the clock before the mutex, `Begin` takes it, `Extend` and
`OpenNew` are the iterations of the first loop in the order of the stable sort,
`Resolve` those of the second in any order, `Finish` returns.  `bestMatch`, the
overlap coefficient (an exact fraction), the severity bands, the ids and
`trimResolved` are operators.  `Save` and `Restart` are the tracker's part of
the server's state file.  Ids rest on the wall clock, of which nothing is
assumed: `Tick` sets it to any second, back or forth, and a restart may be over
within the second.  `IdsUnique` therefore says exactly when an id is given twice
(section 6).  `keptTo` and `lostEvents` are history variables, of the events that the
state file reflects and those that went with a process.

### WatchLoop

`Clock` and `Document` are the environment: time, and data that reach the
source, possibly late.  `FetchFails`, `Fetch`, `Skip`, `Consume`, `EndPush`,
`Notify`, `EndNotify` and `Save` are the statements of `tick`, in order; `Stop`,
`Crash` and `Start` are the process.  The engine is an instance of
`BucketStream` without grace period, as `watch` runs it.

### LiveServer

One step per critical section: `Register`, `Delete` and `Analyze` (a batch job's
`Store`) under `s.mu`; `Push` and `Flush` under the lock of a job; `Publish` under
`s.mu`; `Correlate` under the read lock; `Reconcile` under the tracker's lock.
Between any two of a request's steps other requests run, and no step waits for a
lock while holding one that a push needs, so that sections can be atomic.  A
request keeps the handles it looked up, also when their name has been deleted or
taken by another registration.  `SnapshotTracker`, `SnapshotList`,
`SnapshotJob` and `WriteState` are `SaveState`, which cuts its snapshot at several
moments.  An engine is its watermark and its open buckets: what `Push` does
with a sorted batch is the closed form `After`; a logs job differs in that it
takes lines of any age.  `Exit` is a crash at any step, or the end of `Shutdown`.

### SeriesCache

`Open` is the start of `scoreBucket` and `Enter` that of a detector's loop, for a
count by a field with `zeroFillKnown`; `Score` is one iteration of the loop, for
any of the series left, since Go's maps yield them in any order; `NextDetector`
and `Close` end the loops.  `Touched`, `AfterTouch`, `Dropped`, `SeenAfter` and
`KnownAfter` are `touchSeries`, `evictSeries` and `dropSeries`.  `lru` is the table
of ticks as a sequence, since only their order matters; `models` stands for the
six maps of models and the adaptive scores, which are written and dropped by the
same key.  `scoreTemporal`, `scoreRatio`, `scoreMultivariate`, `scoreGeo`,
`scoreInfoContent`, `scoreTimeOf` and the pool of a population detector all
follow this loop; the second touch that `model` makes finds its key youngest and
changes nothing.  A population detector has its pools sorted, which is one of the
orders.  `Save` and `Restart` are what `Snapshot` and `Restore` keep: the models.
`MCSeriesCache` is a job with two counts and a mean, as in the nginx template of
`catalog/catalog.go`.  The rare tracker keeps a table and a bound of its own and
is not in the model, nor is the `""` series of an unsplit count.

### AlarmGuard and Pipeline

`AlarmGuard` is `Guard.Step` with its ring, the running count of set entries and
the counters of warm-up, quiet period, cooldown and penalty; `SolveThreshold` runs
the whole policy at each probe of its bisection, whose loop is the function
`search` of the probes made; `Candidates` and `Mask` group and cut.
`FiresAsPromised` restates the policy over the log of all verdicts, without any of
the counters.  `BudgetKept` excepts the answer 0: a policy takes a threshold of 0
for none, so its probe counts no alarm.

`Pipeline` is `Push` and `Scan` around `evaluate`: the window, `base`, the
refresh and the last start reported.  What the numerical stages yield (positions
over the threshold, effects, deviations, shapes) is an input of each evaluation.

### Calibration, Tail, Baseline, Seasonal

`Calibration` has the conformal p-values (`NewTrimmed`, `Mondrian`, sliding, block
maxima) as ranks, and the step-up procedures and `LORD` in exact fractions.  `Tail` is
SPOT and DSPOT with their ring and running sum; the fit is a constant operator.
`Baseline` is the model of one series, `Deviation`, `MultiDeviation` and `ScoreOf`
being constant operators (`ScoreOf` is given the side, as the score of no deviation is
0 only for a model that watches both); `Seasonal` is what chooses, among the models of
one or two periods, the one that scores and learns a value.  In these the state has a
twin that is saved and restored at any moment.

`Selections` has what several components do with a list: the entries at chosen
positions in their order (`Subsequence`: the values of a phase, the alarms long
enough, the fresh ones) and distinct values in ascending order (`Ascending`).  They
say what `SelectSeq` and `SetToSortSeq` say, and can be reasoned about.

### JobSpec and Emission

`JobSpec` has the calendars, rules, the validation and the dispatch of a job, and what
a bucket's value is (`Aggregate`, `RateOf`).  `ScoresOfAccepted` says which accepted
detectors have a value to score, and which never do.  `Emission` makes records of a
closed bucket: each kind of detector groups, judges, learns and emits in the order of
its function; a model is the sequence of values it was given and `Judge` its verdict.
Three engines run side by side: the one observed, one without feedback and one never
read in mid-bucket.  `MCEmission` has a detector of each kind, two of them rare
detectors of one field, and, for the violation run, a seasonal one.  Rare detectors of
one field have one id and so one table (`Sharing`): each of them counts every bucket
in it, so `RareNeverMissed` promises the last of them a value as long as the count of
buckets times their number is within the limit.

### Categorizer

Drain's tree as paths and clusters (`Descend`, `Similarity`, `MatchAt`), the
stream of category buckets (`CloseBefore`), the score of a bucket, suppression,
and `Export`/`LoadState`.  Masking is done before: a line is a sequence of tokens.

### Correlation, Topology, Ranking, Benchmark

`Correlation` computes the incidents of a set of symptoms and changes as the code
does, union by union, and ranks their members in exact integers.  `Topology` is
`Observe` with orphans and limits; the order in which Go's maps yield the orphans
is nondeterministic.  `Ranking` and `Benchmark` are pure: the state is the input
and what was computed from it.

`RankInfluencers` collects its totals in a map and hands them to `sort.Slice`, which
leaves any order in which none stands after one it outranks: `Influencers` is the
set of these.  The last tie is decided by the names, a field and its value written
one after the other and compared as text; `Spelled` is the rank of that text.
Names spelled alike (`ab` with `c`, `a` with `bc`) have no order in the code:
`RankingsSettled` says that two rankings agree at every place up to these, and the
run has two such names.

`EventScore` and `Audit` are of one series, which the code sums up and joins; a
series without a label counts for neither.  The audit's stable sort is by insertion,
as `sort.SliceStable` goes for lists this short, so that a NaN ends up where the
code leaves it.

### Gateway, Resources, Slo, Datafeed, Versions

`Gateway` runs a request through the handlers in the order of `Handler()` on the
node it lands on and, forwarded, on the owner; answers may be lost.  What is
promised of a job depends on the name its creation went by, and of results on where
they were made (`made`, `fed`).  `Resources`
has the forecasts, filters and limiter, with the unlocks inside a request as
steps.  `Slo` is the handler's three critical sections, pruning and `Evaluate`
in exact fractions.  `Datafeed` is one search request a step against a server
that keeps indexing; the server is external.  `Versions` writes in two steps, so
that a kill may leave a torn file, and is `SaveVersion`, `Revert`, pruning,
retention and the result log.

### MCServices and MCAnalysis

Components that share no state and do not call one another are checked in one
run each: `part` says which of them moves, the others stay where they start.
The states of such a run are the sum of the components' states, each explored to
its own bounds, and an invariant is about the component that moves.  A proof about
a component of `MCServices` or `MCAnalysis` therefore has two parts: its own
invariant, kept by its own steps, and that the steps of the others leave its
variables alone (`Steps`, `AnalysisSteps`).

## 4. Runs

| run | asks | bounds |
|---|---|---|
| `stream_default` | is every point accounted for; are gaps reported and counted; does the stream agree with the batch | 6 buckets, 6 calls, runs of more than 4 buckets too long to fill |
| `stream_grace` | order of results, refinement of `PointLedger` | span 2, grace 3 (not a multiple of the span), 5 buckets, 6 calls |
| `notifier` | spacing, flap bound, counting, and that every admitted alert is tried on every sink | 2 goroutines, 2 sinks, 1 series, 4 times with unequal distances, 3 alerts |
| `server` | publication, correlation and restart under concurrent requests | 2 requests at once, a metric and a logs job, 2 registrations, 2 calls, 1 restart |
| `cache` | the bound and agreement of the engine's tables, what is evicted, what the counts know | 5 keys, room for 3 (2 stay at an eviction), 2 known series, 3 buckets, which after the restart may come again, 1 restart |
| `services` | the ten components of `MCServices`, one property each but for the tracker's four | below |
| `analysis` | the twelve components of `MCAnalysis` | below |
| `tracker_quiet` | *violation*: an incident opened for a fresh symptom and quiet since is matched by its old symptoms again, and stays open | 1 goroutine |
| `watch_series` | *violation*: only one of several series is pushed | 2 series |
| `cache_shared` | *violation*: a count scores the other count's series as zero | as `cache` |
| `engine_skip` | *violation*: a detector with seasons learns what a rule skips | 4 buckets |
| `datafeed_pages` | *violation*: a page without readings ends the paging | 2 documents |

In `services`: the tracker has 2 goroutines, 7 views of 0-2 incidents, 3 calls, 3
seconds that the clock may take in any order, and 1 restart; `Versions` 2 states, 2
versions kept, numbers up to 4, 2 kills and 3 records; `Topology` 5 deliveries of a
trace over three services, with an index of 3; `Correlation` 4 of 6 symptoms, 2
changes; `Gateway` 2 nodes that own a job each, 3 requests; `Resources` 3 posts, puts
or instants against limits of 1; `Slo` 3 posts, 2 samples kept, of times within and
beyond the window; `Datafeed` 2 documents, 2 terms, chunks and pages of one bucket.

In `analysis`: `WatchLoop` has 4 buckets, delay 1, lookback 2, 2 crashes; `AlarmGuard`
6 scores of three values or NaN (the ring wraps twice) and recorded windows of 4;
`Pipeline` 6 observations through a window of 4; `Benchmark` series of 4 points,
audits of 1 entry and NAB series of 6 times; `Calibration` samples of 4, 5 online
tests; `Ranking` 3 examples, and influencers of which two names are spelled alike;
`Baseline` 7 values through a window of 6, a drift being 2, with a warm-up of 2 or
none (3 by default, for a restored one); `Seasonal` 10 values, first bucket before
1970, three answers of the provider; `Tail` 5 calibration values and 4 more; `JobSpec`
windows between eight limits, in weeks of days of 2 s; `Emission` 4 buckets, two rare
detectors that share a table of 2 values, a warm-up of 3 and a limit of 2 counted
buckets; `Categorizer` 4 lines of 3, a tree of one child per node, 1 restart.

Why the bounds are enough.  The stream's behaviours depend on the order of a
point's bucket, the watermark, the limit and the buckets held; six calls reach
late points before and behind the limit, two gaps, and a flush followed by both.
Two goroutines bring any inversion of two alerts, and three alerts exceed a
threshold of two.  Three reconciliations open, take over and escalate or resolve;
the views contain two incidents competing for one, and a stale view may be
reconciled after a newer one.  Two crashes let a state file be restored twice.
In `server` one call closes two buckets and fills a list (`MaxResults` is 2), a
second one trims it or races with it, and a registration, deletion or batch job
may fall between any two steps; a save that no restart reads is not started.
In `cache` one bucket may hold more series than fit, so that a loop evicts what
it has still to score and what another detector has scored, the known series
exceed their cap, and a restart leaves models that the other tables do not know.
In `services` and `analysis` each limit of the code (ring, window, index, cap,
page, table) is set so low that a behaviour of the run passes it at least once,
and goes on after it; every property there has a fault of the code, a plausible
slip at one definition, that the same run shows to break it.

Symmetry is used in `server` only, over requests; the run has no liveness
property.  Deadlock is not checked in any run: each behaviour ends at the bound
on calls, where the program would wait for the next one.

Fairness.  Only `notifier` has a liveness property.  `FairSpec` assumes weak
fairness of each goroutine's `Step` (a sink's return, the end of the loop): a
sink is an HTTP call of a client with a timeout, so it always returns.  Nothing
is assumed of `Notify` and `Deliver`; alerts need not keep coming.  The other
components only ever answer calls: what must happen "in the end" there is
stated at the end of a call, as a safety property.

Violation runs check what a document of the repository says and the code does
not do; `PROJECT.json` quotes the lines under "findings".

## 5. Proofs

For all values of the constants that satisfy the named assumptions:

* `BucketStream_proofs`: `TypeCorrect`, `ConservationCorrect` (every point is in
  one place), `WindowCorrect`, `OrderCorrect`, `ReopenCorrect` and `LedgerCorrect`
  (refinement).  `TypeOK` is not inductive by itself: `TypeInv` adds that no held
  bucket is newer than the watermark, and none is held before the first point.
  `ConsInv` adds to `Conservation` that calls to come have no point yet; the
  count of dropped points then follows as a drop adds one element to `Lost` and a
  report none.  The order needs the window `OrderInv` (the open buckets lie
  between the grace limit and the watermark, nothing reported is newer than an
  open one); from it every closed list starts at or after all that was reported.
  The four order theorems assume `OrderSafe`: with both gap filling and a grace
  period of a bucket or more, every gap of the period can be filled.  Without
  it a gap too long to fill leaves buckets pending behind reported ones.
  `GapsCorrect` (no silent hole, and the counter tells the empty results) and
  `BatchCorrect` (a stream in order closes what the batch path computes) are for
  `Grace = 0`, the only value the repository uses: with a grace period the buckets
  behind the first one due are not filled.  `GapsCorrect` also assumes
  `MaxGapFill > 1` (the code's limit is a million).  `GapInv` says what follows a
  reported bucket (the next one reported, a flush, or the watermark's open
  bucket), `StreamInv` that all but the open bucket of a stream equals the batch.
* `Notifier_proofs`: `TypeCorrect`, `DedupCorrect`, `FlapCorrect` and
  `DeliveriesCorrect`.  `AdmitInv`
  adds that the dedup mark is the latest time of its series, at or after every
  admitted one, and that histories are finite and hold the admitted times of
  the window that a later alert may still share with them.  `FlapCorrect` assumes
  `Dedup > 0`: with 0, `admit` returns before its flap check.  `CountInv` follows
  each alert through the loop over the sinks: those before the next one were
  called, `delivered` says that one took it, and `sent` counts the alerts that
  some sink took.  Alerts can be told apart as two admitted ones of a key are
  `Dedup` apart, and a key is no incident (`KeysAssumption`).

* `SeriesCache_proofs`: `CacheAlwaysBounded`, `KnownAlwaysResident`,
  `AlwaysEvictsOldest` and `TypeCorrect`.  The inductive invariant `IInv` adds to
  the agreement of the tables (`Table`) that the sightings grow along the LRU
  order (`Recency`), which makes the evicted prefix the oldest, and that while a
  loop runs each known series has a model or is still to be scored
  (`KnownOrDue`).  It needs `MaxSeries` of at least 2: with 1, nothing stays at an
  eviction, and a series scored last would have no model.

* `IncidentTracker_proofs`: every property of the tracker, as `TypeCorrect`,
  `IdsAlwaysUnique`, `OneRecordCorrect`, `ActivityAlwaysAdvances`,
  `EventsAlwaysTellOpen`, `EscalatesAlwaysUpwards` and `OpensAlwaysUnmatched`.
  `Types` adds to `TypeOK` that every id in a table has a sequence number the
  table's counter has passed, in the state file as in memory: a new id is then
  in neither, and `OneRecord` follows.  That alone does not make ids unique, as a
  restart sets the counter back; `IdNumbers` adds that the counter, in memory as in
  the file, has passed the number of every incident opened that it reflects, so an id
  given again is that of an incident that was lost, at the second the id carries.
  `Told` relates
  the bands told to the peak held.  `Unmatched` is `OpensOnlyUnmatched` in the
  middle of a call; it rests on `BestMatchExists` (comparing overlaps by cross
  multiplication, and keys, is a total order, so a finite set of matches has a
  best one) and `BestMatchOne`.  `ViewsAssumption` is that entity sets are finite
  and times and scores are numbers.

* `MCAnalysis_proofs` has eight of its components.

  `AlarmsAsPromised` is `FiresAsPromised`.  The promise
  speaks of the whole log of verdicts; `GuardInv` says what each part of the guard
  knows of it: the verdict of k scores ago is k places behind in the ring
  (`RingHolds`; `PlaceStays` takes it through the wrap-around), the count is the
  number of set verdicts in the last `Of` (`HotCounts`), `lastFire` is the last
  alarm (`LastKnown`) and `quiet` what is left of its refractory period
  (`QuietLeft`).  `NewPromise` then reads the decision of `Step` off these.
  `PoliciesAssumption` leaves thresholds, cooldowns and suppression windows
  arbitrary; only waiting times must not be negative.

  `AlarmsCorrect` (`AlarmsStand`) is the rest of the policy, and the pipeline that
  uses it.  A policy started afresh on a recorded window is the streaming one with
  no verdicts yet, so that `FiresAsPromised` holds of each verdict of `Apply`
  (`ApplyFacts`).  `RegionsHold` is the invariant of the loop of `Candidates`: the
  regions so far are apart, begin and end over the threshold, hold no silence as
  long as the gap, peak at their first maximum, and miss no score over it
  (`FoldExists` and `StepByStep` take it through the fold).  For the budget,
  `ProbeKeeps` is the invariant of the bisection (`Searches`): the probes stay
  within the scores and the answer so far, when there is one, fits.  Alarms need
  not become fewer as the threshold rises (a quiet period may end on another score),
  so that a lower threshold might fit as well is not excluded: what is promised is
  that the answer fits.  `SilentPolicy`: +Inf, the answer when none does, raises no
  alarm.  For the pipeline, `PipeHolds`
  relates `base`, the window and the last start reported to what was observed, and
  `AlarmsIn` the list of reports to all of these; `LocateIs` says where a shifted
  region lies and `EvaluateIs` that regions only ever move within the window.
  `PipelineAssumption`: sizes are natural numbers, and the refresh is positive.

  `JobsCorrect` (`JobsStand`): that a recurring window covers a time exactly when
  the window moved by whole periods does rests on `OffsetIs` (the code's difference
  of two remainders is the remainder of the difference) and `RemainderOne`
  (remainders a multiple of the divisor apart are the same); `TimesBound` says that
  no more periods than seconds lie between.  `JobTells` takes an accepted detector
  to the function it is dispatched to and to the value of its bucket
  (`ScoresOfAccepted`): there is none exactly for the two kinds of detector that
  validation lets through and nothing scores.

  `BaselinesCorrect` (`BaselinesTell`), for a baseline: `RunHolds` says what the run
  of strong deviations is (the last `run` of them, of one sign, and how long the
  window can be if the one before was of that sign too), so that a run of twice
  `DriftBuckets` leaves no value of the old level but those of the run.
  `BaselineAssumption`: a deviation from numbers is a number, and the default warm-up
  is positive; of scores nothing is assumed.  That a restart is not noticed is for
  models with a warm-up, as all of the repository's have: a state with none is
  restored with the default.  For a model with seasons: `Sound` says that the models
  in force are those of `told` (`PhasesGrow`: adding a value to the history adds it to
  the phase it falls in, and to no other; `SubsequenceGrows`), `Twins` that a model
  and one restored from it differ in what the last value left only, which `Agree`
  settles with the next value (`TwinsObserve`), and `Tried`, `Fits` and `Held` follow
  the counters of detection and the history kept.  `SeasonalAssumption`: limits are
  natural numbers, buckets and periods found are numbers.

  `LearningCorrect` (`LearningUndisturbed`) compares three engines.  `Alike` engines
  have learned the same and have the same largest score so far; `ScoredAs` says
  that a detector leaves them so, and that of the records it offers each engine
  keeps those its own reports let pass (`SeriesScored`, `RareScored`).  `ScanAlike`
  takes that through the detectors of a bucket, from the largest score that
  `scoreBucket` resets: an engine that was read and one that was not are then the
  same again.  `LearningInv` adds to the property that the records at hand are
  those of the reports as they were when the bucket closed.  Judges, calendars,
  rules, quantiles and the SPOT level are arbitrary; `PenaltyAssumption`: the
  penalty is a natural number.

  `RareCorrect` (`RareNeverMissed`, the part of `RecordsTell` about rare values):
  `RareInv` says that a table of seen values counts no bucket more often than it has
  detectors and none that the log does not hold (`TrackedCounts`, whatever
  `evictCommon` dropped), and that the last bucket's rare values were told.  In a
  bucket a table is written by the detectors that share it and by no other: what the
  last of them offered is still there when the bucket is done (`ScanRare`); an engine
  with reports keeps the same table, as it is `Alike`.  Nothing is assumed of the ids
  of rare detectors, nor of what the models say; `RecordsAssumption`: the limit of
  buckets is a natural number.  The other part of `RecordsTell`, about finished
  results (`RenormalizedInOrder`), is checked by TLC only: that records are finitely
  many and come with a severity is a fact about the models, which are inputs here.

  `RankingsCorrect` (`RankingsTell`): `RankInv` says of each ranking that it is what
  its function returns, and of a model that no weight has the wrong sign, whatever was
  learned or loaded (`LearnKeeps`).  A score is a sum over the features, and one of
  them raised changes it by that feature's part (`SumChanges`, `RaisedTells`).
  `BestBarTells` goes through the examples with the best cut so far.  Records in
  another order mention the same names: a mention moves with its record, and a sum is
  the same over renamed terms (`SumRenamed`, `TurnedTally`).  So the totals are the
  same set.  `Outranks` is a weak order of it (`WeakOrder`), and two listings in which
  no entry stands after one it outranks (`RankedBy`) have tied entries at every place,
  as there would be one entry too many otherwise (`RankedAlike`); tied are names that
  are spelled alike, of one total and one greatest score.  `PlacedIs`, `OrderIs` and
  `SortedOnce` give candidates one listing: an insertion keeps it sorted, and labels
  are distinct.

  `LearnedCorrect`, `LossCorrect` and `WatchCorrect` are about the watch loop
  (`WatchStands`: types, and that no bucket saved as learned was withheld from the
  notifier).  `LearnInv`: the models know only buckets before their watermark, in
  memory as in the file.  `LostInv` adds to `NothingLost` what each phase of a tick
  guarantees: the models know all taken points before the watermark
  (`PastLearned`, `PastSaved`), and what a crash took out of memory is still to be
  pushed by the next fetch (`StillToPush`).  `PeriodAssumption`: buckets are
  numbered without gaps.

* `LiveServer_proofs`: `ListsCorrect`, `CorrelatedCorrect` and `RepeatCorrect`.
  `ShapeInv` is what the handlers rely on: a name has one live handle, registered
  under it, a list is within its limit, each local of a request belongs to
  buckets that engines returned.  `ToldInv` relates steps of one request: what it
  published is in the view it takes afterwards, unless the list gave it up in
  between; `CorrelatedCorrect` follows when the request ends.  For a restart,
  `PastInv` says of the process, of the save in progress and of the file that
  each engine's watermark is past all that the tracker beside it knows.  It holds
  since `SaveState` copies the tracker first; in the other order a request between
  the two copies breaks it.  `TimesAssumption`: batches are finite and not empty.

* `MCServices_proofs` has all seven of its components.

  `GatewayCorrect` (`GatewayRoutes`): `OwnersHold` says that a job is on the node the
  ring gives the name to that its creation went by, and results that the job's owner
  made are on the owner; `HopOf` says that a request forwarded once is on the owner of
  its key, whatever answers were lost.  A member leaving moves only its own positions
  (`LeavingMovesOwn`).  `RingAssumption`: each member has a position.

  `StoreCorrect` (`StoreStands`): a reported number is listed with its state, or a
  greater one is, so the next number is new (`NumbersInv`); the file is only ever
  replaced by the state that the command holds (`StateInv`); each missing record
  and each unfinished line is owed to a crash of its own (`LogInv`); and each
  crash leaves at most one version too many (`CountInv`).

  `ResourcesCorrect` (`ResourcesKept`): forecasts (`ForecastInv`), filter lists and
  the copies jobs took of them (`ListsInv`, `CopiesInv`; `NormalizedSorted`), and
  the token bucket (`LimiterInv`: tokens held and requests passed are at most the
  burst and what time has added).

  `ReportsCorrect` (`ReportsStand`): `SeriesInv` says that a sample was dropped only
  if it lies before twice the narrowest window ever set, back from the latest
  sample; a window of a report never reaches there, and reports depend only on
  samples in their windows (`SameReport`).  That more errors never make a report
  better (`WorseReport`) compares fractions by cross multiplication.  Totals are
  folds over sets; that one does not depend on the order in which it takes
  the elements is `SumExists` and `SumTakes`, by induction over the cardinality
  with a set of numbers in place of a predicate.  `SloAssumption`: objectives lie
  strictly between 0 and 1, windows and shares are positive.

  `TopologyCorrect` (`TopologyTells`): `Standing` says that each span that waits is
  a delivery of its own (`WaitsOn`), that the calls of an edge are those told by the
  deliveries that do not wait (`EdgesCount`: all of them in a graph that lost
  nothing, never more in any), and that there each of these knows its parent, so
  that a later delivery tells no call that was passed over (`CountLater`).  The
  calls of spans adopted at once (`KidsTold`) and the levels of a search
  (`LevelsExist`, `SeenFrom`) are recursive functions, taken step by step from the
  least counterexample.  `SpansAssumption`: ids are not empty, as `Observe` sees to,
  and name one span; `SizesAssumption`: limits are natural numbers.

  `IncidentsCorrect` (`IncidentsStand`): the incidents are those of the items last
  correlated, which are sorted and whose changes have no score (`CorrInv`).  Each
  union keeps the classes inside any equivalence that has the linked pairs
  (`Inside`) and parts none (`Keeps`), and a finished round has joined its item with
  all it is linked with, so the classes are the least such equivalence
  (`RootsAreChains`); chains of at most as many pairs as there are items are one
  too, as what they reach grows with each pair or has come to an end (`FromMore`).
  For the origin, a confidence is split into its five parts and their bounds
  (`PartsOf`): an early change has 55 percent at least where a symptom has 45 at
  most, and a late change and the strongest first symptom meet at 35, where time
  decides.  `CorrelationAssumption`: scores are not negative and labels finitely many.

  `FetchesCorrect` (`FetchesCover`): `FeedInv` says what the points of a running or
  finished fetch come to.  Those of a plain count are, bucket by bucket, the
  documents from the start of the window to where the fetch is, and once more those
  on the seams it has passed (`CountsTold`): a histogram has one point for each
  bucket (`HistogramIs`), two chunks share exactly the instant where they meet
  (`ChunkTells`), and seams lie a whole chunk apart (`SeamsApart`).  Those of a split
  fetch are in order, none beyond the after key, and every bucket up to that key has
  its point (`InOrder`, `ReadTo`, `PageKeeps`), as a page is the first of the keys
  that are left, by rank (`KeysRank`, `PageIs`).  A document indexed meanwhile ends
  what is said of counts, never the order.  `FeedAssumption`: span, chunk, page size
  and cap are positive; times, terms and readings are natural numbers, terms in the
  order in which the server sorts them.

`Selections_proofs` holds the lemmas that several of these rest on, about least
numbers, parts of a list, folds, iterations, sums and sorted listings; other facts
about `Max`, `Min` and the rounding of gaps are lemmas of the proof modules.  Types,
the stream's window, one record per id and escalation upwards are proved and have no
run of their own any more.  Only model-checked are:

* liveness (`notifier`), as fairness and `ENABLED` are beyond the prover;
* in `analysis`, `MeasuresTell`, `ErrorsControlled`, `TemplatesStand` and, of
  `RecordsTell`, `RenormalizedInOrder`.  The measures, the calibration, the
  categorizer and the tails compute by recursive functions, folds over sequences,
  `SelectSeq` and sorting.  The induction theorems that would say what such a
  definition yields for every input take an operator as a parameter, which the
  installed provers cannot instantiate.  There is a way around, by a set of numbers in
  place of the operator (`SumExists`, `StepByStep`), by the least counterexample
  (`LeastNumber`) or by ranks in place of a sort (`KeysRank`), at the price of one
  such proof for each definition.

## 6. What the models leave out

* Arithmetic: that a value deviates is a constant operator or an input.  A
  numerical slip inside `stats`, `hst`, `mp`, `sub`, `model`, `outlier`, `fuse`,
  `shape`, `prep`, `peer` or `selector` would not be seen here.
* Decoding, formatting, the UI and HTTP itself.  A request that pushes one metric
  after the other (remote write) is several requests of one caller.
* The history files and the events of `reconcile` in `LiveServer`: nothing in the
  server reads them back.
* Of the engine: `Stale` and `GapFor` as reports, forecasts, `summary_count_field`.
* Of `evt`: the fit itself, POT, the two-sided and logarithmic forms.  Of
  `benchmark`: readers of corpora and the volumes under surfaces.
* `autopilot`, `catalog`, `explain`, `otlp`, `ingest`, the datafeeds other than
  Elasticsearch and the API's stateless endpoints: one pass from input to
  output, without state or interaction.

Seen while modelling, and not a run:

*Stream and engine*

* With a grace period, buckets behind the first one due are never filled, and a
  late point whose bucket has no entry is dropped within the period; nothing in
  the repository sets `Engine.Grace`.
* The newest bucket of a fetch is pushed once, with what it holds by then; later
  documents of that bucket are skipped by `lastSeen` (`README.md:276`).
* `countSeries` and `lastSeen` are not in the snapshot: after a restart a silent
  host is neither scored as zero nor stale until it reports again.  Feedback and
  adaptive windows are not in it either.
* With `MaxSeries = 1` an eviction drops the key it makes room for.  When one
  bucket holds more series than the limit, a series is evicted by the loop that
  has still to score it and comes back without its baseline.
* A common value that `evictCommon` has dropped comes back as a rare one.
* `Validate` accepts two rare detectors of one field, and `Detector.ID` names them
  alike (`jobspec/job.go:258`): they share a table, in which each of them counts every
  bucket.  The warm-up is over in half the buckets, and a value is no longer
  reported when it is seen in half as many as `rareMaxBuckets`.
* A bucket in a calendar's window feeds 0 to the automatic threshold.
* `parseJob` drops `auto_threshold`, as `CHANGELOG.md:430` says.
* An unknown function name and a rate with an over field pass `Validate`, and neither
  is ever scored: `ScoresOfAccepted` has them as its two exceptions.

*Models and alarms*

* A model that watches one side scores the upper tail beyond z, which is half of the
  distribution at z = 0 (`detect/model.go:73-90`, `detect/score.go:14`): a value that
  does not deviate, or deviates to the other side, scores a little above 0, and a run
  of such values may raise the multi-bucket flag while the score still ramps up.
* `ModelFromState` takes a warm-up of 0 for one that was not saved and sets 20
  (`detect/model.go:337`); `NewModelWarmup` would keep it.  Its callers pass 4 or 20.
* A NaN among or after DSPOT's first values makes its running sum NaN for good and
  the detector silent (`evt/spot.go:113`); its snapshot then fails to encode.
* `SeasonalModel` does not restore which model was told last: `Bounds` right after
  a restart is 0 until a value is observed.
* A budget that can only be met by a threshold of 0 is not met: `count(0)` resolves
  to "never" (`CHANGELOG.md:387`).
* Two alarms of one `Push` may share a start (`pipeline_test.go:102`).
* `AUCPR` does not end on a NaN score (`benchmark/pointadjust.go:164`).
* `EventScore` and `Audit` pass over a series without a label: an alarm raised there
  is counted as false by neither, though `Confusion` counts it.  An audit lists 50
  regions unless asked for more, and a NaN score disturbs its order.
* The comment at `rank.go:157` says the cut keeps the most real ones; it keeps the
  most of all.

*Logs*

* A late line reopens a closed bucket of a logs job, which is then scored and
  reported again (`categorize.go:93`; `CHANGELOG.md:802` has it for metrics).
* A full categorizer grows nodes for lines it drops; a restart forgets them.

*Alerts and incidents*

* `admit` marks an alert before delivery: when all sinks fail it is gone, and its
  repetitions are muted for the window.  With `Dedup = 0` it returns before the
  flap check.
* `NewNotifier`'s limits (5 alerts in 2 hours, 30 minutes apart) can never be
  reached: four alerts fit into the flap window.
* A restart of `watch` builds a notifier with an empty dedup map: a series may be
  alerted again within its window.
* Equal overlaps in the tracker are decided in list order, so a newer incident may
  take over the id of a persistent one.
* Incident IDs of `Correlate` are a start and the names of jobs: two may be equal.
* `Restore` sets the tracker's sequence number back (`correlate/tracker.go:228`), and
  an id is the second and that number: after a crash, a restart within the second, or
  on a clock set back, gives the id of an incident that no state file held to another
  one.  `IdsUnique` says that this is the only case.

*Server*

* On SIGTERM the server saves before it drains its requests, so the incidents
  those open are not in the state file; points held in open buckets never are.
* A push that holds the handle of a job whose name was registered again publishes
  into the new job's list.
* Deleting a live job leaves its list of results, and adding a list checks no
  limit: jobs registered, fed and deleted under new names leave one list each.
* "Any node can receive any request" (`CHANGELOG.md:493`) holds for what names a
  job; lists of all jobs answer for the node asked.  `/v1/analyze` is served by the
  node it lands on and stores the results there (`api/server.go:276`), while `GET
  /v1/results/` is sent on to the job's owner (`api/cluster.go:33`), who may answer 404.
* A job is created on the owner of the outer name of the body (`api/cluster.go:60`)
  and live under its own name (`api/live.go:78`): when they differ and have two owners,
  requests for the job go to a node that does not hold it.
* Windows without events make an objective's burn rate NaN (`slo/slo.go:81-88`).
* The Elasticsearch source counts a document at a chunk's seam twice, and a bucket
  that a seam cuts comes as two points; the branch for a terms size is never
  taken.
