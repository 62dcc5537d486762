----------------------------- MODULE WatchLoop -----------------------------
(***************************************************************************)
(* The command `watch`: a loop that polls a source, pushes what is new into*)
(* an engine, alerts on the buckets that closed and saves the engine.  It  *)
(* composes the engine's stream (BucketStream), the notifier's dedup map   *)
(* and the state file with a source whose data keep arriving and a process *)
(* that may crash between any two steps and be started again.              *)
(*                                                                         *)
(* A bucket is a tick of the clock.  The source holds, for each bucket, a  *)
(* number of documents per series; a point is what one series says of one  *)
(* bucket when it is fetched.  Every bucket scored is anomalous here, under*)
(* one alert key: the loop never asks how a score came about.              *)
(* The notifier's flap check is left out: buildNotifier keeps NewNotifier's*)
(* limits, under which it only speaks for windows much longer than these.  *)
(***************************************************************************)
EXTENDS Integers, FiniteSets

CONSTANTS
  BucketTimes,  \* the bucket starts 0, 1, ..., the engine's and the clock's
  MaxCalls,     \* bound: points pushed in a behaviour
  Series,       \* the series of the query
  MaxDocs,      \* documents that each series ends up with in a bucket
  MaxDelay,     \* how many buckets late a document may reach the source
  Lookback,     \* w.lookback, in buckets
  Dedup,        \* the notifier's dedup window, in buckets
  MaxCrashes    \* bound: crashes in a behaviour

ASSUME PeriodAssumption ==
  \E end \in BucketTimes \cap Nat : BucketTimes = 0..end
ASSUME LimitsAssumption ==
  /\ MaxDocs \in Nat \ {0} /\ MaxDelay \in Nat
  /\ Lookback \in Nat /\ Dedup \in Nat
ASSUME BoundsAssumption == MaxCalls \in Nat /\ MaxCrashes \in Nat

VARIABLES
  \* the engine
  pending, watermark, hasMark, stats, calls, arrived, results, flushedAt,
  learned,   \* the buckets its models have learned from, with their points
  \* the source
  now,       \* the wall clock
  world,     \* documents per bucket (and series) that have arrived
  \* the watcher
  phase,     \* where the tick is; "down" is no process
  ticked,    \* the ticker has fired for this `now`
  lastSeen,  \* w.lastSeen, or Never
  todo,      \* points fetched and not yet looked at
  found,     \* results of this tick: the buckets to alert on
  last,      \* the notifier's n.last of the key, or Never
  disk,      \* the state file
  crashes,   \* number of crashes so far
  \* history
  content,   \* the point pushed by each call
  taken,     \* buckets of the points that the engine did not drop as late
  offered,   \* buckets that some Notify was called with
  missed     \* a restart came too late to fetch again what it had not saved

engine == <<pending, watermark, hasMark, stats, calls, arrived, results, flushedAt>>
source == <<now, world>>
history == <<content, taken, offered, missed>>
watcher == <<phase, ticked, lastSeen, todo, found, last>>
vars == <<engine, learned, source, watcher, disk, crashes, history>>

Never == -1
NoFile == [hasMark |-> FALSE, watermark |-> 0, learned |-> {}]

Engine == INSTANCE BucketStream WITH
  Span <- 1, Grace <- 0, GapFill <- TRUE, MaxGapFill <- Cardinality(BucketTimes)

-----------------------------------------------------------------------------
(* The source and the clock.                                               *)

Clock ==
  /\ now + 1 \in BucketTimes
  /\ now' = now + 1
  /\ ticked' = FALSE
  /\ UNCHANGED <<engine, learned, world, phase, lastSeen, todo, found, last,
                 disk, crashes, history>>

\* Another document of each series arrives, for a bucket that is current or
\* not more than MaxDelay old.
Document(t) ==
  /\ t \in now - MaxDelay..now
  /\ world[t] < MaxDocs
  /\ world' = [world EXCEPT ![t] = @ + 1]
  /\ UNCHANGED <<engine, learned, now, watcher, disk, crashes, history>>

-----------------------------------------------------------------------------
(* tick.                                                                   *)

Point(t, s) == [time |-> t, series |-> s, docs |-> world[t]]

Window == {t \in BucketTimes : now - Lookback <= t /\ t <= now /\ world[t] > 0}

\* src.Fetch failed: the tick is over.
FetchFails ==
  /\ phase = "idle" /\ ~ticked
  /\ ticked' = TRUE
  /\ UNCHANGED <<engine, learned, source, phase, lastSeen, todo, found, last,
                 disk, crashes, history>>

LearnedTimes == {r.time : r \in learned}

Fetch ==
  /\ phase = "idle" /\ ~ticked
  /\ ticked' = TRUE
  /\ todo' = {Point(t, s) : t \in Window, s \in Series}
  /\ phase' = "push"
  /\ missed' = (missed \/
       (lastSeen = Never /\ \E t \in taken \ LearnedTimes : t < now - Lookback))
  /\ UNCHANGED <<engine, learned, source, lastSeen, found, last, disk, crashes,
                 content, taken, offered>>

\* The points in order of time; sort.Slice leaves equal times in any order.
Turn(p) ==
  /\ phase \in {"push", "fresh"}
  /\ p \in todo /\ \A q \in todo : p.time <= q.time

\* !p.Time.After(w.lastSeen): an earlier tick has had it.
Seen(p) == lastSeen # Never /\ p.time <= lastSeen

Skip(p) ==
  /\ Turn(p) /\ Seen(p)
  /\ todo' = todo \ {p}
  /\ UNCHANGED <<engine, learned, source, phase, ticked, lastSeen, found, last,
                 disk, crashes, history>>

\* w.lastSeen = p.Time
MarkSeen(p) == p.time

\* A new point goes into the engine; what it closes is learned and collected.
Consume(p) ==
  /\ Turn(p) /\ ~Seen(p)
  /\ todo' = todo \ {p}
  /\ phase' = "fresh"
  /\ lastSeen' = MarkSeen(p)
  /\ Engine!Push(p.time)
  /\ content' = [content EXCEPT ![calls + 1] = p]
  /\ taken' = IF stats'.dropped > stats.dropped THEN taken ELSE taken \cup {p.time}
  /\ learned' = learned \cup (results' \ results)
  /\ found' = found \cup {r.time : r \in results' \ results}
  /\ UNCHANGED <<source, ticked, last, disk, crashes, offered, missed>>

\* Nothing new: the tick ends here.  Otherwise notify, then save.
PushedSaveFirst == IF phase = "fresh" THEN "save" ELSE "idle"   \* faulty variant

Pushed == IF phase = "fresh" THEN "notify" ELSE "idle"

EndPush ==
  /\ phase \in {"push", "fresh"} /\ todo = {}
  /\ phase' = Pushed
  /\ UNCHANGED <<engine, learned, source, ticked, lastSeen, todo, found, last,
                 disk, crashes, history>>

\* One bucket of w.notifier.Notify: muted, or marked and sent; whether the sinks
\* take it makes no difference to the loop.
Deduped(t) == Dedup > 0 /\ last # Never /\ t - last < Dedup

Notify(t) ==
  /\ phase = "notify"
  /\ t \in found /\ \A u \in found : t <= u
  /\ found' = found \ {t}
  /\ offered' = offered \cup {t}
  /\ last' = IF Deduped(t) THEN last ELSE t
  /\ UNCHANGED <<engine, learned, source, phase, ticked, lastSeen, todo, disk,
                 crashes, content, taken, missed>>

EndNotify ==
  /\ phase = "notify" /\ found = {}
  /\ phase' = "save"
  /\ UNCHANGED <<engine, learned, source, ticked, lastSeen, todo, found, last,
                 disk, crashes, history>>

SnapshotNoMark ==   \* faulty variant: the mark is left out
  [hasMark |-> FALSE, watermark |-> 0, learned |-> learned]

\* eng.Snapshot(): the mark and the models, not the pending points.
Snapshot == [hasMark |-> hasMark, watermark |-> watermark, learned |-> learned]

\* save(): a temporary file is renamed, so the state is the old or the new one.
Save ==
  /\ phase = "save"
  /\ phase' = "idle"
  /\ \/ disk' = Snapshot
     \/ UNCHANGED disk
  /\ UNCHANGED <<engine, learned, source, ticked, lastSeen, todo, found, last,
                 crashes, history>>

-----------------------------------------------------------------------------
(* The process.                                                            *)

\* SIGTERM between two ticks: the state is saved a last time.
Stop ==
  /\ phase = "idle" /\ crashes < MaxCrashes
  /\ disk' = Snapshot
  /\ phase' = "down"
  /\ crashes' = crashes + 1
  /\ UNCHANGED <<engine, learned, source, ticked, lastSeen, todo, found, last, history>>

Crash ==
  /\ phase # "down" /\ crashes < MaxCrashes
  /\ phase' = "down"
  /\ crashes' = crashes + 1
  /\ UNCHANGED <<engine, learned, source, ticked, lastSeen, todo, found, last,
                 disk, history>>

\* A new watcher has seen nothing, so that it fetches its lookback again.
FirstSeenMark == IF disk.hasMark THEN disk.watermark ELSE Never   \* faulty variant

FirstSeen == Never

\* runWatch: eng.Restore on a new engine, a new notifier, and a first tick.
Start ==
  /\ phase = "down"
  /\ phase' = "idle"
  /\ pending' = [t \in BucketTimes |-> {}]
  /\ watermark' = disk.watermark /\ hasMark' = disk.hasMark
  /\ stats' = [dropped |-> 0, accepted |-> 0, filled |-> 0, skipped |-> 0]
  /\ learned' = disk.learned
  /\ ticked' = FALSE
  /\ lastSeen' = FirstSeen /\ todo' = {} /\ found' = {} /\ last' = Never
  /\ UNCHANGED <<calls, arrived, results, flushedAt, source, disk, crashes, history>>

-----------------------------------------------------------------------------

Init ==
  /\ Engine!Init
  /\ learned = {}
  /\ now = 0
  /\ world = [t \in BucketTimes |-> 0]
  /\ phase = "idle" /\ ticked = FALSE
  /\ lastSeen = Never /\ todo = {} /\ found = {} /\ last = Never
  /\ disk = NoFile
  /\ crashes = 0
  /\ content = [i \in 1..MaxCalls |-> <<>>]
  /\ taken = {} /\ offered = {} /\ missed = FALSE

Tick ==
  \/ FetchFails \/ Fetch
  \/ \E p \in todo : Skip(p) \/ Consume(p)
  \/ EndPush
  \/ \E t \in found : Notify(t)
  \/ EndNotify \/ Save

Next ==
  \/ Clock
  \/ \E t \in BucketTimes : Document(t)
  \/ Tick
  \/ Stop \/ Crash \/ Start

Spec == Init /\ [][Next]_vars

-----------------------------------------------------------------------------
(* Properties.                                                             *)

Points == [time: BucketTimes, series: Series, docs: 1..MaxDocs]

TypeOK ==
  /\ Engine!TypeOK
  /\ learned \subseteq results
  /\ now \in BucketTimes /\ world \in [BucketTimes -> 0..MaxDocs]
  /\ phase \in {"idle", "push", "fresh", "notify", "save", "down"}
  /\ ticked \in BOOLEAN
  /\ lastSeen \in BucketTimes \cup {Never} /\ last \in BucketTimes \cup {Never}
  /\ todo \subseteq Points
  /\ found \subseteq BucketTimes
  /\ disk.learned \subseteq results

\* The models learn from a bucket once: neither a tick that fetches again what
\* was fetched before nor a restart from any saved state feeds the bucket to
\* models that know it.
LearnedOnce == \A r, s \in learned : r.time = s.time => r = s

\* After a restart the window fetched makes up for the points that were held
\* or unsaved: unless the process was away longer than the lookback, every
\* point the engine ever took is in the models or held in its bucket.
NothingLost ==
  phase = "idle" /\ lastSeen # Never /\ ~missed =>
    \A t \in taken : t \in LearnedTimes \/ pending[t] # {}

\* A tick alerts before it saves: what the state file says was learned has been
\* offered to the notifier, so that a crash cannot swallow an anomaly.
OfferedBeforeSaved == \A r \in disk.learned : r.time \in offered

\* Through crashes and restarts, the watcher stays in shape and the file behind
\* the alerts.
WatchStands == TypeOK /\ OfferedBeforeSaved

\* Changelog: the data split by a field gives "one series per" value: a bucket
\* that is scored has a point of every series the source had in it.
EverySeriesScored ==
  \A r \in results : r.pts # {} =>
    {content[i].series : i \in r.pts} = Series

=============================================================================
