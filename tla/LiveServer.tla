----------------------------- MODULE LiveServer -----------------------------
(***************************************************************************)
(* The HTTP server's live jobs.  Requests run concurrently: each calls    *)
(* points into the engines of one or several jobs and, after releasing the *)
(* job's lock, publishes the anomalous buckets that closed: into the       *)
(* results of the job's name, to the notifier, and to the incident tracker *)
(* by correlating all results anew.  Other requests register, delete and   *)
(* flush jobs, or run a batch job that stores under a name of its own.  A  *)
(* loop saves the server's state, which a restart restores.                *)
(*                                                                         *)
(* Every critical section is a step.  A job is the handle that RegisterJob *)
(* made, with its engine: a metric stream without grace period holds       *)
(* points of its watermark's bucket only (OrderInv of BucketStream), while *)
(* the categorizer of a logs job takes lines of any bucket.  Which buckets *)
(* score over the threshold is given.  The tracker is the set of anomalous *)
(* buckets it has been told of.  Left out: the notifier and the history    *)
(* files, called after publishing, and the events that reconcile delivers: *)
(* nothing here reads what they keep (see Notifier, IncidentTracker).      *)
(***************************************************************************)
EXTENDS Integers, Sequences, FiniteSets, FiniteSetsExt, Functions

CONSTANTS
  Names,          \* job names
  LogNames,       \* those whose jobs are logs jobs
  Times,          \* bucket starts
  Batches,        \* the buckets of the points that a request may carry
  Loud,           \* buckets that score over the threshold
  Workers,        \* requests that may run at once
  MaxResults,     \* maxLiveResults
  MaxResultJobs,  \* maxResultJobs
  MaxJobs,        \* maxLiveJobsCount
  MaxHandles,     \* bound: registrations in a behaviour
  MaxCalls,       \* bound: requests, registrations and deletions aside
  MaxStarts       \* bound: restarts (and no save that none of them reads)

ASSUME NamesAssumption == LogNames \subseteq Names
ASSUME TimesAssumption ==
  /\ Times \subseteq Nat /\ Loud \subseteq Times
  /\ Batches \subseteq SUBSET Times
  /\ \A batch \in Batches : batch # {} /\ IsFiniteSet(batch)
ASSUME LimitsAssumption ==
  /\ MaxResults \in Nat \ {0} /\ MaxResultJobs \in Nat \ {0}
  /\ MaxJobs \in Nat \ {0}
ASSUME BoundsAssumption ==
  /\ MaxHandles \in Nat /\ MaxCalls \in Nat /\ MaxStarts \in Nat

VARIABLES
  live,      \* s.live: the handle of each live name
  engine,    \* the engine of each handle: its watermark and open buckets
  results,   \* s.results: the buckets published under a name
  known,     \* buckets that the tracker was known of
  req,       \* the requests: where they are, and their locals
  saver,     \* the save in progress: its snapshot so far
  disk,      \* the state file
  up,        \* is there a process?
  names,     \* the name each handle was registered under
  calls,     \* requests so far
  starts,    \* restarts so far
  closed,    \* history: anomalous buckets that engines returned, this life
  gone,      \* history: buckets published before their list was deleted or
             \* replaced, this life
  restored,  \* history: what the tracker knew when this life began
  flushed    \* history: buckets that a flush closed

jobs == <<live, engine, names>>
process == <<saver, disk, up, starts>>
history == <<closed, gone, restored, flushed>>
vars == <<jobs, results, known, req, process, calls, history>>

NoMark == -1
Batch == 0   \* stands for the handle of results that a batch job stored

Idle == [step |-> "idle", call |-> 0, todo |-> {}, batch |-> {}, out |-> {}, view |-> {}]
NoSave == [step |-> "idle", known |-> {}, todo |-> {}, jobs |-> <<>>]

Bucket(h, t, c) == [job |-> h, time |-> t, call |-> c]
NewEngine == [mark |-> NoMark, open |-> {}]

-----------------------------------------------------------------------------
(* The maps of the server.                                                 *)

Without(f, n) == [m \in DOMAIN f \ {n} |-> f[m]]
Put(f, n, x) == [m \in DOMAIN f \cup {n} |-> IF m = n THEN x ELSE f[m]]
ResultsOf(n) == IF n \in DOMAIN results THEN results[n] ELSE <<>>
Listed == UNION {Range(results[n]) : n \in DOMAIN results}

\* For the history: what has been published so far under some names.
Unpublished == UNION {req[w].out : w \in {w \in Workers : req[w].step = "publish"}}
Published(N) == {b \in closed \ Unpublished : names[b.job] \in N}

\* res[len(res)-maxLiveResults:]
TrimmedByOneMore(s) ==   \* faulty variant
  IF Len(s) > MaxResults THEN SubSeq(s, Len(s) - MaxResults + 2, Len(s)) ELSE s

Trimmed(s) ==
  IF Len(s) > MaxResults THEN SubSeq(s, Len(s) - MaxResults + 1, Len(s)) ELSE s

\* The buckets of one request to one engine, the oldest first.
InOrder(B) ==
  CHOOSE s \in Bijection(1..Cardinality(B), B) :
    \A i, j \in 1..Cardinality(B) : i < j => s[i].time < s[j].time

-----------------------------------------------------------------------------
(* Requests that are one critical section of s.mu.                         *)

\* RegisterJob: a new handle takes the name, and the name's results go.
Register(n) ==
  LET h == Len(names) + 1
  IN  /\ up /\ Len(names) < MaxHandles
      /\ n \in DOMAIN live \/ Cardinality(DOMAIN live) < MaxJobs
      /\ names' = Append(names, n)
      /\ live' = Put(live, n, h)
      /\ engine' = Append(engine, NewEngine)
      /\ results' = Without(results, n)
      /\ gone' = gone \cup Published({n})
      /\ UNCHANGED <<known, req, process, calls, closed, restored, flushed>>

\* DELETE: the handle goes, the results stay.
Delete(n) ==
  /\ up /\ n \in DOMAIN live
  /\ live' = Without(live, n)
  /\ UNCHANGED <<engine, names, results, known, req, process, calls, history>>

Call == calls < MaxCalls /\ calls' = calls + 1

\* Store, the end of a batch job: its results replace those of its name; for a
\* new name, arbitrary others are evicted until there is room.
Analyze(n, batch) ==
  /\ up
  /\ Call
  /\ \E kept \in SUBSET DOMAIN results :
       /\ IF n \in DOMAIN results \/ Cardinality(DOMAIN results) < MaxResultJobs
          THEN kept = DOMAIN results ELSE Cardinality(kept) = MaxResultJobs - 1
       /\ results' = Put([m \in kept |-> results[m]], n,
                         InOrder({Bucket(Batch, t, calls') : t \in batch}))
       /\ gone' = gone \cup Published((DOMAIN results \ kept) \cup {n})
  /\ UNCHANGED <<jobs, known, req, process, closed, restored, flushed>>

-----------------------------------------------------------------------------
(* Pushing: one step per engine, under the lock of its job.                *)

At(w, step) == up /\ req[w].step = step

Begin(w, todo, batch) ==
  /\ up /\ req[w] = Idle
  /\ Call
  /\ req' = [req EXCEPT ![w] =
       [Idle EXCEPT !.step = "push", !.call = calls', !.todo = todo, !.batch = batch]]
  /\ UNCHANGED <<jobs, results, known, process, history>>

\* POST /v1/jobs/{name}/points, and the endpoints that serve every live job of
\* a kind (metricJobs, logJobs): the handles are looked up once.
PointsRequest(w, n, batch) == n \in DOMAIN live /\ Begin(w, {live[n]}, batch)

Kind(n) == {live[m] : m \in {m \in DOMAIN live : (m \in LogNames) = (n \in LogNames)}}

IngestRequest(w, n, batch) == n \in DOMAIN live /\ Begin(w, Kind(n), batch)

FlushRequest(w, n) == n \in DOMAIN live /\ Begin(w, {live[n]}, {})

IsLog(h) == names[h] \in LogNames

\* The points of a batch, the oldest first: those not past the watermark join
\* an open bucket or are dropped (a logs job takes them all), and each of the
\* others closes what is open and opens its own.
MarkFor(h, batch) == IF engine[h].mark = NoMark THEN Min(batch) ELSE engine[h].mark

After(h, batch) ==
  LET mark  == MarkFor(h, batch)
      later == {t \in batch : t > mark}
      held  == engine[h].open \cup {t \in batch : t = mark \/ (t < mark /\ IsLog(h))}
  IN  IF later = {} THEN [mark |-> mark, open |-> held, shut |-> {}]
      ELSE [mark |-> Max(later), open |-> {Max(later)},
            shut |-> (held \cup later) \ {Max(later)}]

\* The request goes on to its next job, or is answered.
Rest(r, todo) ==
  IF todo = {} THEN Idle
  ELSE [r EXCEPT !.step = "push", !.todo = todo, !.out = {}, !.view = {}]

\* What the engine returned is filtered by the threshold; if nothing is left,
\* there is nothing to publish.
Returned(w, h, shut) ==
  LET out  == {Bucket(h, t, req[w].call) : t \in shut \cap Loud}
      todo == req[w].todo \ {h}
  IN  /\ closed' = closed \cup out
      /\ req' = [req EXCEPT ![w] =
           IF out = {} THEN Rest(@, todo)
           ELSE [@ EXCEPT !.step = "publish", !.todo = todo, !.out = out]]

Push(w, h) ==
  /\ At(w, "push") /\ h \in req[w].todo /\ req[w].batch # {}
  /\ LET e == After(h, req[w].batch)
     IN  /\ engine' = [engine EXCEPT ![h] = [mark |-> e.mark, open |-> e.open]]
         /\ Returned(w, h, e.shut)
  /\ UNCHANGED <<live, names, results, known, process, calls, gone, restored, flushed>>

\* Flush() closes every bucket and leaves the watermark.
Flush(w, h) ==
  /\ At(w, "push") /\ h \in req[w].todo /\ req[w].batch = {}
  /\ engine' = [engine EXCEPT ![h].open = {}]
  /\ Returned(w, h, engine[h].open)
  /\ flushed' = flushed \cup {<<h, t>> : t \in engine[h].open}
  /\ UNCHANGED <<live, names, results, known, process, calls, gone, restored>>

-----------------------------------------------------------------------------
(* publish.                                                                *)

PublishTo(n, B) == results' = Put(results, n, Trimmed(ResultsOf(n) \o InOrder(B)))

PublishOnly(w) ==   \* faulty variant: correlating is left to the next request
  /\ At(w, "publish")
  /\ \E n \in {names[b.job] : b \in req[w].out} : PublishTo(n, req[w].out)
  /\ req' = [req EXCEPT ![w] = Rest(@, @.todo)]
  /\ UNCHANGED <<jobs, known, process, calls, history>>

\* Under s.mu; the notifier is called next, after it.
Publish(w) ==
  /\ At(w, "publish")
  /\ \E n \in {names[b.job] : b \in req[w].out} : PublishTo(n, req[w].out)
  /\ req' = [req EXCEPT ![w].step = "correlate"]
  /\ UNCHANGED <<jobs, known, process, calls, history>>

\* correlateAll, which GET /v1/incidents calls too: all results, under RLock.
IncidentsRequest(w) ==
  /\ up /\ req[w] = Idle
  /\ Call
  /\ req' = [req EXCEPT ![w].step = "correlate", ![w].call = calls']
  /\ UNCHANGED <<jobs, results, known, process, history>>

Correlate(w) ==
  /\ At(w, "correlate")
  /\ req' = [req EXCEPT ![w].step = "reconcile", ![w].view = Listed]
  /\ UNCHANGED <<jobs, results, known, process, calls, history>>

\* Under the tracker's lock.
Reconcile(w) ==
  /\ At(w, "reconcile")
  /\ known' = known \cup req[w].view
  /\ req' = [req EXCEPT ![w] = Rest(@, @.todo)]
  /\ UNCHANGED <<jobs, results, process, calls, history>>

-----------------------------------------------------------------------------
(* SaveState: the tracker, then the list of live jobs, then each job under *)
(* its own lock, then the file, which is renamed into place.               *)

SnapshotTracker ==
  /\ up /\ saver = NoSave /\ starts < MaxStarts
  /\ saver' = [NoSave EXCEPT !.step = "list", !.known = known]
  /\ UNCHANGED <<jobs, results, known, req, disk, up, starts, calls, history>>

SnapshotList ==
  /\ up /\ saver.step = "list"
  /\ saver' = [saver EXCEPT !.step = "jobs", !.todo = Range(live)]
  /\ UNCHANGED <<jobs, results, known, req, disk, up, starts, calls, history>>

SavedEngine(h) == [mark |-> engine[h].mark, open |-> {}]

SnapshotJob(h) ==
  /\ up /\ saver.step = "jobs" /\ h \in saver.todo
  /\ saver' = [saver EXCEPT !.todo = @ \ {h}, !.jobs = Put(@, h, SavedEngine(h))]
  /\ UNCHANGED <<jobs, results, known, req, disk, up, starts, calls, history>>

SavedKnownLate == known   \* faulty variant: the tracker is copied last

SavedKnown == saver.known

\* The write may fail.
WriteState(ok) ==
  /\ up /\ saver.step = "jobs" /\ saver.todo = {}
  /\ disk' = IF ok THEN [known |-> SavedKnown, jobs |-> saver.jobs] ELSE disk
  /\ saver' = NoSave
  /\ UNCHANGED <<jobs, results, known, req, up, starts, calls, history>>

Save ==
  \/ SnapshotTracker \/ SnapshotList
  \/ \E h \in saver.todo : SnapshotJob(h)
  \/ \E ok \in BOOLEAN : WriteState(ok)

-----------------------------------------------------------------------------
(* The process.                                                            *)

\* A crash at any time, or SIGTERM: then a save comes right before, and only
\* requests under way go on after it, so that it is a case of Save and Exit.
Exit ==
  /\ up /\ starts < MaxStarts
  /\ up' = FALSE
  /\ live' = <<>> /\ engine' = [h \in DOMAIN engine |-> NewEngine]
  /\ results' = <<>> /\ known' = {}
  /\ req' = [w \in Workers |-> Idle]
  /\ saver' = NoSave
  /\ closed' = {} /\ gone' = {}
  /\ UNCHANGED <<names, disk, starts, calls, restored, flushed>>

\* LoadState: engines without open buckets, a tracker, no results.
Start ==
  /\ ~up
  /\ up' = TRUE
  /\ starts' = starts + 1
  /\ live' = [n \in {names[h] : h \in DOMAIN disk.jobs} |->
                CHOOSE h \in DOMAIN disk.jobs : names[h] = n]
  /\ engine' = [h \in DOMAIN engine |->
                  IF h \in DOMAIN disk.jobs THEN disk.jobs[h] ELSE NewEngine]
  /\ known' = disk.known /\ restored' = disk.known
  /\ UNCHANGED <<names, results, req, saver, disk, calls, closed, gone, flushed>>

-----------------------------------------------------------------------------

Init ==
  /\ live = <<>>
  /\ engine = <<>>
  /\ names = <<>>
  /\ results = <<>>
  /\ known = {}
  /\ req = [w \in Workers |-> Idle]
  /\ saver = NoSave
  /\ disk = [known |-> {}, jobs |-> <<>>]
  /\ up = TRUE
  /\ calls = 0
  /\ starts = 0
  /\ closed = {} /\ gone = {} /\ restored = {} /\ flushed = {}

Request(w) ==
  \/ \E n \in Names : FlushRequest(w, n) \/
       \E batch \in Batches : PointsRequest(w, n, batch) \/ IngestRequest(w, n, batch)
  \/ IncidentsRequest(w)

Step(w) ==
  \/ \E h \in req[w].todo : Push(w, h) \/ Flush(w, h)
  \/ Publish(w) \/ Correlate(w) \/ Reconcile(w)

Next ==
  \/ \E n \in Names :
       Register(n) \/ Delete(n) \/ \E batch \in Batches : Analyze(n, batch)
  \/ \E w \in Workers : Request(w) \/ Step(w)
  \/ Save
  \/ Exit \/ Start

Spec == Init /\ [][Next]_vars

-----------------------------------------------------------------------------
(* Properties.                                                             *)

Handles == 1..MaxHandles

Buckets == [job: Handles \cup {Batch}, time: Times, call: 1..MaxCalls]

Engines == [mark: Times \cup {NoMark}, open: SUBSET Times]

TypeOK ==
  /\ names \in Seq(Names) /\ Len(names) <= MaxHandles
  /\ engine \in Seq(Engines) /\ Len(engine) = Len(names)
  /\ DOMAIN live \subseteq Names /\ Cardinality(DOMAIN live) <= MaxJobs
  /\ \A n \in DOMAIN live : names[live[n]] = n
  /\ DOMAIN results \subseteq Names /\ Listed \subseteq Buckets
  /\ \A h \in DOMAIN engine : ~IsLog(h) => engine[h].open \subseteq {engine[h].mark}
  /\ \A w \in Workers : req[w].out \subseteq closed /\ req[w].todo \subseteq Handles

\* Whatever calls, registrations and batch jobs run at once, an anomalous
\* bucket that an engine returned is still with its request, or is listed under
\* its job's name; or that list was deleted or replaced as a whole, or is full.
Full(b) == Len(ResultsOf(names[b.job])) = MaxResults

NothingUnlisted ==
  \A b \in closed : b \in Unpublished \cup Listed \cup gone \/ Full(b)

\* Whatever requests overlap, each list and engine stays in shape and no anomaly
\* that an engine returned is left unlisted.
ListsStand == TypeOK /\ NothingUnlisted

\* When its request is over, an anomaly is known to the tracker: the request
\* correlates after it has published, so that no other view can leave it out.
AnomalyCorrelated ==
  \A b \in closed \ UNION {req[w].out : w \in Workers} :
    b \in known \cup gone \/ Full(b)

\* The tracker and the engines are saved at different moments, yet a restart
\* reports no bucket of a metric job that the restored tracker has already:
\* the tracker is saved first, and engines never close a bucket again.
NotRepeated ==
  \A b \in closed, k \in restored :
    k.job = b.job /\ k.time = b.time =>
      IsLog(b.job) \/ <<b.job, b.time>> \in flushed

=============================================================================
