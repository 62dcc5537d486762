------------------------------ MODULE Datafeed ------------------------------
(***************************************************************************)
(* The Elasticsearch datafeed (datafeed/elasticsearch.go).  An unsplit     *)
(* fetch asks for one date histogram per chunk of ChunkBuckets steps; a    *)
(* split fetch pages through a composite aggregation with the after key of *)
(* the page before.  Every request is a step of its own, and documents may *)
(* be indexed between two of them; a request that fails ends the fetch     *)
(* with nothing.                                                           *)
(*                                                                         *)
(* The search server is not part of the repository: Histogram and PageKeys *)
(* model what the requests ask of it.  A time is a natural number, a term  *)
(* a natural number ordered as the server orders keys; the metrics are     *)
(* "count" and "max", which has no value where no document has the field.  *)
(***************************************************************************)
EXTENDS Selections, SequencesExt, FiniteSetsExt

CONSTANTS Span,          \* the bucket span
          ChunkBuckets,  \* maxESChunkBuckets: 5000 in the code
          PageSize,      \* buckets of a composite page
          MaxPages,      \* maxCompositePages: 100000 in the code
          LastDocTime,       \* bound: times are 0..LastDocTime
          AskedWindows,       \* bound: the windows asked for, as <<start, end>>
          Terms,         \* bound: values of the split field, naturals
          Readings,      \* bound: values of the metric field, naturals
          MaxDocs        \* bound: documents indexed

ASSUME FeedAssumption ==
    /\ Span \in Nat \ {0} /\ ChunkBuckets \in Nat \ {0} /\ PageSize \in Nat \ {0}
    /\ MaxPages \in Nat \ {0} /\ LastDocTime \in Nat /\ MaxDocs \in Nat
    /\ AskedWindows \subseteq Nat \X Nat
    /\ Terms \subseteq Nat /\ Readings \subseteq Nat

VARIABLE feed            \* [docs, task, got]

feedVars == <<feed>>

NoReading == -1            \* a document without the metric field
NoTerm == -1             \* an unsplit point
Waiting == [mode |-> "idle"]
NotYet == [mode |-> "none"]

Beyond(a, b) == a[1] > b[1] \/ (a[1] = b[1] /\ a[2] > b[2])
KeyOf(time) == time - (time % Span)
InWindow(docs, start, end) == {d \in docs : d.at \in start..end}

(* valueOfBucket: what a bucket's documents come to, NoReading for no point  *)
BucketValue(func, docs) ==
    LET seen == {d.value : d \in docs} \ {NoReading} IN
    IF func = "count" THEN Cardinality(docs)
    ELSE IF seen = {} THEN NoReading ELSE Max(seen)

(* The points that have a value, in their order                            *)
Valued(points) == Subsequence(points, {i \in DOMAIN points : points[i].value # NoReading})

(* A date histogram: the buckets from the first document's to the last's,  *)
(* the empty ones between them included.                                   *)
Histogram(docs) ==
    IF docs = {} THEN <<>>
    ELSE LET first == KeyOf(Min({d.at : d \in docs}))
             final == KeyOf(Max({d.at : d \in docs}))
         IN [i \in 1..((final - first) \div Span) + 1 |-> first + (i - 1) * Span]

(* parseESAgg, of the answer to one window                                 *)
ParseAgg(func, docs) ==
    LET PointAt(key) ==
            [time |-> key, term |-> NoTerm,
             value |-> BucketValue(func, {d \in docs : KeyOf(d.at) = key})]
    IN Valued([i \in DOMAIN Histogram(docs) |-> PointAt(Histogram(docs)[i])])

(* The keys of the composite page after a key, in order                    *)
PageKeys(docs, after) ==
    LET keys == {k \in {<<KeyOf(d.at), d.term>> : d \in docs} : Beyond(k, after)}
    IN [i \in 1..Min({PageSize, Cardinality(keys)}) |->
          CHOOSE k \in keys : Cardinality({j \in keys : ~Beyond(j, k)}) = i]

(* parseESComposite, of the answer to one page                             *)
ParseComposite(func, docs, page) ==
    LET PointAt(key) ==
            [time |-> key[1], term |-> key[2],
             value |-> BucketValue(func, {d \in docs : <<KeyOf(d.at), d.term>> = key})]
    IN Valued([i \in DOMAIN page |-> PointAt(page[i])])

FeedInit == feed = [docs |-> {}, task |-> Waiting, got |-> NotYet]

(* A document is indexed: external, at any time, a late one included       *)
Index(at, term, value) ==
    /\ Cardinality(feed.docs) < MaxDocs
    /\ LET doc == [at |-> at, term |-> term, value |-> value]
           copies == {d \in feed.docs : [at |-> d.at, term |-> d.term, value |-> d.value] = doc}
       IN feed' = [feed EXCEPT
          !.docs = @ \cup {[at |-> at, term |-> term, value |-> value,
                            copy |-> Cardinality(copies)]},
          !.task = IF @ = Waiting THEN Waiting ELSE [@ EXCEPT !.still = FALSE],
          !.got = NotYet]

(* Fetch is called; a metric other than a count needs a field (buildBody)  *)
StartFetch(split, func, field, start, end) ==
    /\ feed.task = Waiting
    /\ feed.got = NotYet
    /\ LET task == [mode |-> IF split THEN "split" ELSE "plain", func |-> func,
                    start |-> start, end |-> end, cursor |-> start,
                    after |-> <<-1, -1>>, page |-> 0, out |-> <<>>, still |-> TRUE]
       IN feed' = IF func # "count" /\ ~field
                  THEN [feed EXCEPT !.got = [task EXCEPT !.mode = "error"]]
                  ELSE [feed EXCEPT !.task = task]

Finished(task) == [feed EXCEPT !.task = Waiting, !.got = task]

(* fetchWindow for the next chunk: both ends of the range are included,    *)
(* and the next chunk begins where this one ended.                         *)
ChunkEndShort(task) ==   \* faulty variant: the last bucket of a chunk is left out
    LET end == task.cursor + Span * (ChunkBuckets - 1) IN
    IF task.end > task.start /\ end < task.end THEN end ELSE task.end
ChunkEnd(task) ==
    LET end == task.cursor + Span * ChunkBuckets IN
    IF task.end > task.start /\ end < task.end THEN end ELSE task.end

FetchChunk ==
    /\ feed.task.mode = "plain"
    /\ LET task == feed.task
           docs == InWindow(feed.docs, task.cursor, ChunkEnd(task))
           done == [task EXCEPT !.out = @ \o ParseAgg(task.func, docs),
                                !.cursor = @ + Span * ChunkBuckets]
       IN feed' = IF done.cursor < task.end THEN [feed EXCEPT !.task = done]
                                            ELSE Finished(done)

(* fetchComposite's loop ends at a page without an after key, at one that  *)
(* gave no point, and at the cap on pages.                                 *)
LastPage(keys, points, page) == keys = <<>> \/ points = <<>> \/ page = MaxPages

FetchPage ==
    /\ feed.task.mode = "split"
    /\ LET task == feed.task
           docs == InWindow(feed.docs, task.start, task.end)
           keys == PageKeys(docs, task.after)
           points == ParseComposite(task.func, docs, keys)
           done == [task EXCEPT !.out = @ \o points, !.page = @ + 1,
                        !.after = IF keys = <<>> THEN @ ELSE keys[Len(keys)]]
       IN feed' = IF LastPage(keys, points, done.page) THEN Finished(done)
                                                       ELSE [feed EXCEPT !.task = done]

(* doSearch fails, or the server answers with an error                     *)
FetchFails ==
    /\ feed.task # Waiting
    /\ feed' = Finished([feed.task EXCEPT !.mode = "error", !.out = <<>>])

(* The caller has the points, and asks again later *)
Taken == feed.got # NotYet /\ feed' = [feed EXCEPT !.got = NotYet]

FeedNext ==
    \/ Taken
    \/ \E at \in 0..LastDocTime, term \in Terms, value \in Readings \cup {NoReading} :
          Index(at, term, value)
    \/ \E split, field \in BOOLEAN, func \in {"count", "max"}, w \in AskedWindows :
          StartFetch(split, func, field, w[1], w[2])
    \/ FetchChunk
    \/ FetchPage
    \/ FetchFails

-----------------------------------------------------------------------------
(* What was fetched, and of what                                           *)
Wanted == InWindow(feed.docs, feed.got.start, feed.got.end)

OnSeam(task, at) ==
    /\ at > task.start
    /\ at < task.end
    /\ (at - task.start) % (Span * ChunkBuckets) = 0

CountOver(points, key) ==
    MapThenSumSet(LAMBDA i : points[i].value, {i \in DOMAIN points : points[i].time = key})

(* No document of the window is lost by cutting a long fetch into chunks,  *)
(* and none is counted twice but those that lie exactly where two chunks   *)
(* meet: both ask for them, since a range includes both its ends.  A bucket*)
(* that a chunk's end cuts in two comes as two points (Fetch, buildBody).  *)
ChunksCoverWindow ==
    (feed.got.mode = "plain" /\ feed.got.still /\ feed.got.func = "count") =>
        \A key \in {KeyOf(d.at) : d \in Wanted} :
            LET docs == {d \in Wanted : KeyOf(d.at) = key} IN
            CountOver(feed.got.out, key) =
                Cardinality(docs) + Cardinality({d \in docs : OnSeam(feed.got, d.at)})

(* Paging never gives a bucket twice, whatever is indexed between two      *)
(* pages, and what the whole fetch returns is in order (fetchComposite).   *)
PagesAdvance ==
    feed.got.mode = "split" =>
        \A i, j \in DOMAIN feed.got.out :
            i < j => Beyond(<<feed.got.out[j].time, feed.got.out[j].term>>,
                           <<feed.got.out[i].time, feed.got.out[i].term>>)

(* "composite must page through all buckets" (elasticsearch_test.go:144):  *)
(* a split fetch that nothing disturbed returns every bucket that has a    *)
(* value, as a single answer without pages would.                          *)
AllPagesRead ==
    (feed.got.mode = "split" /\ feed.got.still /\ feed.got.page < MaxPages) =>
        \A d \in Wanted :
            d.value # NoReading =>
                \E p \in ToSet(feed.got.out) : p.time = KeyOf(d.at) /\ p.term = d.term

(* The same of what the code does promise: counts, which every bucket has  *)
CountsReadWhole == feed.got.mode = "split" /\ feed.got.func = "count" => AllPagesRead
=============================================================================
