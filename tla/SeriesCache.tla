----------------------------- MODULE SeriesCache -----------------------------
(***************************************************************************)
(* engine.Engine, the models of its series: every bucket that closes is    *)
(* scored by each detector of the job in turn, a detector scores one       *)
(* series after the other, in whatever order its map yields them, and each *)
(* series scored is touched.  Touching a series that is not yet in the LRU *)
(* table may evict others: also series that the same loop has still to     *)
(* score, and series of other detectors.                                   *)
(*                                                                         *)
(* A count by a field also scores the series it knows and that report      *)
(* nothing, as zeros.  What it knows is kept per detector id, and two      *)
(* detectors of a job may have one id: Detector.ID leaves the split fields *)
(* of a count out.                                                         *)
(*                                                                         *)
(* A series is a value of a split field.  Only the order of the LRU ticks  *)
(* matters: the table is the sequence of its keys, oldest tick first.  The *)
(* maps that hold a key's model, one per kind, and its adaptive scores are *)
(* written and dropped together: they are the one set of keys with a model.*)
(***************************************************************************)
EXTENDS Integers, Sequences, FiniteSets, Functions

CONSTANTS
  NumDetectors,  \* len(job.Detectors)
  Id,            \* d.ID() of each detector
  CountFamily,   \* the detectors that are CountFamilySplit()
  Buckets,       \* what a bucket may hold: the series each detector can score
  MaxSeries,     \* e.MaxSeries, or its default
  KnownCap,      \* countSeriesCap
  MaxBucket,     \* bound: the last bucket
  MaxRestarts    \* bound: restarts

Detector == 1..NumDetectors
Ids == Range(Id)
Series == UNION {bk[d] : bk \in Buckets, d \in Detector}
Keys == Ids \X Series
NoData == [d \in Detector |-> {}]

\* With MaxSeries = 1 nothing would be kept at an eviction, the new key
\* included; the engine's default is 50000.
ASSUME LimitsAssumption ==
  /\ MaxSeries \in Nat \ {0, 1}
  /\ KnownCap \in Nat
ASSUME JobAssumption ==
  /\ NumDetectors \in Nat \ {0}
  /\ DOMAIN Id = Detector
  /\ CountFamily \subseteq Detector
  /\ \A bk \in Buckets :
       DOMAIN bk = Detector /\ \A d \in Detector : IsFiniteSet(bk[d])
ASSUME BoundsAssumption ==
  /\ MaxBucket \in Nat
  /\ MaxRestarts \in Nat

VARIABLES
  bucket,    \* e.curBucket; 0 before the first, and after a restart
  data,      \* the points of the bucket that is scored, as each detector
             \* groups them
  det,       \* the detector whose turn it is; 0 between two buckets
  todo,      \* the series that it has still to score
  lru,       \* e.seriesLRU and e.lruTick
  models,    \* the keys of e.models, e.seasonal, ..., e.seriesScores
  known,     \* e.countSeries
  lastSeen,  \* e.lastSeen
  saved,     \* the models in the snapshot that was saved last
  restarts   \* number of restarts so far

cache == <<lru, models, known, lastSeen>>
vars == <<bucket, data, det, todo, cache, saved, restarts>>

-----------------------------------------------------------------------------
(* The LRU table.                                                          *)

\* keep := max * 9 / 10
Keep == (MaxSeries * 9) \div 10

Position(k) == CHOOSE i \in DOMAIN lru : lru[i] = k

TouchedFirstOnly(k) ==   \* faulty variant: the tick of a known key stays
  IF k \in Range(lru) THEN lru ELSE Append(lru, k)

\* The key takes the youngest tick.
Touched(k) ==
  IF k \in Range(lru)
  THEN [i \in DOMAIN lru |-> IF i < Position(k) THEN lru[i]
                             ELSE IF i < Len(lru) THEN lru[i + 1] ELSE k]
  ELSE Append(lru, k)

\* touchSeries(k), and evictSeries() when the key is new: past the limit, only
\* the youngest Keep stay.
AfterTouch(k) ==
  LET s == Touched(k)
  IN  IF k \notin Range(lru) /\ Len(s) > MaxSeries
      THEN SubSeq(s, Len(s) - Keep + 1, Len(s)) ELSE s

Dropped(k) == Range(Touched(k)) \ Range(AfterTouch(k))

SeenKept(k) ==   \* faulty variant: lastSeen is not pruned
  [j \in DOMAIN lastSeen \cup {k} |-> IF j = k THEN bucket ELSE lastSeen[j]]

\* dropSeries(): out of every map, what the counts know included.
SeenAfter(k) ==
  [j \in (DOMAIN lastSeen \cup {k}) \ Dropped(k) |->
     IF j = k THEN bucket ELSE lastSeen[j]]

KnownAfterAll(k) == known   \* faulty variant: countSeries is not pruned

KnownAfter(k) ==
  [id \in Ids |-> {s \in known[id] : <<id, s>> \notin Dropped(k)}]

-----------------------------------------------------------------------------
(* Scoring a bucket.                                                       *)

\* zeroFillKnown(): the series at hand become known, as far as the cap lets.
Learned(id, present) ==
  {K \in SUBSET (known[id] \cup present) :
     /\ known[id] \subseteq K
     /\ Cardinality(K) <= KnownCap
     /\ K = known[id] \cup present \/ Cardinality(K) = KnownCap}

\* Detector d begins: its series are those of the data, and for a count by a
\* field those known under its id.
Enter(d, points) ==
  /\ det' = d
  /\ IF d \in CountFamily
     THEN \E K \in Learned(Id[d], points[d]) :
            /\ known' = [known EXCEPT ![Id[d]] = K]
            /\ todo' = points[d] \cup K
     ELSE /\ todo' = points[d]
          /\ UNCHANGED known

\* scoreBucket().  After a Flush the same bucket may come again.
Open(b, points) ==
  /\ det = 0
  /\ bucket' = b
  /\ data' = points
  /\ Enter(1, points)
  /\ UNCHANGED <<lru, models, lastSeen, saved, restarts>>

\* A bucket inside a calendar is not scored.
Skip(b) ==
  /\ det = 0
  /\ bucket' = b
  /\ UNCHANGED <<data, det, todo, cache, saved, restarts>>

\* One iteration of a detector's loop: the series is touched, its model is
\* found or made and observes the value; a second touch, which most of the
\* detectors make, changes nothing more.
Score(s) ==
  /\ s \in todo
  /\ LET k == <<Id[det], s>>
     IN  /\ lru' = AfterTouch(k)
         /\ models' = (models \ Dropped(k)) \cup {k}
         /\ known' = KnownAfter(k)
         /\ lastSeen' = SeenAfter(k)
  /\ todo' = todo \ {s}
  /\ UNCHANGED <<bucket, data, det, saved, restarts>>

NextDetector ==
  /\ det > 0 /\ det < NumDetectors /\ todo = {}
  /\ Enter(det + 1, data)
  /\ UNCHANGED <<bucket, data, lru, models, lastSeen, saved, restarts>>

Close ==
  /\ det = NumDetectors /\ todo = {}
  /\ det' = 0
  /\ data' = NoData
  /\ UNCHANGED <<bucket, todo, cache, saved, restarts>>

-----------------------------------------------------------------------------
(* The snapshot.                                                           *)

Save ==
  /\ det = 0
  /\ saved # models
  /\ saved' = models
  /\ UNCHANGED <<bucket, data, det, todo, cache, restarts>>

\* A new engine and Restore(): the models take ticks in the order of a map; the
\* other tables are not in the snapshot.
Orders(S) ==
  {s \in [1..Cardinality(S) -> S] : IsInjective(s) /\ Range(s) = S}

Restart ==
  /\ restarts < MaxRestarts
  /\ restarts' = restarts + 1
  /\ det' = 0 /\ todo' = {} /\ data' = NoData
  /\ models' = saved
  /\ lru' \in Orders(saved)
  /\ known' = [id \in Ids |-> {}]
  /\ lastSeen' = <<>>
  /\ bucket' = 0
  /\ UNCHANGED saved

-----------------------------------------------------------------------------

Init ==
  /\ bucket = 0
  /\ data = NoData
  /\ det = 0
  /\ todo = {}
  /\ lru = <<>>
  /\ models = {}
  /\ known = [id \in Ids |-> {}]
  /\ lastSeen = <<>>
  /\ saved = {}
  /\ restarts = 0

\* Buckets close in order; after a restart any may be the first, also one that
\* was scored before and is not in the snapshot.
Comes == {b \in 1..MaxBucket : bucket <= b}

Next ==
  \/ \E b \in Comes : Skip(b) \/ \E points \in Buckets : Open(b, points)
  \/ \E s \in todo : Score(s)
  \/ NextDetector
  \/ Close
  \/ Save
  \/ Restart

Spec == Init /\ [][Next]_vars

-----------------------------------------------------------------------------
(* Properties.                                                             *)

TypeOK ==
  /\ bucket \in 0..MaxBucket
  /\ data \in Buckets \cup {NoData}
  /\ det \in 0..NumDetectors
  /\ todo \subseteq Series /\ (det = 0 => todo = {})
  /\ lru \in Seq(Keys)
  /\ models \subseteq Keys /\ saved \subseteq Keys
  /\ known \in [Ids -> SUBSET Series]
  /\ \A id \in Ids : Cardinality(known[id]) <= KnownCap
  /\ DOMAIN lastSeen \subseteq Keys
  /\ \A k \in DOMAIN lastSeen : lastSeen[k] \in 0..MaxBucket
  /\ restarts \in 0..MaxRestarts

\* However many series a job meets, the engine holds at most MaxSeries of
\* them, and in no table is one that the LRU table does not know, which no
\* eviction would ever find again: the models, the table of ticks and the table
\* of last sightings are bounded (engine/memory_test.go asks for it after one
\* long run).
CacheBounded ==
  /\ Len(lru) <= MaxSeries /\ IsInjective(lru)
  /\ models = Range(lru)
  /\ DOMAIN lastSeen \subseteq models

\* Whenever a detector is done, the series that the counts know all have a
\* model: an evicted one is forgotten, and is not scored as a zero bucket after
\* bucket, and alerted, although nobody reports it any more.
KnownResident ==
  todo = {} => \A id \in Ids : {id} \X known[id] \subseteq models

\* An eviction takes the series that were scored longest ago: whatever order
\* the loops take, none that goes was scored in a later bucket than one that
\* stays (0 for a series not scored since the restart).
Seen(k) == IF k \in DOMAIN lastSeen THEN lastSeen[k] ELSE 0

EvictsOldest ==
  [][restarts' = restarts =>
       \A gone \in models \ models', left \in models \cap models' :
         Seen(gone) <= Seen(left)]_vars

\* CHANGELOG: "a `count by host` scores a silent host as a real zero", and so no
\* series that reports in the bucket to a count of the same id.
SilentOnly(s) ==
  s \notin data[det] =>
    \A d \in CountFamily : Id[d] = Id[det] => s \notin data[d]

ZeroOnlyIfSilent == [][\A s \in todo : Score(s) => SilentOnly(s)]_vars

=============================================================================
