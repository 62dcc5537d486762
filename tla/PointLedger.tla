----------------------------- MODULE PointLedger -----------------------------
(***************************************************************************)
(* What a streaming engine promises about the points it is given, whatever *)
(* it holds them in: each is refused on arrival, or held and later         *)
(* reported; whole buckets are reported, the oldest first; and once points *)
(* have been reported no older point is taken in.  The promise is that of  *)
(* engine.Engine's Push and Flush to watch, the API and the datafeeds.     *)
(***************************************************************************)
EXTENDS Integers

CONSTANTS
  Points,   \* the points the stream may carry
  Buckets   \* their bucket starts, numbers not below 0

VARIABLES
  bucket,    \* bucket of each point known so far
  held,      \* points taken in and not yet reported
  reported,  \* points a returned BucketResult was scored on
  refused    \* points counted as late and dropped

vars == <<bucket, held, reported, refused>>

Known == held \cup reported \cup refused

\* The points of R are those of the oldest buckets held.
Oldest(R) == \A j \in R, k \in held \ R : bucket[j] < bucket[k]

Refuse(i, b) ==
  /\ i \notin Known
  /\ refused' = refused \cup {i}
  /\ bucket' = [bucket EXCEPT ![i] = b]
  /\ UNCHANGED <<held, reported>>

\* Taking a point in may report the oldest buckets; the point itself is never
\* older than anything reported.
Take(i, b) ==
  /\ i \notin Known
  /\ bucket' = [bucket EXCEPT ![i] = b]
  /\ \E R \in SUBSET held :
       /\ Oldest(R)
       /\ held' = (held \ R) \cup {i}
       /\ reported' = reported \cup R
       /\ \A j \in reported' : bucket[j] <= b
  /\ UNCHANGED refused

ReportAll ==
  /\ reported' = reported \cup held
  /\ held' = {}
  /\ UNCHANGED <<bucket, refused>>

Init ==
  /\ bucket \in [Points -> {-1}]
  /\ held = {}
  /\ reported = {}
  /\ refused = {}

Next ==
  \/ ReportAll
  \/ \E i \in Points, b \in Buckets : Refuse(i, b) \/ Take(i, b)

Spec == Init /\ [][Next]_vars

=============================================================================
