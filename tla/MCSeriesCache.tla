--------------------------- MODULE MCSeriesCache ---------------------------
(* A job for SeriesCache, as the catalogue's nginx template has it: a count *)
(* by host, a count by status class, and the mean of a field by host.       *)
EXTENDS SeriesCache

CONSTANTS h1, h2, c1

JobIds == <<"count", "count", "mean(v)">>
JobCounts == {1, 2}

\* A point has a host and a class, and the field or not.
Points == [host: {h1, h2}, class: {c1}, valued: BOOLEAN]

Grouped(P) ==
  <<{p.host : p \in P}, {p.class : p \in P}, {p.host : p \in {q \in P : q.valued}}>>

JobBuckets == {Grouped(P) : P \in SUBSET Points}

=============================================================================
