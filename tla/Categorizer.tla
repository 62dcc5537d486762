---------------------------- MODULE Categorizer ----------------------------
(***************************************************************************)
(* logcat: log lines become templates (drain.go), the templates of a       *)
(* bucket become records (categorize.go), and both survive a restart       *)
(* (drain_state.go).  A line is a sequence of tokens, after the masks have *)
(* put wildcards for numbers, addresses and ids.                           *)
(***************************************************************************)
EXTENDS Integers, Sequences, FiniteSets, SequencesExt, FiniteSetsExt

CONSTANTS Lines,        \* the lines, as sequences of tokens
          VarTokens,    \* the tokens that hold a digit
          Wild,         \* the wildcard
          MaxDepth, MaxChild, MaxClusters,  \* 4, 100 and 5000 in the code
          Similar,      \* simTh in percent: 40
          CatWarmup, CatMinNew, CatRareMax, CatMaxExamples,  \* 20, 3, 2 and 4
          ScoreNew, ScoreRareCategory,      \* 90 and 65
          CatThreshold, \* the job's threshold
          SpikeScore(_, _),                 \* the score of a count, given the counts before
          LastLineTime, MaxLines, MaxRestores, MaxToggles \* bounds: bucket times, lines, ...

VARIABLE cat
catVars == <<cat>>

NoneYet == [k \in {} |-> 0]
AtOr(f, k, none) == IF k \in DOMAIN f THEN f[k] ELSE none
Updated(f, k, v) == [j \in DOMAIN f \cup {k} |-> IF j = k THEN v ELSE f[j]]

-----------------------------------------------------------------------------
(* The tree.  A node is its path, <<length, key, ...>>; a cluster knows    *)
(* its leaf, and leaves keep their clusters in the order of creation.      *)
NewDrain == [nodes |-> {}, clusters |-> <<>>, next |-> 0]

Children(nodes, path) == {n \in nodes : Len(n) = Len(path) + 1 /\ SubSeq(n, 1, Len(path)) = path}

(* descend: a node that is full sends new keys to its wildcard child       *)
KeyAt(nodes, path, tok) ==
    LET key == IF tok = Wild \/ tok \in VarTokens THEN Wild ELSE tok IN
    IF Append(path, key) \notin nodes /\ Cardinality(Children(nodes, path)) >= MaxChild
    THEN Wild ELSE key

Descend(nodes, tokens) ==
    FoldLeft(LAMBDA acc, i :
               LET path == Append(acc.path, KeyAt(acc.nodes, acc.path, tokens[i])) IN
               [path |-> path, nodes |-> acc.nodes \cup {path}],
             [path |-> <<Len(tokens)>>, nodes |-> nodes \cup {<<Len(tokens)>>}],
             [i \in 1..Min({MaxDepth, Len(tokens)}) |-> i])

(* seqSim: the positions that agree and are no wildcards                   *)
Sim(template, tokens) ==
    Cardinality({i \in DOMAIN tokens : template[i] # Wild /\ template[i] = tokens[i]})

(* closest and bestMatch: the first of the most similar in the leaf, or 0  *)
Closest(clusters, leaf, tokens) ==
    LET here == {i \in DOMAIN clusters : clusters[i].leaf = leaf}
        best == {i \in here : \A j \in here : Sim(clusters[j].tokens, tokens) <= Sim(clusters[i].tokens, tokens)} IN
    IF here = {} THEN 0 ELSE Min(best)
BestMatch(clusters, leaf, tokens) ==
    LET i == Closest(clusters, leaf, tokens) IN
    IF i # 0 /\ 100 * Sim(clusters[i].tokens, tokens) >= Similar * Len(tokens) THEN i ELSE 0

Refine(template, tokens) == [i \in DOMAIN template |-> IF template[i] = tokens[i] THEN tokens[i] ELSE Wild]

(* Match: the drain afterwards and the cluster's id, 0 for none; to is     *)
(* where the tree leads.                                                   *)
MatchAt(d, tokens, to) ==
    LET full == Len(d.clusters) >= MaxClusters
        best == BestMatch(d.clusters, to.path, tokens)
        i    == IF full /\ best = 0 THEN Closest(d.clusters, to.path, tokens) ELSE best IN
    IF i # 0
    THEN [d |-> [d EXCEPT !.nodes = to.nodes, !.clusters[i].tokens = Refine(@, tokens),
                          !.clusters[i].count = @ + 1],
          id |-> d.clusters[i].id]
    ELSE IF full THEN [d |-> [d EXCEPT !.nodes = to.nodes], id |-> 0]
    ELSE [d |-> [nodes |-> to.nodes, next |-> d.next + 1,
                 clusters |-> Append(d.clusters, [id |-> d.next + 1, tokens |-> tokens, count |-> 1,
                                                  leaf |-> to.path])],
          id |-> d.next + 1]
Match(d, tokens) ==
    IF tokens = <<>> THEN [d |-> d, id |-> 0] ELSE MatchAt(d, tokens, Descend(d.nodes, tokens))

(* Export and LoadState: the tree is not saved but grown again             *)
LoadDrainAnew(s) ==   \* faulty variant: ids are given from the first again
    FoldLeft(LAMBDA acc, c :
               LET to == Descend(acc.nodes, c.tokens) IN
               [acc EXCEPT !.nodes = to.nodes, !.clusters = Append(@, [c EXCEPT !.leaf = to.path])],
             NewDrain, s.clusters)
LoadDrain(s) ==
    FoldLeft(LAMBDA acc, c :
               LET to == Descend(acc.nodes, c.tokens) IN
               [acc EXCEPT !.nodes = to.nodes, !.clusters = Append(@, [c EXCEPT !.leaf = to.path])],
             [NewDrain EXCEPT !.next = s.next], s.clusters)

-----------------------------------------------------------------------------
(* Categorizer.                                                            *)
NewCategorizer ==
    [drain |-> NewDrain, models |-> NoneYet, first |-> NoneYet, buckets |-> NoneYet,
     examples |-> NoneYet, matches |-> NoneYet, suppress |-> {}, seen |-> 0,
     pending |-> NoneYet, mark |-> -1]

(* addExample                                                              *)
AddExample(exs, line) ==
    IF Len(exs) >= CatMaxExamples \/ line \in ToSet(exs) THEN exs ELSE Append(exs, line)

(* scoreBucket, its loop over the lines: which categories they have        *)
CountLine(acc, line, m) ==
    IF m.id = 0 THEN [acc EXCEPT !.c.drain = m.d]
    ELSE [c |-> [acc.c EXCEPT !.drain = m.d,
                   !.matches  = Updated(@, m.id, AtOr(@, m.id, 0) + 1),
                   !.examples = Updated(@, m.id, AddExample(AtOr(@, m.id, <<>>), line))],
          n |-> Updated(acc.n, m.id, AtOr(acc.n, m.id, 0) + 1)]
Counted(c, lines) ==
    FoldLeft(LAMBDA acc, line : CountLine(acc, line, Match(acc.c.drain, line)),
             [c |-> c, n |-> NoneYet], lines)

(* and over the categories: a new one, a spike or a rare one               *)
RecordKind(c, id, n, buckets) ==
    LET spike == SpikeScore(AtOr(c.models, id, <<>>), n) IN
    IF id \notin DOMAIN c.first /\ n >= CatMinNew THEN [kind |-> "new", score |-> ScoreNew]
    ELSE IF spike >= CatThreshold       THEN [kind |-> "spike", score |-> spike]
    ELSE IF buckets[id] <= CatRareMax   THEN [kind |-> "rare", score |-> ScoreRareCategory]
    ELSE [kind |-> "none", score |-> -1]

ScoreCounted(c, t, counted) ==
    LET n == counted.n  ids == DOMAIN n
        buckets == [id \in ids |-> AtOr(c.buckets, id, 0) + 1]
        records == {[id |-> id, time |-> t] @@ RecordKind(c, id, n[id], buckets) :
                      id \in {i \in ids : c.seen >= CatWarmup /\ i \notin c.suppress}} IN
    [c |-> [counted.c EXCEPT
              !.first   = [id \in ids \ DOMAIN @ |-> t] @@ @,
              !.buckets = buckets @@ @,
              !.models  = [id \in ids |-> Append(AtOr(@, id, <<>>), n[id])] @@ @,
              !.seen    = @ + 1],
     recs |-> {r \in records : r.kind # "none" /\ r.score >= CatThreshold}]

ScoreLines(c, t, lines) == ScoreCounted(c, t, Counted(c, lines))

(* closeBefore, Push and Flush                                             *)
CloseBefore(c, due) ==
    LET closed(recs, t, r) == [c |-> [r.c EXCEPT !.pending = Restrict(@, DOMAIN @ \ {t})],
                               recs |-> recs \cup r.recs] IN
    FoldLeft(LAMBDA acc, t : closed(acc.recs, t, ScoreLines(acc.c, t, c.pending[t])),
             [c |-> c, recs |-> {}], SetToSortSeq(due, <))

TakeLine(c, t, line) ==
    LET new == c.mark = -1 \/ t > c.mark
        r   == IF c.mark # -1 /\ new THEN CloseBefore(c, {x \in DOMAIN c.pending : x < t})
               ELSE [c |-> c, recs |-> {}] IN
    [r EXCEPT !.c.mark = IF new THEN t ELSE @,
              !.c.pending = Updated(@, t, Append(AtOr(@, t, <<>>), line))]

Flushed(c) == CloseBefore(c, DOMAIN c.pending)

(* Snapshot and RestoreCategorizer: lines of open buckets are not saved    *)
Restored(c) == [c EXCEPT !.drain = LoadDrain(c.drain), !.pending = NoneYet]

(* Categories                                                              *)
Categories(c) ==
    {[id |-> cl.id, template |-> cl.tokens, examples |-> AtOr(c.examples, cl.id, <<>>),
      matches |-> AtOr(c.matches, cl.id, 0), buckets |-> AtOr(c.buckets, cl.id, 0),
      first |-> AtOr(c.first, cl.id, -1), suppressed |-> cl.id \in c.suppress]
       : cl \in ToSet(c.drain.clusters)}

-----------------------------------------------------------------------------
CatInit == cat = [kind |-> "none"]

MakeCategorizer ==
    /\ cat.kind = "none"
    /\ cat' = [kind |-> "cat", c |-> NewCategorizer, twin |-> NewCategorizer, lines |-> <<>>,
               news |-> <<>>, same |-> TRUE, restores |-> 0,
               toggles |-> 0]

Took(r, q) ==
    [cat EXCEPT !.c = r.c, !.twin = q.c, !.same = @ /\ r.recs = q.recs,
                !.news = @ \o SetToSeq({rec \in r.recs : rec.kind = "new"})]

PushLine(t, line) ==
    /\ cat.kind = "cat" /\ Len(cat.lines) < MaxLines
    /\ cat' = [Took(TakeLine(cat.c, t, line), TakeLine(cat.twin, t, line)) EXCEPT !.lines = Append(@, line)]

FlushLines ==
    /\ cat.kind = "cat" /\ DOMAIN cat.c.pending # {}
    /\ cat' = Took(Flushed(cat.c), Flushed(cat.twin))

(* Suppress and Unsuppress                                                 *)
Toggle(id) ==
    /\ cat.kind = "cat" /\ cat.toggles < MaxToggles
    /\ LET flip(s) == IF id \in s THEN s \ {id} ELSE s \cup {id} IN
       cat' = [cat EXCEPT !.c.suppress = flip(@), !.twin.suppress = flip(@),
                          !.toggles = @ + 1]

(* The twin goes on without a restart, but for the lines of open buckets.  *)
RestartCategorizer ==
    /\ cat.kind = "cat" /\ cat.restores < MaxRestores
    /\ cat' = [cat EXCEPT !.c = Restored(@), !.twin.pending = NoneYet, !.restores = @ + 1]

CatNext ==
    \/ MakeCategorizer
    \/ \E t \in 0..LastLineTime, line \in Lines : PushLine(t, line)
    \/ FlushLines
    \/ \E id \in (IF cat.kind = "cat" THEN {c.id : c \in ToSet(cat.c.drain.clusters)} ELSE {}) : Toggle(id)
    \/ RestartCategorizer

-----------------------------------------------------------------------------
(* A restart between any two lines is not noticed: the tree that is grown  *)
(* again from the saved templates, some of them with wildcards where their *)
(* first line had words, sends every later line to the template it would   *)
(* have gone to, and the records and definitions stay the same.  (As long  *)
(* as there is room for clusters: a full categorizer grows nodes for lines *)
(* that it drops, and a restart forgets those.)                            *)
RestartUnnoticed ==
    (/\ cat.kind = "cat"
     /\ Len(cat.c.drain.clusters) < MaxClusters /\ Len(cat.twin.drain.clusters) < MaxClusters)
      => cat.same /\ Categories(cat.c) = Categories(cat.twin)

(* Templates only become more general: every example of a category, from   *)
(* whatever bucket, agrees with its template where that has no wildcard.   *)
(* A category is reported as new at most once, for all restarts and late   *)
(* lines.  A category has no fewer matches than examples or buckets, and   *)
(* all of them together count no line twice: no more matches than lines    *)
(* that came (fewer, as lines may be pending, lost by a restart or without *)
(* a category).                                                            *)
TemplatesCover ==
    cat.kind = "cat" =>
      /\ \A d \in Categories(cat.c) :
           \A i \in DOMAIN d.examples : Len(d.examples[i]) = Len(d.template)
              /\ \A j \in DOMAIN d.template : d.template[j] \in {Wild, d.examples[i][j]}
      /\ \A i, j \in DOMAIN cat.news : cat.news[i].id = cat.news[j].id => i = j
      /\ \A d \in Categories(cat.c) : d.matches >= Len(d.examples) /\ d.buckets <= d.matches
      /\ MapThenSumSet(LAMBDA d : d.matches, Categories(cat.c)) <= Len(cat.lines)
=============================================================================
