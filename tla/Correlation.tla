----------------------------- MODULE Correlation -----------------------------
(***************************************************************************)
(* How symptoms of several jobs and recorded changes become incidents      *)
(* (correlate/correlate.go, and what api/incidents.go makes of a request): *)
(* union-find over the pairs that are linked within a window, one incident *)
(* per class that holds a symptom, and a ranking of its members as root    *)
(* cause.                                                                  *)
(*                                                                         *)
(* Scores of the ranking are integers: its weights in percent, and Grain   *)
(* for one whole, a multiple of every denominator that occurs.             *)
(***************************************************************************)
EXTENDS Selections, FiniteSetsExt, SequencesExt, Topology

CONSTANTS Symptoms,       \* [job, time, score, kind, ents]; ents maps a key to a value
          Changes,        \* [name, time, ents]
          Graphs,         \* dependency graphs: sets of <<caller, callee>>
          CorrWindow, CoWindow, MinScore,
          CoarseFrom,     \* 4 in the code: from how many symptoms an entity can be coarse
          MaxChanges,     \* 1000 in the code
          TopCauses,      \* 5 in the code
          Grain,
          MaxSymptoms     \* bound: symptoms of one request

\* Labels are finitely many, scores are not negative, and a cause is named.
ASSUME CorrelationAssumption ==
    /\ \A s \in Symptoms : s.time \in Int /\ s.score \in Nat /\ IsFiniteSet(DOMAIN s.ents)
    /\ \A c \in Changes : c.time \in Int /\ IsFiniteSet(DOMAIN c.ents)
    /\ IsFiniteSet(Symptoms) /\ MaxChanges \in Nat
    /\ Grain \in Nat \ {0} /\ TopCauses \in Nat \ {0}

VARIABLE corr
corrVars == <<corr>>

Tags(ents) == {<<k, ents[k]>> : k \in DOMAIN ents}
Service(item) == IF "service" \in DOMAIN item.ents THEN item.ents["service"] ELSE "none"

(* Correlate: the symptoms over the score, then the changes, by time; the  *)
(* sort leaves those of one time in any order.                             *)
Item(s) == [job |-> s.job, time |-> s.time, score |-> s.score, ents |-> s.ents, change |-> FALSE]
ChangeItem(c) == [job |-> c.name, time |-> c.time, score |-> 0, ents |-> c.ents, change |-> TRUE]

Orders(symptoms, changes) ==
    LET all == [i \in 1..Len(symptoms) |-> Item(symptoms[i])]
               \o [i \in 1..Len(changes) |-> ChangeItem(changes[i])]
        kept == Subsequence(all, {i \in DOMAIN all : all[i].change \/ all[i].score >= MinScore})
        n == Len(kept)
        sorted(p) == \A i \in 1..n - 1 : kept[p[i]].time <= kept[p[i + 1]].time IN
    {[i \in 1..n |-> kept[p[i]]] : p \in {q \in [1..n -> 1..n] : IsInjective(q) /\ sorted(q)}}

(* coarseEntities: what more than half of the symptoms carry links none.   *)
Coarse(items) ==
    LET syms == {i \in DOMAIN items : ~items[i].change}
        tags == UNION {Tags(items[i].ents) : i \in syms} IN
    IF Cardinality(syms) < CoarseFrom THEN {}
    ELSE {t \in tags : Cardinality({i \in syms : t \in Tags(items[i].ents)})
                         > Cardinality(syms) \div 2}

SharesEntity(a, b, coarse) == (Tags(a.ents) \cap Tags(b.ents)) \ coarse # {}

Linked(a, b, gap, graph, coarse) ==
    \/ SharesEntity(a, b, coarse)
    \/ /\ Service(a) # "none" /\ Service(b) # "none"
       /\ Related(graph, Service(a), Service(b))
    \/ gap <= CoWindow /\ a.job # b.job

(* group: each item i is joined with the linked ones before it, the        *)
(* nearest (d places back) first; times are sorted, so where the code      *)
(* stops at the window no farther item would be linked.                    *)
MergedOne(root, i, j) == [root EXCEPT ![j] = root[i]]   \* faulty variant: not the whole class
Merged(root, i, j) == [k \in DOMAIN root |-> IF root[k] = root[j] THEN root[i] ELSE root[k]]

JoinsPair(items, graph, coarse, i, j) ==
    LET gap == items[i].time - items[j].time IN
    gap <= CorrWindow /\ Linked(items[i], items[j], gap, graph, coarse)

JoinedOne(items, graph, coarse, root, i, j) ==
    IF JoinsPair(items, graph, coarse, i, j) THEN Merged(root, i, j) ELSE root

Joined(items, graph, coarse, root, i) ==
    FoldLeft(LAMBDA r, d : JoinedOne(items, graph, coarse, r, i, i - d), root,
             [d \in 1..i - 1 |-> d])

Roots(items, graph) ==
    LET coarse == Coarse(items)  each == [i \in DOMAIN items |-> i] IN
    FoldLeft(LAMBDA root, i : Joined(items, graph, coarse, root, i), each, each)

Groups(items, graph) ==
    LET root == Roots(items, graph) IN
    {{i \in DOMAIN items : root[i] = r} : r \in {root[k] : k \in DOMAIN items}}

Share(a, b) == (Grain * a) \div b

(* breadth: the share of the incident's entities that the item has in      *)
(* common with another of its members                                      *)
Breadth(items, idx, i) ==
    LET all == UNION {Tags(items[k].ents) : k \in idx}
        hit == {t \in Tags(items[i].ents) : \E k \in idx \ {i} : t \in Tags(items[k].ents)} IN
    IF all = {} THEN 0 ELSE Share(Cardinality(hit), Cardinality(all))

(* rank: what speaks for each member as the origin                         *)
Confidence(items, idx, graph, i) ==
    LET start == items[Min(idx)].time  end == items[Max(idx)].time
        first == Min({end} \cup {items[k].time : k \in {k \in idx : ~items[k].change}})
        top   == Max({items[k].score : k \in idx})
        services == {Service(items[k]) : k \in idx} \ {"none"}
        others == services \ {Service(items[i])}
        upstream == UpstreamOf(graph, Service(items[i]), others, MaxDepth) IN
      25 * (IF end > start THEN Grain - Share(items[i].time - start, end - start) ELSE Grain)
    + (IF items[i].change /\ items[i].time <= first THEN 30 * Grain ELSE 0)
    + (IF Cardinality(services) > 1 /\ Service(items[i]) # "none"
       THEN 35 * Share(upstream, Cardinality(others)) ELSE 0)
    + (IF top > 0 THEN 10 * Share(items[i].score, top) ELSE 0)
    + 10 * Breadth(items, idx, i)

Outranks(items, conf, i, j) ==
    \/ conf[i] > conf[j]
    \/ conf[i] = conf[j] /\ items[i].time < items[j].time
    \/ conf[i] = conf[j] /\ items[i].time = items[j].time /\ i < j

\* In the place of a member are as many as come before it.
Causes(items, idx, graph) ==
    LET conf == [i \in idx |-> Confidence(items, idx, graph, i)] IN
    [k \in 1..Min({TopCauses, Cardinality(idx)}) |->
        CHOOSE i \in idx : Cardinality({j \in idx : Outranks(items, conf, j, i)}) = k - 1]

(* build; the code's ID is the start with the names of the jobs.           *)
Incident(items, idx, graph) ==
    [start  |-> items[Min(idx)].time, end |-> items[Max(idx)].time,
     idx    |-> idx,
     jobs   |-> {items[i].job : i \in {k \in idx : ~items[k].change}},
     max    |-> Max({items[i].score : i \in idx}),
     causes |-> Causes(items, idx, graph)]

Incidents(items, graph) ==
    {Incident(items, idx, graph) :
        idx \in {g \in Groups(items, graph) : \E i \in g : ~items[i].change}}

-----------------------------------------------------------------------------
CorrelationInit == corr = [log |-> <<>>, items |-> <<>>, graph |-> {}, out |-> {}]

(* RecordChange: the log keeps the last of them.                           *)
RecordChange(c) ==
    /\ corr.items = <<>> /\ Len(corr.log) < MaxChanges + 1
    /\ c \notin ToSet(corr.log)
    /\ corr' = [corr EXCEPT !.log = LET l == Append(@, c) IN
                  IF Len(l) > MaxChanges THEN SubSeq(l, Len(l) - MaxChanges + 1, Len(l)) ELSE l]

GraphOf(calls) == [edges |-> [e \in calls |-> 1]]

Correlate(symptoms, graph) ==
    /\ corr.items = <<>>
    /\ \E items \in Orders(symptoms, corr.log) :
         /\ items # <<>>
         /\ corr' = [corr EXCEPT !.items = items, !.graph = graph,
                                 !.out = Incidents(items, GraphOf(graph))]

Batches == {S \in SUBSET Symptoms : Cardinality(S) \in 1..MaxSymptoms}

CorrelationNext ==
    \/ \E c \in Changes : RecordChange(c)
    \/ \E S \in Batches, g \in Graphs : Correlate(SetToSeq(S), g)

-----------------------------------------------------------------------------
(* Two items are of one incident exactly when a chain of linked pairs, each *)
(* within the window, joins them: the order of the unions, of items of one *)
(* time and the break of the inner loop decide nothing.  Every symptom is  *)
(* in one incident, and no incident is made of changes alone.              *)
Adjacent(items, graph, i, j) ==
    \/ i > j /\ JoinsPair(items, graph, Coarse(items), i, j)
    \/ j > i /\ JoinsPair(items, graph, Coarse(items), j, i)

Farther(items, graph, pairs) ==
    {p \in (DOMAIN items) \X (DOMAIN items) : \E m \in DOMAIN items :
        <<p[1], m>> \in pairs /\ (m = p[2] \/ Adjacent(items, graph, m, p[2]))}

Chained(items, graph) ==
    LET n == Len(items)
        reach[k \in 0..n] == IF k = 0 THEN {<<i, i>> : i \in 1..n}
                             ELSE Farther(items, graph, reach[k - 1])
    IN reach[n]

IncidentsAreChains ==
    corr.items # <<>> =>
      LET items == corr.items  chained == Chained(items, GraphOf(corr.graph)) IN
      /\ \A inc \in corr.out : \A i \in inc.idx, j \in DOMAIN items :
            j \in inc.idx <=> <<i, j>> \in chained
      /\ \A i \in DOMAIN items : ~items[i].change => \E inc \in corr.out : i \in inc.idx
      /\ \A inc \in corr.out : inc.jobs # {}

(* A change made before the symptoms is named as the origin, unless one of *)
(* the services affected depends on the service of another candidate; and  *)
(* a change that came after the first symptom is not named before a        *)
(* symptom that came with that first one and scored no less than any, and  *)
(* more than nothing.                                                      *)
ChangeIsOrigin ==
    \A inc \in corr.out :
       LET items == corr.items
           up(i) == \E s \in {Service(items[k]) : k \in inc.idx} \ {"none"} :
                       Reaches(GraphOf(corr.graph), s, Service(items[i]), MaxDepth)
           early == {i \in inc.idx : items[i].change /\ items[i].time = inc.start}
           first == inc.causes[1] IN
       /\ (early # {} /\ \A i \in inc.idx : ~up(i)) => items[first].change
       /\ \A k \in inc.idx :
            (~items[k].change /\ items[k].time = inc.start /\ items[k].score = inc.max /\ inc.max > 0)
              => ~(items[first].change /\ items[first].time > inc.start /\ ~up(first))
=============================================================================
