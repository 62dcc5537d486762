------------------------------ MODULE Topology ------------------------------
(***************************************************************************)
(* The dependency graph learned from traces (topology/topology.go).  Spans *)
(* arrive in any order, some twice; a call is an edge between the services *)
(* of a span and of its parent.  A span whose parent is not known yet      *)
(* waits among the orphans of that parent.  The index of spans and the     *)
(* orphans are bounded by MaxSpans; neither is in the snapshot.            *)
(***************************************************************************)
EXTENDS Integers, FiniteSets, Sequences, FiniteSetsExt, SequencesExt

CONSTANTS Spans,          \* records [id, parent, service, err, timed]; parent NoSpan for a root
          NoSpan,
          MaxSpans,       \* g.MaxSpans: 200000 in the code
          MaxDurations,   \* g.MaxSamples: 1000 in the code
          MaxDepth,       \* the depth asked of Reaches
          MaxObserved     \* bound: spans delivered, repeated deliveries included

\* Observe skips a span without an id; a delivery of the same id is the same span.
ASSUME SpansAssumption == \A s, t \in Spans : s.id # NoSpan /\ (s.id = t.id => s = t)
ASSUME SizesAssumption == MaxSpans \in Nat \ {0} /\ MaxDurations \in Nat /\ MaxDepth \in Nat

VARIABLE topo             \* the graph, and the spans delivered so far
topoVars == <<topo>>

Services == {s.service : s \in Spans}

EmptyGraph == [nodes |-> <<>>, edges |-> <<>>, spans |-> <<>>, fifo |-> <<>>,
               orphans |-> <<>>, orphanCount |-> 0]

Without(f, keys) == [k \in DOMAIN f \ keys |-> f[k]]
Updated(f, k, v)    == [x \in DOMAIN f \cup {k} |-> IF x = k THEN v ELSE f[x]]
GetOr(f, k, v)   == IF k \in DOMAIN f THEN f[k] ELSE v

CountSpan(g, s) ==
    LET n == GetOr(g.nodes, s.service, [spans |-> 0, errors |-> 0]) IN
    [g EXCEPT !.nodes = Updated(@, s.service,
        [spans |-> n.spans + 1, errors |-> n.errors + (IF s.err THEN 1 ELSE 0)])]

(* addEdge: a call inside one service is not an edge.                      *)
NoCalls == [calls |-> 0, errors |-> 0, durations |-> 0]
AddEdge(edges, caller, callee) ==
    LET key == <<caller, callee.service>>
        e   == GetOr(edges, key, NoCalls) IN
    IF caller = callee.service THEN edges
    ELSE Updated(edges, key,
            [calls |-> e.calls + 1,
             errors |-> e.errors + (IF callee.err THEN 1 ELSE 0),
             durations |-> IF callee.timed /\ e.durations < MaxDurations
                           THEN e.durations + 1 ELSE e.durations])

(* indexSpan: the oldest ids leave an index that is full.                  *)
IndexSpan(g, s) ==
    LET fifo == IF s.id \in DOMAIN g.spans THEN g.fifo ELSE Append(g.fifo, s.id)
        drop == IF Len(fifo) > MaxSpans THEN Len(fifo) - MaxSpans ELSE 0 IN
    [g EXCEPT !.fifo = SubSeq(fifo, drop + 1, Len(fifo)),
              !.spans = Without(Updated(@, s.id, s), {fifo[i] : i \in 1..drop})]

(* The orphans that waited for this span become calls of its service.      *)
CalledBy(edges, service, kids) ==
    LET linked[i \in 0..Len(kids)] ==
            IF i = 0 THEN edges ELSE AddEdge(linked[i - 1], service, kids[i]) IN
    linked[Len(kids)]
AdoptUncounted(g, s) ==   \* faulty variant: the running count stays
    [g EXCEPT !.edges = CalledBy(@, s.service, GetOr(g.orphans, s.id, <<>>)),
              !.orphans = Without(@, {s.id})]
Adopt(g, s) ==
    LET kids == GetOr(g.orphans, s.id, <<>>) IN
    [g EXCEPT !.edges = CalledBy(@, s.service, kids),
              !.orphans = Without(@, {s.id}), !.orphanCount = @ - Len(kids)]

(* trimOrphans: whole lists go, in the order the map yields them.  The     *)
(* spans that wait are counted by their places in the lists.               *)
WaitingFor(orphans, parents) == UNION {{p} \X DOMAIN orphans[p] : p \in parents}
Trimmings(g) ==
    LET all == DOMAIN g.orphans
        left(gone) == g.orphanCount - Cardinality(WaitingFor(g.orphans, gone))
        trims == {gone \in SUBSET all :
                    /\ left(gone) <= MaxSpans \/ gone = all
                    /\ gone # {} => \E p \in gone : left(gone \ {p}) > MaxSpans} IN
    {[g EXCEPT !.orphans = Without(@, gone), !.orphanCount = left(gone)] : gone \in trims}

(* One span of Observe: the graphs it may lead to                          *)
Observed(g, s) ==
    LET h == Adopt(IndexSpan(CountSpan(g, s), s), s) IN
    IF s.parent = NoSpan THEN {h}
    ELSE IF s.parent \in DOMAIN h.spans
    THEN {[h EXCEPT !.edges = AddEdge(@, h.spans[s.parent].service, s)]}
    ELSE Trimmings([h EXCEPT !.orphans = Updated(@, s.parent, Append(GetOr(@, s.parent, <<>>), s)),
                             !.orphanCount = @ + 1])

Related(g, a, b) == a # b /\ {<<a, b>>, <<b, a>>} \cap DOMAIN g.edges # {}

(* Reaches: a breadth-first search of bounded depth                        *)
Reaches(g, from, to, depth) ==
    LET callees(front) == {e[2] : e \in {e \in DOMAIN g.edges : e[1] \in front}}
        level[d \in 0..depth] ==     \* what is seen after d rounds, and the last of it
            IF d = 0 THEN [seen |-> {from}, front |-> {from}]
            ELSE LET next == callees(level[d - 1].front) \ level[d - 1].seen IN
                 [seen |-> level[d - 1].seen \cup next, front |-> next] IN
    from # to /\ to \in level[depth].seen

UpstreamOf(g, service, others, depth) ==
    Cardinality({o \in others : Reaches(g, o, service, depth)})

-----------------------------------------------------------------------------
TopologyInit == topo = [graph |-> EmptyGraph, got |-> <<>>, restarts |-> 0]

Observe(s) ==
    /\ Len(topo.got) < MaxObserved
    /\ \E g \in Observed(topo.graph, s) :
         topo' = [topo EXCEPT !.graph = g, !.got = Append(@, s)]

(* Snapshot, and Restore into a new graph: edges and nodes only            *)
RestoreGraph ==
    /\ topo.restarts = 0 /\ topo.got # <<>>
    /\ topo' = [topo EXCEPT !.restarts = 1,
                  !.graph = [EmptyGraph EXCEPT !.nodes = topo.graph.nodes,
                                               !.edges = topo.graph.edges]]

TopologyNext == (\E s \in Spans : Observe(s)) \/ RestoreGraph

-----------------------------------------------------------------------------
(* The calls of an edge that the spans tell, each delivery of a child      *)
(* counted, whatever the order parents and children came in                *)
CallsTold(caller, callee) ==
    {i \in DOMAIN topo.got :
        /\ topo.got[i].service = callee
        /\ \E j \in DOMAIN topo.got : /\ topo.got[j].id = topo.got[i].parent
                                      /\ topo.got[j].service = caller}

(* Whatever the order and repetitions of the spans, an edge counts every   *)
(* call the spans tell when nothing was evicted or lost to a restart, and  *)
(* never more; the bounds hold, and the running count of orphans is the    *)
(* number of them.                                                         *)
EdgesTellCalls ==
    LET g == topo.graph
        whole == topo.restarts = 0 /\ Len(topo.got) <= MaxSpans IN
    /\ \A a, b \in Services :
         LET told == CallsTold(a, b)
             e == GetOr(g.edges, <<a, b>>, NoCalls) IN
         a # b => /\ e.calls <= Cardinality(told)
                  /\ e.errors <= Cardinality({i \in told : topo.got[i].err})
                  /\ e.durations <= MaxDurations
                  /\ whole => /\ e.calls = Cardinality(told)
                              /\ e.errors = Cardinality({i \in told : topo.got[i].err})
    /\ Len(g.fifo) <= MaxSpans /\ ToSet(g.fifo) = DOMAIN g.spans /\ IsInjective(g.fifo)
    /\ g.orphanCount = Cardinality(WaitingFor(g.orphans, DOMAIN g.orphans))
    /\ g.orphanCount <= MaxSpans
    /\ DOMAIN g.orphans \cap DOMAIN g.spans = {}

(* The search finds what is reachable: one service reaches another within  *)
(* a depth when it calls it, or calls one that reaches it within one less. *)
ReachesIsReachability ==
    \A a, b \in Services, d \in 1..MaxDepth :
       a # b => (Reaches(topo.graph, a, b, d) <=>
                   \/ <<a, b>> \in DOMAIN topo.graph.edges
                   \/ d > 1 /\ \E c \in Services :
                        <<a, c>> \in DOMAIN topo.graph.edges /\ Reaches(topo.graph, c, b, d - 1))
=============================================================================
