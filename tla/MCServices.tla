----------------------------- MODULE MCServices -----------------------------
(***************************************************************************)
(* The server's components that do not call one another, for TLC in one    *)
(* run: a behaviour moves one of them and leaves the others where they     *)
(* start, so that the states of each are those it has alone.               *)
(***************************************************************************)
EXTENDS MCIncidentTracker, Versions, Correlation, Gateway, Resources, Slo, MCDatafeed

\* A trace over three services: a call, a call within a service, a return.
Sent(i, p, s, e) == [id |-> i, parent |-> p, service |-> s, err |-> e, timed |-> TRUE]
TraceSpans == {Sent(1, 0, "a", FALSE), Sent(2, 1, "b", TRUE), Sent(3, 2, "c", FALSE),
               Sent(4, 2, "b", FALSE), Sent(5, 3, "a", FALSE)}

\* Symptoms with a service, a host, both or neither, and two changes.
NoEntity == [k \in {} |-> 0]
Serves(v) == [service |-> v]
Runs(v, h) == [service |-> v, host |-> h]
Symptom(j, t, s, e) == [job |-> j, time |-> t, score |-> s, ents |-> e]
SomeSymptoms ==
    {Symptom("a", 0, 2, NoEntity), Symptom("a", 2, 1, Serves("x")),
     Symptom("b", 1, 2, Runs("y", "h")), Symptom("a", 3, 2, Runs("z", "h")),
     Symptom("b", 3, 0, NoEntity), Symptom("a", 1, 1, Serves("x"))}
SomeChanges == {[name |-> "d", time |-> 0, ents |-> Serves("x")],
                [name |-> "e", time |-> 2, ents |-> NoEntity]}
SomeGraphs == {{}, {<<"x", "y">>, <<"y", "z">>}}

\* Two nodes that know each other, each owning one of two jobs.
FullMesh == [m \in Members |-> Members]
RingPositions == 1 :> {2, 5} @@ 2 :> {3, 5}
JobHash == [j \in GateJobs |-> IF j = "a" THEN 3 ELSE 4]

RateScopes == <<1, 2>>
NineInTen == <<9, 10>>
FastRate == <<3, 2>>
SlowRate == <<1, 1>>

VARIABLE part  \* the component that this behaviour is about

ServicesInit ==
    /\ part \in {"tracker", "store", "topology", "correlation", "gateway",
              "forecasts", "filters", "limiter", "slos", "datafeed"}
    /\ Init /\ VersionsInit /\ TopologyInit /\ CorrelationInit /\ GatewayInit
    /\ ForecastsInit /\ FiltersInit /\ LimiterInit /\ SloInit /\ FeedInit

ServicesNext ==
    /\ UNCHANGED part
    /\ \/ /\ part = "tracker" /\ Next
          /\ UNCHANGED <<storeVars, topoVars, corrVars, netVars, forecastVars,
                         filterVars, limiterVars, sloVars, feedVars>>
       \/ /\ part = "store" /\ VersionsNext
          /\ UNCHANGED <<vars, topoVars, corrVars, netVars, forecastVars,
                         filterVars, limiterVars, sloVars, feedVars>>
       \/ /\ part = "topology" /\ TopologyNext
          /\ UNCHANGED <<vars, storeVars, corrVars, netVars, forecastVars,
                         filterVars, limiterVars, sloVars, feedVars>>
       \/ /\ part = "correlation" /\ CorrelationNext
          /\ UNCHANGED <<vars, storeVars, topoVars, netVars, forecastVars,
                         filterVars, limiterVars, sloVars, feedVars>>
       \/ /\ part = "gateway" /\ GatewayNext
          /\ UNCHANGED <<vars, storeVars, topoVars, corrVars, forecastVars,
                         filterVars, limiterVars, sloVars, feedVars>>
       \/ /\ part = "forecasts" /\ ForecastsNext
          /\ UNCHANGED <<vars, storeVars, topoVars, corrVars, netVars,
                         filterVars, limiterVars, sloVars, feedVars>>
       \/ /\ part = "filters" /\ FiltersNext
          /\ UNCHANGED <<vars, storeVars, topoVars, corrVars, netVars,
                         forecastVars, limiterVars, sloVars, feedVars>>
       \/ /\ part = "limiter" /\ LimiterNext
          /\ UNCHANGED <<vars, storeVars, topoVars, corrVars, netVars,
                         forecastVars, filterVars, sloVars, feedVars>>
       \/ /\ part = "slos" /\ SloNext
          /\ UNCHANGED <<vars, storeVars, topoVars, corrVars, netVars,
                         forecastVars, filterVars, limiterVars, feedVars>>
       \/ /\ part = "datafeed" /\ FeedNext
          /\ UNCHANGED <<vars, storeVars, topoVars, corrVars, netVars,
                         forecastVars, filterVars, limiterVars, sloVars>>

ServicesSpec ==
    ServicesInit /\ [][ServicesNext]_<<part, vars, storeVars, topoVars, corrVars, netVars,
                      forecastVars, filterVars, limiterVars, sloVars, feedVars>>

-----------------------------------------------------------------------------
(* The properties, each of the component that moves.  They are stated, and *)
(* explained, in the component's module; the tracker's are checked as they *)
(* are.                                                                    *)

(* Versions: what "version restore" takes is a whole state file that was   *)
(* saved, whatever was pruned and wherever the process stopped, and the    *)
(* result log keeps every record that was acknowledged.                    *)
StoreStands == part = "store" => VersionsStand /\ LogKeepsRecords

(* Topology: an edge counts the calls its spans tell, in whatever order    *)
(* they come, and what a service reaches is what the edges lead to.        *)
TopologyTells == part = "topology" => EdgesTellCalls /\ ReachesIsReachability

(* Correlation: an incident is a chain of symptoms, each near the next,    *)
(* and a change is named as the origin only when it can be one.            *)
IncidentsStand == part = "correlation" => IncidentsAreChains /\ ChangeIsOrigin

(* Gateway: a job is held by the owner of the name that its creation went  *)
(* by, and what the owner has taken of a job is found from every node.     *)
GatewayRoutes == part = "gateway" => OwnerHoldsJob

(* Resources: a forecast that was promised is there until it expires, a    *)
(* filter list and the limiter's buckets stay within what was configured.  *)
ResourcesKept ==
    /\ part = "forecasts" => ForecastsKept
    /\ part = "filters" => FiltersStand
    /\ part = "limiter" => RateKept

(* Slo: pruning is not seen in a report, and more errors never make one    *)
(* better.                                                                 *)
ReportsStand == part = "slos" => PruningUnseen /\ ErrorsNeverHelp

(* Datafeed: the chunks of a fetch cover its window, its pages move on,    *)
(* and its counts read every page.                                         *)
FetchesCover == part = "datafeed" => ChunksCoverWindow /\ PagesAdvance /\ CountsReadWhole

=============================================================================
