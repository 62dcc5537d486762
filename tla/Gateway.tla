------------------------------- MODULE Gateway -------------------------------
(***************************************************************************)
(* The way of a request through the nodes of a cluster (api/server.go,     *)
(* api/cluster.go, cluster/ring.go): the chain of handlers of each node,   *)
(* the ring that says which node owns a job, the single hop to the owner,  *)
(* and the handlers of the job's resources as far as they say which node   *)
(* holds what.  The handlers themselves are LiveServer's.                  *)
(***************************************************************************)
EXTENDS Integers, FiniteSets, FiniteSetsExt

CONSTANTS Members,      \* the nodes, integers (the ring sorts them)
          Peers,        \* [Members -> SUBSET Members]: the list each node was started with
          GateJobs,     \* names of jobs
          NoName,       \* a body without a name
          Positions,    \* [Members -> SUBSET Nat]: the hashes of each node's virtual nodes
          KeyHash,      \* [GateJobs -> Nat]
          Budget,       \* requests a node lets through before its limiter refuses
          MaxRequests   \* bound: requests sent by clients

\* Every node of a list has at least one virtual node (New replaces a number
\* of them that is not positive by 128).
ASSUME RingAssumption ==
    /\ Members \subseteq Nat /\ Peers \in [Members -> SUBSET Members]
    /\ \A m \in Members : Positions[m] \subseteq Nat /\ Positions[m] # {}
ASSUME JobsAssumption ==
    GateJobs # {} /\ NoName \notin GateJobs /\ KeyHash \in [GateJobs -> Nat]

VARIABLE net
netVars == <<net>>

(* Ring.Set: of two virtual nodes at one position the first member's stays *)
RingOf(members) ==
    LET taken(m) == {p \in Positions[m] : \E o \in members : o < m /\ p \in Positions[o]} IN
    [p \in UNION {Positions[m] : m \in members} |->
        CHOOSE m \in members : p \in Positions[m] \ taken(m)]

(* Ring.Owner: the first position at or after the key's, or the first      *)
OwnerAt(members, key) ==
    LET ring  == RingOf(members)
        after == {p \in DOMAIN ring : p >= key} IN
    ring[Min(IF after = {} THEN DOMAIN ring ELSE after)]

View(m) == {m} \cup Peers[m]
Owner(m, job) == OwnerAt(View(m), KeyHash[job])

(* A request of a client: an operation, the name in its path or body, the  *)
(* name in the job of a body, and what its headers and body are like.  The *)
(* points are such that they close a bucket worth keeping (publish); those *)
(* that do not leave what is held as it is.                                *)
Requests ==
    [op : {"create"}, name : GateJobs \cup {NoName}, spec : GateJobs,
     hop : {FALSE}, token : {TRUE}, fits : {TRUE}]
    \cup [op : {"points", "results", "analyze", "otlp"}, name : GateJobs, spec : GateJobs,
          hop : {FALSE}, token : {TRUE}, fits : {TRUE}]
    \cup [op : {"points", "health"}, name : {CHOOSE j \in GateJobs : TRUE},
          spec : {CHOOSE j \in GateJobs : TRUE}, hop : BOOLEAN, token : BOOLEAN, fits : BOOLEAN]

(* clusterKey and jobNameFromBody: the job a request is about, or NoName;  *)
(* in a body the outer name comes first.                                   *)
ClusterKeyOfBody(req) ==   \* faulty variant: the paths are not looked at
    IF req.op # "create" THEN NoName ELSE IF req.name # NoName THEN req.name ELSE req.spec
ClusterKey(req) ==
    CASE req.op = "create" -> IF req.name # NoName THEN req.name ELSE req.spec
      [] req.op \in {"points", "results"} -> req.name
      [] OTHER -> NoName

(* withAuth and withRateLimit let these through                            *)
Exempt(req) == req.op = "health"

(* withCluster *)
Forwards(m, req) ==
    /\ ~req.hop /\ ClusterKey(req) # NoName
    /\ Owner(m, ClusterKey(req)) # m

-----------------------------------------------------------------------------
(* What the handlers of one node do to what it holds, and the status.  The *)
(* limits on live jobs and on jobs with results are LiveServer's: here a   *)
(* node has fewer of them, so that Store need not drop another job's.      *)

Served(held, req) ==
    CASE req.op = "create" ->
            [held |-> [held EXCEPT !.live = @ \cup {req.spec}, !.results = @ \ {req.spec}],
             status |-> 201]
      [] req.op = "points" ->
            IF ~req.fits THEN [held |-> held, status |-> 400]
            ELSE IF req.name \in held.live
            THEN [held |-> [held EXCEPT !.results = @ \cup {req.name}], status |-> 200]
            ELSE [held |-> held, status |-> 404]
      [] req.op = "results" ->
            [held |-> held, status |-> IF req.name \in held.results THEN 200 ELSE 404]
      [] req.op = "analyze" ->
            [held |-> [held EXCEPT !.results = @ \cup {req.spec}], status |-> 200]
      [] req.op = "otlp" ->     \* to every job of this node; 200 whatever their number
            [held |-> [held EXCEPT !.results = @ \cup held.live], status |-> 200]
      [] req.op = "health" -> [held |-> held, status |-> 200]

-----------------------------------------------------------------------------
GatewayInit ==
    net = [held   |-> [m \in Members |-> [live |-> {}, results |-> {}]],
           passed |-> [m \in Members |-> 0],
           hops   |-> {},          \* forwarded requests not answered yet
           sent   |-> 0,
           made   |-> {},          \* jobs that were told created, each under the
                                   \* name that its creation went by
           fed    |-> {},          \* jobs whose owner took points or a batch of them
                                   \* that no later creation of the job has dropped
           missed |-> {}]          \* operations told 404 against that

(* A job that was created where requests for its name go                   *)
Placed(n, j) ==
    \E c \in n.made : c.job = j /\ \A m \in Members : Owner(m, c.key) = Owner(m, j)

(* The client's end of an answer                                           *)
Answered(n, req, status) ==
    [n EXCEPT
       !.made = IF req.op = "create" /\ status = 201
                THEN @ \cup {[key |-> ClusterKey(req), job |-> req.spec]} ELSE @,
       !.missed = IF /\ status = 404 /\ ~req.hop
                     /\ \/ req.op = "points" /\ Placed(n, req.name)
                        \/ req.op = "results" /\ req.name \in n.fed
                  THEN @ \cup {req.op} ELSE @]

(* What is known of the jobs' results once node m has served a request     *)
FedBy(n, m, req, status) ==
    IF req.op = "create" THEN n.fed \ {req.spec}
    ELSE n.fed \cup {j \in GateJobs : /\ status = 200 /\ Owner(m, j) = m
                                     /\ \/ req.op = "points" /\ j = req.name
                                        \/ req.op = "analyze" /\ j = req.spec}

(* The handlers in the order of Handler(): body limit (an oversized body   *)
(* is refused where it is read), token, limiter, cluster, mux.             *)
Arrive(n, m, req) ==
    IF ~Exempt(req) /\ ~req.token THEN [n |-> n, status |-> 401, at |-> "client"]
    ELSE IF ~Exempt(req) /\ n.passed[m] >= Budget THEN [n |-> n, status |-> 429, at |-> "client"]
    ELSE LET p == IF Exempt(req) THEN n ELSE [n EXCEPT !.passed[m] = @ + 1] IN
         IF Forwards(m, req)
         THEN IF ~req.fits THEN [n |-> p, status |-> 502, at |-> "client"]
              ELSE [n |-> p, status |-> 0, at |-> "owner"]
         ELSE LET r == Served(p.held[m], req) IN
              [n |-> [p EXCEPT !.held[m] = r.held, !.fed = FedBy(p, m, req, r.status)],
               status |-> r.status, at |-> "client"]

Send(m, req) ==
    /\ net.sent < MaxRequests
    /\ LET a == Arrive([net EXCEPT !.sent = @ + 1], m, req) IN
       net' = IF a.at = "client" THEN Answered(a.n, req, a.status)
              ELSE [a.n EXCEPT !.hops = @ \cup
                      {[id |-> net.sent, from |-> m, to |-> Owner(m, ClusterKey(req)), req |-> req]}]

(* forward: the owner runs its own chain on the request, marked so that it *)
(* is not forwarded again, and its answer is passed on, unless it is lost. *)
Forward(h, lost) ==
    LET a == Arrive(net, h.to, [h.req EXCEPT !.hop = TRUE])
        done == [a.n EXCEPT !.hops = @ \ {h}] IN
    net' = IF lost THEN done ELSE Answered(done, h.req, a.status)

(* The owner cannot be reached, or only after the client's 30 seconds: 502 *)
Unreachable(h) == net' = [net EXCEPT !.hops = @ \ {h}]

GatewayNext ==
    \/ \E m \in Members, req \in Requests : Send(m, req)
    \/ \E h \in net.hops, lost \in BOOLEAN : Forward(h, lost)
    \/ \E h \in net.hops : Unreachable(h)

-----------------------------------------------------------------------------
(* With one list of peers on every node, whatever node a request lands on  *)
(* and whatever answers are lost: a job is held by the owner of the name   *)
(* that its creation went by; if that node owns the job's own name too, no *)
(* request for the job's points misses it.  Results made by points are     *)
(* found by every request for them; those of /v1/analyze, which is served  *)
(* by the node it lands on and stores them there, only if that node is the *)
(* job's owner.  A node that leaves the list takes only its own jobs along. *)
Agreed == \A m, o \in Members : View(m) = View(o)

OwnerHoldsJob ==
    Agreed =>
      /\ net.missed = {}
      /\ \A c \in net.made, m \in Members : c.job \in net.held[Owner(m, c.key)].live
      /\ \A j \in GateJobs, m, gone \in Members :
           (Cardinality(View(m)) > 1 /\ OwnerAt(View(m) \ {gone}, KeyHash[j]) # Owner(m, j))
             => Owner(m, j) = gone
=============================================================================
