-------------------------- MODULE MCServices_proofs --------------------------
(***************************************************************************)
(* Theorems about the components of MCServices, the gateway, the state     *)
(* files, the server's stores, the topology, the incidents and the fetches *)
(* among them, for all values of their constants.  As no step moves two of *)
(* them, each has an inductive invariant of its own.                       *)
(***************************************************************************)
EXTENDS MCServices, Selections_proofs, SequenceTheorems, FunctionTheorems, WellFoundedInduction,
        NaturalsInduction, TLAPS

allVars == <<part, vars, storeVars, topoVars, corrVars, netVars,
             forecastVars, filterVars, limiterVars, sloVars, feedVars>>

\* A step of the server is a step of a component or leaves it alone.
LEMMA Steps ==
  [ServicesNext]_allVars =>
    /\ [VersionsNext]_storeVars /\ [GatewayNext]_netVars
    /\ [ForecastsNext]_forecastVars /\ [FiltersNext]_filterVars
    /\ [LimiterNext]_limiterVars /\ [SloNext]_sloVars /\ [TopologyNext]_topoVars
    /\ [CorrelationNext]_corrVars /\ [FeedNext]_feedVars
BY DEF allVars, ServicesNext

-----------------------------------------------------------------------------
(* The ring.                                                               *)

\* Position p, of member o, is where a key k comes to on the ring of V: the
\* first at or after it, or the first of all.
Decides(V, k, p, o) ==
  /\ o \in V /\ p \in Positions[o]
  /\ \A n \in V : n < o => p \notin Positions[n]
  /\ \A n \in V : \A q \in Positions[n] :
       (q >= k => p >= k /\ p <= q) /\ (p < k => p <= q)

LEMMA OwnerDecides ==
  ASSUME NEW V \in SUBSET Members, V # {}, NEW k \in Nat
  PROVE  \E p \in Nat : Decides(V, k, p, OwnerAt(V, k))
<1>. DEFINE D == UNION {Positions[m] : m \in V}
            after == {p \in D : p >= k}
            found == IF after = {} THEN D ELSE after
            p == Min(found)
<1>1. D \subseteq Nat /\ D # {} /\ V \subseteq Nat
  <2>1. PICK m \in V : TRUE
    OBVIOUS
  <2>2. Positions[m] # {} /\ Positions[m] \subseteq D
    BY RingAssumption
  <2>3. V \subseteq Nat /\ \A n \in V : Positions[n] \subseteq Nat
    BY RingAssumption
  <2>. QED BY <2>2, <2>3
<1>2. DOMAIN RingOf(V) = D
  BY DEF RingOf
<1>3. OwnerAt(V, k) = RingOf(V)[p]
  BY <1>2 DEF OwnerAt
<1>4. found \in SUBSET Nat /\ found # {}
  BY <1>1
<1>5. p \in found /\ \A q \in found : p <= q
  BY <1>4, LeastIn
<1>6. p \in D /\ p \in Nat
  BY <1>5, <1>1
<1>. DEFINE owners == {m \in V : p \in Positions[m]}
            taken(m) == {q \in Positions[m] : \E o \in V : o < m /\ q \in Positions[o]}
<1>7. Min(owners) \in owners /\ \A m \in owners : Min(owners) <= m
  <2>1. owners \in SUBSET Nat /\ owners # {}
    BY <1>1, <1>6
  <2>. QED BY <2>1, LeastIn
<1>8. Min(owners) \in V /\ p \in Positions[Min(owners)] \ taken(Min(owners))
  <2>1. ASSUME NEW o \in V, p \in Positions[o] PROVE ~(o < Min(owners))
    <3>. DEFINE least == Min(owners)
    <3>1. o \in owners
      BY <2>1
    <3>2. least <= o /\ least \in Nat /\ o \in Nat
      BY <3>1, <1>7, <1>1
    <3>. HIDE DEF least
    <3>3. ~(o < least)
      BY <3>2
    <3>. QED BY <3>3 DEF least
  <2>. QED BY <1>7, <2>1
<1>9. RingOf(V)[p] = CHOOSE m \in V : p \in Positions[m] \ taken(m)
  BY <1>6 DEF RingOf
<1>10. OwnerAt(V, k) \in V /\ p \in Positions[OwnerAt(V, k)] \ taken(OwnerAt(V, k))
  BY <1>3, <1>8, <1>9
<1>11. \A n \in V : n < OwnerAt(V, k) => p \notin Positions[n]
  BY <1>10
<1>12. ASSUME NEW n \in V, NEW q \in Positions[n]
       PROVE  (q >= k => p >= k /\ p <= q) /\ (p < k => p <= q)
  <2>1. q \in D /\ q \in Nat
    BY <1>1
  <2>2. CASE q >= k
    <3>1. found = after /\ q \in found
      BY <2>1, <2>2
    <3>. QED BY <3>1, <1>5, <1>6, <2>1
  <2>3. CASE p < k
    <3>1. found = D
      BY <1>5, <1>6, <2>3
    <3>. QED BY <3>1, <1>5, <2>1, <2>3, <1>6
  <2>. QED BY <2>2, <2>3
<1>. HIDE DEF p
<1>. QED BY <1>6, <1>10, <1>11, <1>12 DEF Decides

LEMMA DecidesOne ==
  ASSUME NEW V \in SUBSET Members, NEW k \in Nat, NEW p \in Nat, NEW q \in Nat,
         NEW o, NEW n, Decides(V, k, p, o), Decides(V, k, q, n)
  PROVE  o = n
<1>1. o \in V /\ n \in V /\ o \in Nat /\ n \in Nat
  BY RingAssumption DEF Decides
<1>2. p = q
  <2>1. /\ q >= k => p >= k /\ p <= q
        /\ p < k => p <= q
        /\ p >= k => q >= k /\ q <= p
        /\ q < k => q <= p
    BY DEF Decides
  <2>. QED BY <2>1
<1>. QED BY <1>1, <1>2 DEF Decides

\* A node that leaves takes only its own keys with it.
LEMMA LeavingMovesOwn ==
  ASSUME NEW V \in SUBSET Members, NEW k \in Nat, NEW gone,
         V \ {gone} # {}, OwnerAt(V, k) # gone
  PROVE  OwnerAt(V \ {gone}, k) = OwnerAt(V, k)
<1>1. PICK p \in Nat : Decides(V, k, p, OwnerAt(V, k))
  BY OwnerDecides
<1>2. Decides(V \ {gone}, k, p, OwnerAt(V, k))
  BY <1>1 DEF Decides
<1>3. V \ {gone} \in SUBSET Members
  OBVIOUS
<1>4. PICK q \in Nat : Decides(V \ {gone}, k, q, OwnerAt(V \ {gone}, k))
  BY <1>3, OwnerDecides
<1>. QED BY <1>2, <1>3, <1>4, DecidesOne

-----------------------------------------------------------------------------
(* The gateway.                                                            *)

Holdings == [live : SUBSET GateJobs, results : SUBSET GateJobs]

Keyed(req) == ClusterKey(req) \in GateJobs

\* A request under way between two nodes was sent to the owner of its job.
HopOf(h) ==
  /\ h.from \in Members /\ h.req \in Requests /\ ~h.req.hop /\ Keyed(h.req)
  /\ h.to = Owner(h.from, ClusterKey(h.req))

NetShape(n) ==
  /\ n = [held |-> n.held, passed |-> n.passed, hops |-> n.hops, sent |-> n.sent,
          made |-> n.made, fed |-> n.fed, missed |-> n.missed]
  /\ n.held \in [Members -> Holdings] /\ n.made \subseteq [key : GateJobs, job : GateJobs]
  /\ n.fed \subseteq GateJobs /\ DOMAIN n.passed = Members

\* Every owner, and with one list there is one, holds what was created there and
\* the results that it took.
OwnersHold(n) ==
  Agreed => /\ n.missed = {}
            /\ \A c \in n.made, m \in Members : c.job \in n.held[Owner(m, c.key)].live
            /\ \A j \in n.fed, m \in Members : j \in n.held[Owner(m, j)].results

GateInv == NetShape(net) /\ OwnersHold(net) /\ \A h \in net.hops : HopOf(h)

LEMMA OwnerMember ==
  ASSUME NEW m \in Members, NEW j \in GateJobs
  PROVE  Owner(m, j) \in Members
<1>1. View(m) \in SUBSET Members /\ m \in View(m)
  BY RingAssumption DEF View
<1>2. KeyHash[j] \in Nat
  BY JobsAssumption
<1>3. PICK p \in Nat : Decides(View(m), KeyHash[j], p, OwnerAt(View(m), KeyHash[j]))
  BY <1>1, <1>2, OwnerDecides
<1>. QED BY <1>1, <1>3 DEF Decides, Owner

LEMMA OwnerAgreed ==
  ASSUME Agreed, NEW m \in Members, NEW o \in Members, NEW j
  PROVE  Owner(m, j) = Owner(o, j)
BY DEF Agreed, Owner

LEMMA RequestShape ==
  ASSUME NEW req \in Requests
  PROVE  /\ req = [op |-> req.op, name |-> req.name, spec |-> req.spec,
                   hop |-> req.hop, token |-> req.token, fits |-> req.fits]
         /\ req.op \in {"create", "points", "results", "analyze", "otlp", "health"}
         /\ req.name \in GateJobs \cup {NoName} /\ req.spec \in GateJobs
         /\ req.op # "create" => req.name \in GateJobs
         /\ req.hop \in BOOLEAN /\ req.token \in BOOLEAN /\ req.fits \in BOOLEAN
<1>1. (CHOOSE j \in GateJobs : TRUE) \in GateJobs
  BY JobsAssumption
<1>. QED BY <1>1 DEF Requests

LEMMA KeyShape ==
  ASSUME NEW req \in Requests, ClusterKey(req) # NoName
  PROVE  /\ Keyed(req)
         /\ req.op \in {"create", "points", "results"}
         /\ req.op = "create" =>
              ClusterKey(req) = IF req.name # NoName THEN req.name ELSE req.spec
         /\ req.op \in {"points", "results"} => ClusterKey(req) = req.name
BY RequestShape, JobsAssumption DEF ClusterKey, Keyed

\* What a node holds only grows by what it served, but for the results that a
\* creation drops.
LEMMA ServedHolds ==
  ASSUME NEW held \in Holdings, NEW req, NEW orig \in Requests,
         req = orig \/ req = [orig EXCEPT !.hop = TRUE]
  PROVE  LET r == Served(held, req) IN
         /\ r.held \in Holdings /\ held.live \subseteq r.held.live
         /\ req.op = "create" => orig.spec \in r.held.live
         /\ req.op = "points" /\ r.status = 404 => orig.name \notin held.live
         /\ held.results \ {orig.spec} \subseteq r.held.results
         /\ req.op # "create" => held.results \subseteq r.held.results
         /\ req.op = "points" /\ r.status = 200 => orig.name \in r.held.results
         /\ req.op = "analyze" => orig.spec \in r.held.results
         /\ req.op = "results" /\ r.status = 404 => orig.name \notin held.results
<1>1. /\ req.op = orig.op /\ req.name = orig.name /\ req.spec = orig.spec /\ req.fits = orig.fits
  BY RequestShape
<1>2. /\ orig.op \in {"create", "points", "results", "analyze", "otlp", "health"}
      /\ orig.spec \in GateJobs
      /\ orig.op # "create" => orig.name \in GateJobs
  BY RequestShape
<1>3. held.live \subseteq GateJobs /\ held.results \subseteq GateJobs
  BY DEF Holdings
<1>. DEFINE r == Served(held, req)
<1>4. /\ r.held \in Holdings /\ held.live \subseteq r.held.live
      /\ req.op = "create" => orig.spec \in r.held.live
  <2>1. PICK L \in SUBSET GateJobs, R \in SUBSET GateJobs :
          /\ r.held = [live |-> L, results |-> R]
          /\ held.live \subseteq L
          /\ req.op = "create" => orig.spec \in L
    <3>1. held = [live |-> held.live, results |-> held.results]
      BY DEF Holdings
    <3>2. CASE req.op = "create"
      <4>1. r.held = [live |-> held.live \cup {orig.spec}, results |-> held.results \ {orig.spec}]
        BY <1>1, <3>1, <3>2 DEF Served
      <4>. QED BY <4>1, <1>2, <1>3
    <3>3. CASE req.op \in {"points", "results", "analyze", "otlp", "health"}
      <4>1. PICK more \in SUBSET GateJobs :
              r.held = [live |-> held.live, results |-> held.results \cup more]
        <5>1. {} \in SUBSET GateJobs /\ held.live \in SUBSET GateJobs
              /\ {orig.name} \in SUBSET GateJobs /\ {orig.spec} \in SUBSET GateJobs
          BY <1>1, <1>2, <1>3, <3>3
        <5>. QED BY ZenonT(60), <5>1, <1>1, <3>1, <3>3 DEF Served
      <4>2. held.live \in SUBSET GateJobs /\ held.results \cup more \in SUBSET GateJobs
        BY <1>3
      <4>3. req.op # "create"
        BY <3>3
      <4>. QED BY <4>1, <4>2, <4>3
    <3>. QED BY <3>2, <3>3, <1>1, <1>2
  <2>. HIDE DEF r
  <2>2. r.held.live = L
    BY <2>1
  <2>3. r.held \in Holdings
    BY <2>1 DEF Holdings
  <2>. QED BY <2>1, <2>2, <2>3
<1>5. /\ req.op = "points" /\ r.status = 404 => orig.name \notin held.live
      /\ req.op = "results" /\ r.status = 404 => orig.name \notin held.results
  BY <1>1 DEF Served
<1>6. /\ held.results \ {orig.spec} \subseteq r.held.results
      /\ req.op # "create" => held.results \subseteq r.held.results
      /\ req.op = "points" /\ r.status = 200 => orig.name \in r.held.results
      /\ req.op = "analyze" => orig.spec \in r.held.results
  BY <1>1, <1>2 DEF Served, Holdings
<1>. HIDE DEF r
<1>7. /\ r.held \in Holdings /\ held.live \subseteq r.held.live
      /\ req.op = "create" => orig.spec \in r.held.live
      /\ req.op = "points" /\ r.status = 404 => orig.name \notin held.live
  BY <1>4, <1>5
<1>. QED BY <1>5, <1>7, <1>6 DEF r

\* What a chain of handlers does to the nodes when it does not forward: the
\* one node's holdings grow, and a 404 tells of what it has not.
LEMMA ArriveHolds ==
  ASSUME NEW n, NetShape(n), NEW m \in Members, NEW orig \in Requests, NEW req,
         req = orig \/ req = [orig EXCEPT !.hop = TRUE]
  PROVE  LET a == Arrive(n, m, req) IN
         /\ NetShape(a.n)
         /\ a.n.made = n.made /\ a.n.missed = n.missed /\ a.n.hops = n.hops
         /\ \A o \in Members : n.held[o].live \subseteq a.n.held[o].live
         /\ a.status = 201 => orig.op = "create" /\ orig.spec \in a.n.held[m].live
         /\ a.status = 404 /\ orig.op = "points" => orig.name \notin n.held[m].live
         /\ a.status = 404 /\ orig.op = "results" => orig.name \notin n.held[m].results
         /\ orig.op = "results" => a.n.fed = n.fed
         /\ OwnersHold(n) => OwnersHold(a.n)
         /\ a.at # "client" => Forwards(m, req)
         /\ a.status \in {201, 404} => ~Forwards(m, req)
<1>. DEFINE p == IF Exempt(req) THEN n ELSE [n EXCEPT !.passed[m] = @ + 1]
            r == Served(p.held[m], req)
            fed == FedBy(p, m, req, r.status)
            a == Arrive(n, m, req)
<1>1. /\ NetShape(p) /\ p.held = n.held /\ p.made = n.made /\ p.missed = n.missed
      /\ p.hops = n.hops /\ p.fed = n.fed
  BY DEF NetShape
<1>2. p.held[m] \in Holdings
  BY <1>1 DEF NetShape
<1>3. /\ r.held \in Holdings /\ p.held[m].live \subseteq r.held.live
      /\ req.op = "create" => orig.spec \in r.held.live
      /\ req.op = "points" /\ r.status = 404 => orig.name \notin p.held[m].live
      /\ p.held[m].results \ {orig.spec} \subseteq r.held.results
      /\ req.op # "create" => p.held[m].results \subseteq r.held.results
      /\ req.op = "points" /\ r.status = 200 => orig.name \in r.held.results
      /\ req.op = "analyze" => orig.spec \in r.held.results
      /\ req.op = "results" /\ r.status = 404 => orig.name \notin p.held[m].results
  BY <1>2, ServedHolds
<1>4. req.op = orig.op /\ req.spec = orig.spec /\ req.name = orig.name
  BY RequestShape
<1>5. /\ \A j \in fed : \/ j \in n.fed /\ (req.op = "create" => j # orig.spec)
                        \/ j \in r.held.results /\ Owner(m, j) = m
      /\ fed \subseteq GateJobs /\ (req.op = "results" => fed = n.fed)
  <2>1. n.fed \subseteq GateJobs
    BY DEF NetShape
  <2>2. CASE req.op = "create"
    <3>1. fed = n.fed \ {orig.spec}
      BY <1>1, <1>4, <2>2 DEF FedBy
    <3>. HIDE DEF fed, r
    <3>. QED BY <2>1, <2>2, <3>1
  <2>3. CASE req.op # "create"
    <3>1. fed = n.fed \cup {j \in GateJobs : /\ r.status = 200 /\ Owner(m, j) = m
                                     /\ \/ req.op = "points" /\ j = req.name
                                        \/ req.op = "analyze" /\ j = req.spec}
      BY <1>1, <2>3 DEF FedBy
    <3>. HIDE DEF fed, r
    <3>. QED BY <1>3, <1>4, <2>1, <2>3, <3>1
  <2>. HIDE DEF fed, r
  <2>. QED BY <2>2, <2>3
<1>6. r.status = 201 => req.op = "create"
  BY <1>4, RequestShape DEF Served
<1>. DEFINE q == [p EXCEPT !.held[m] = r.held, !.fed = fed]
<1>7. \/ a.n = n /\ a.status \in {401, 429} /\ a.at = "client"
      \/ a.n = p /\ a.status \in {0, 502} /\ Forwards(m, req)
      \/ a.n = q /\ a.status = r.status /\ a.at = "client" /\ ~Forwards(m, req)
  BY DEF Arrive
<1>. DEFINE H == [p.held EXCEPT ![m] = r.held]
<1>8. q = [p EXCEPT !.held = H, !.fed = fed] /\ H = [n.held EXCEPT ![m] = r.held]
  BY <1>1
<1>. HIDE DEF a, p, r, fed, q, H
<1>9. /\ q.held = [n.held EXCEPT ![m] = r.held] /\ q.made = n.made /\ q.fed = fed
      /\ q.missed = n.missed /\ q.hops = n.hops /\ q.passed = p.passed
      /\ q = [held |-> q.held, passed |-> q.passed, hops |-> q.hops, sent |-> q.sent,
              made |-> q.made, fed |-> q.fed, missed |-> q.missed]
  BY <1>1, <1>8 DEF NetShape
<1>10. NetShape(q)
  BY <1>1, <1>3, <1>9, <1>5 DEF NetShape
<1>11. /\ \A o \in Members : n.held[o].live \subseteq q.held[o].live
       /\ q.held[m] = r.held /\ \A o \in Members : o # m => q.held[o] = n.held[o]
  BY <1>1, <1>3, <1>9 DEF NetShape
<1>12. ASSUME OwnersHold(n), Agreed
       PROVE  OwnersHold(q)
  <2>1. ASSUME NEW j \in q.fed, NEW k \in Members
        PROVE  j \in q.held[Owner(k, j)].results
    <3>1. Owner(k, j) = Owner(m, j) /\ Owner(k, j) \in Members
      BY <1>9, <1>10, <1>12, OwnerAgreed, OwnerMember DEF NetShape
    <3>2. CASE Owner(k, j) # m
      <4>1. j \in n.fed
        BY <1>9, <1>5, <3>1, <3>2
      <4>. QED BY <1>11, <1>12, <3>1, <3>2, <4>1 DEF OwnersHold
    <3>3. CASE Owner(k, j) = m
      <4>1. j \in n.fed => j \in p.held[m].results
        BY <1>1, <1>12, <3>3 DEF OwnersHold
      <4>. QED BY <1>3, <1>9, <1>11, <1>5, <3>3, <4>1
    <3>. QED BY <3>2, <3>3
  <2>2. ASSUME NEW c \in q.made, NEW k \in Members
        PROVE  c.job \in q.held[Owner(k, c.key)].live
    <3>1. c \in n.made /\ c.key \in GateJobs
      BY <1>9, <1>10 DEF NetShape
    <3>2. Owner(k, c.key) \in Members
      BY <3>1, OwnerMember
    <3>. QED BY <1>11, <1>12, <3>1, <3>2 DEF OwnersHold
  <2>. QED BY <1>9, <1>12, <2>1, <2>2 DEF OwnersHold
<1>13. CASE a.n = n /\ a.status \in {401, 429} /\ a.at = "client"
  BY <1>13 DEF a
<1>14. CASE a.n = p /\ a.status \in {0, 502} /\ Forwards(m, req)
  BY <1>14, <1>1 DEF a, OwnersHold
<1>15. CASE a.n = q /\ a.status = r.status /\ a.at = "client" /\ ~Forwards(m, req)
  <2>1. OwnersHold(n) => OwnersHold(q)
    BY <1>12 DEF OwnersHold
  <2>. QED BY <1>15, <1>1, <1>3, <1>4, <1>6, <1>9, <1>10, <1>11, <1>5, <2>1 DEF a
<1>. QED BY <1>7, <1>13, <1>14, <1>15

\* A job whose creation was answered is where that went, and a 404 is none for
\* what is there.
LEMMA HopsReplaced ==
  ASSUME NEW n, NetShape(n), NEW hops
  PROVE  LET o == [n EXCEPT !.hops = hops] IN
         /\ o.held = n.held /\ o.made = n.made /\ o.missed = n.missed /\ o.hops = hops
         /\ o.fed = n.fed
         /\ NetShape(o) /\ (OwnersHold(n) => OwnersHold(o))
BY DEF NetShape, OwnersHold

LEMMA AnsweredHolds ==
  ASSUME NEW n, NetShape(n), OwnersHold(n), NEW req \in Requests, NEW status,
         Agreed /\ status = 201 /\ req.op = "create" =>
           \A m \in Members : req.spec \in n.held[Owner(m, ClusterKey(req))].live,
         Agreed /\ status = 404 /\ req.op = "points" /\ ~req.hop => ~Placed(n, req.name),
         Agreed /\ status = 404 /\ req.op = "results" /\ ~req.hop => req.name \notin n.fed
  PROVE  LET done == Answered(n, req, status) IN
         NetShape(done) /\ OwnersHold(done) /\ done.hops = n.hops
<1>. DEFINE done == Answered(n, req, status)
            new == [key |-> ClusterKey(req), job |-> req.spec]
            miss == /\ status = 404 /\ ~req.hop
                    /\ \/ req.op = "points" /\ Placed(n, req.name)
                       \/ req.op = "results" /\ req.name \in n.fed
<1>1. /\ done.held = n.held /\ done.hops = n.hops /\ done.passed = n.passed /\ done.fed = n.fed
      /\ done = [held |-> done.held, passed |-> done.passed, hops |-> done.hops,
                 sent |-> done.sent, made |-> done.made, fed |-> done.fed,
                 missed |-> done.missed]
      /\ \/ done.made = n.made
         \/ status = 201 /\ req.op = "create" /\ done.made = n.made \cup {new}
      /\ done.missed = n.missed \/ miss
  <2>. DEFINE M == IF req.op = "create" /\ status = 201 THEN n.made \cup {new} ELSE n.made
              X == IF miss THEN n.missed \cup {req.op} ELSE n.missed
  <2>1. done = [n EXCEPT !.made = M, !.missed = X]
    BY DEF NetShape, Answered
  <2>2. /\ M = n.made \/ (status = 201 /\ req.op = "create" /\ M = n.made \cup {new})
        /\ X = n.missed \/ miss
    OBVIOUS
  <2>. HIDE DEF done, M, X, miss, new
  <2>. QED BY <2>1, <2>2 DEF NetShape
<1>2. req.op = "create" => new \in [key : GateJobs, job : GateJobs]
  BY RequestShape, JobsAssumption DEF ClusterKey
<1>3. Agreed => ~miss
  OBVIOUS
<1>4. Agreed /\ status = 201 /\ req.op = "create" =>
        \A m \in Members : new.job \in n.held[Owner(m, new.key)].live
  OBVIOUS
<1>. HIDE DEF done, miss, new
<1>5. NetShape(done)
  BY <1>1, <1>2 DEF NetShape
<1>6. OwnersHold(done)
  BY <1>1, <1>3, <1>4 DEF OwnersHold
<1>. QED BY <1>1, <1>5, <1>6 DEF done

LEMMA SendKeeps ==
  ASSUME GateInv, NEW m \in Members, NEW req \in Requests, Send(m, req)
  PROVE  GateInv'
<1>. DEFINE n == [net EXCEPT !.sent = @ + 1]
            a == Arrive(n, m, req)
            hop == [id |-> net.sent, from |-> m, to |-> Owner(m, ClusterKey(req)), req |-> req]
<1>1. /\ NetShape(n) /\ OwnersHold(n) /\ n.held = net.held /\ n.made = net.made
      /\ n.hops = net.hops /\ n.fed = net.fed
  BY DEF GateInv, NetShape, OwnersHold
<1>2. net' = IF a.at = "client" THEN Answered(a.n, req, a.status)
             ELSE [a.n EXCEPT !.hops = @ \cup {hop}]
  BY DEF Send
<1>. HIDE DEF n
<1>3. /\ NetShape(a.n)
      /\ a.n.made = n.made /\ a.n.missed = n.missed /\ a.n.hops = n.hops
      /\ \A o \in Members : n.held[o].live \subseteq a.n.held[o].live
      /\ a.status = 201 => req.op = "create" /\ req.spec \in a.n.held[m].live
      /\ a.status = 404 /\ req.op = "points" => req.name \notin n.held[m].live
      /\ a.status = 404 /\ req.op = "results" => req.name \notin n.held[m].results
      /\ req.op = "results" => a.n.fed = n.fed
      /\ a.at # "client" => Forwards(m, req)
      /\ a.status \in {201, 404} => ~Forwards(m, req)
      /\ OwnersHold(a.n)
  BY <1>1, ArriveHolds
<1>. HIDE DEF a
<1>4. OwnersHold(a.n)
  BY <1>3
<1>5. CASE a.at = "client"
  <2>1. Agreed /\ a.status = 201 /\ req.op = "create" =>
          \A o \in Members : req.spec \in a.n.held[Owner(o, ClusterKey(req))].live
    <3>. SUFFICES ASSUME Agreed, a.status = 201, req.op = "create", NEW o \in Members
                  PROVE  req.spec \in a.n.held[Owner(o, ClusterKey(req))].live
      OBVIOUS
    <3>1. ClusterKey(req) # NoName
      BY RequestShape, JobsAssumption DEF ClusterKey
    <3>2. ~req.hop
      BY DEF Requests
    <3>3. Owner(m, ClusterKey(req)) = m
      BY <1>3, <3>1, <3>2 DEF Forwards
    <3>. QED BY <1>3, <3>3, OwnerAgreed
  <2>2. req.op \in {"points", "results"} /\ a.status = 404 /\ ~req.hop => Owner(m, req.name) = m
    <3>1. req.op \in {"points", "results"} => ClusterKey(req) = req.name /\ req.name # NoName
      BY RequestShape, JobsAssumption DEF ClusterKey
    <3>. QED BY <1>3, <3>1 DEF Forwards
  <2>3. Agreed /\ a.status = 404 /\ req.op = "points" /\ ~req.hop => ~Placed(a.n, req.name)
    <3>. SUFFICES ASSUME Agreed, a.status = 404, req.op = "points", ~req.hop,
                         NEW c \in n.made, c.job = req.name, Owner(m, c.key) = Owner(m, req.name)
                  PROVE  FALSE
      BY <1>3 DEF Placed
    <3>1. req.name \in n.held[Owner(m, c.key)].live
      BY <1>1 DEF OwnersHold
    <3>. QED BY <1>3, <2>2, <3>1
  <2>4. Agreed /\ a.status = 404 /\ req.op = "results" /\ ~req.hop => req.name \notin a.n.fed
    <3>. SUFFICES ASSUME Agreed, a.status = 404, req.op = "results", ~req.hop,
                         req.name \in n.fed
                  PROVE  FALSE
      BY <1>3
    <3>1. req.name \in n.held[Owner(m, req.name)].results
      BY <1>1 DEF OwnersHold
    <3>. QED BY <1>3, <2>2, <3>1
  <2>5. LET done == Answered(a.n, req, a.status) IN
        NetShape(done) /\ OwnersHold(done) /\ done.hops = a.n.hops
    BY <1>3, <1>4, <2>1, <2>3, <2>4, AnsweredHolds
  <2>. QED BY <1>1, <1>2, <1>3, <1>5, <2>5 DEF GateInv, HopOf
<1>6. CASE a.at # "client"
  <2>1. HopOf(hop)
    <3>1. ClusterKey(req) # NoName /\ ~req.hop
      BY <1>3, <1>6 DEF Forwards
    <3>. QED BY <3>1, KeyShape DEF HopOf
  <2>2. net' = [a.n EXCEPT !.hops = @ \cup {hop}]
    BY <1>2, <1>6
  <2>3. LET o == [a.n EXCEPT !.hops = @ \cup {hop}] IN
        /\ o.hops = a.n.hops \cup {hop}
        /\ NetShape(o) /\ OwnersHold(o)
    BY <1>3, <1>4, HopsReplaced
  <2>. HIDE DEF hop
  <2>4. NetShape(net') /\ OwnersHold(net') /\ net'.hops = net.hops \cup {hop}
    BY <1>1, <1>3, <2>2, <2>3
  <2>5. \A h \in net'.hops : HopOf(h)
    BY <2>1, <2>4 DEF GateInv
  <2>. QED BY <2>4, <2>5 DEF GateInv, HopOf
<1>. QED BY <1>5, <1>6

LEMMA ForwardKeeps ==
  ASSUME GateInv, NEW h \in net.hops, NEW lost \in BOOLEAN, Forward(h, lost)
  PROVE  GateInv'
<1>. DEFINE at == [h.req EXCEPT !.hop = TRUE]
            a == Arrive(net, h.to, at)
            done == [a.n EXCEPT !.hops = @ \ {h}]
<1>1. HopOf(h) /\ NetShape(net) /\ OwnersHold(net)
  BY DEF GateInv
<1>2. h.req \in Requests /\ h.to \in Members /\ h.to = Owner(h.from, ClusterKey(h.req))
      /\ h.from \in Members
  BY <1>1, OwnerMember DEF HopOf, Keyed
<1>3. /\ NetShape(a.n)
      /\ a.n.made = net.made /\ a.n.missed = net.missed /\ a.n.hops = net.hops
      /\ \A o \in Members : net.held[o].live \subseteq a.n.held[o].live
      /\ a.status = 201 => h.req.op = "create" /\ h.req.spec \in a.n.held[h.to].live
      /\ a.status = 404 /\ h.req.op = "points" => h.req.name \notin net.held[h.to].live
      /\ a.status = 404 /\ h.req.op = "results" => h.req.name \notin net.held[h.to].results
      /\ h.req.op = "results" => a.n.fed = net.fed
      /\ OwnersHold(a.n)
  <2>1. at = h.req \/ at = [h.req EXCEPT !.hop = TRUE]
    OBVIOUS
  <2>. HIDE DEF at
  <2>. QED BY SMTT(30), <1>1, <1>2, <2>1, ArriveHolds
<1>4. net' = IF lost THEN done ELSE Answered(done, h.req, a.status)
  BY DEF Forward
<1>. HIDE DEF a
<1>5. OwnersHold(a.n)
  BY <1>3
<1>6. /\ done.held = a.n.held /\ done.fed = a.n.fed /\ done.made = a.n.made /\ done.missed = a.n.missed
      /\ done.hops = a.n.hops \ {h} /\ NetShape(done) /\ OwnersHold(done)
  BY <1>3, <1>5, HopsReplaced
<1>. HIDE DEF done
<1>7. Agreed /\ a.status = 201 /\ h.req.op = "create" =>
        \A o \in Members : h.req.spec \in done.held[Owner(o, ClusterKey(h.req))].live
  BY <1>2, <1>3, <1>6, OwnerAgreed
<1>8. h.req.op \in {"points", "results"} => h.to = Owner(h.from, h.req.name)
  BY <1>2 DEF ClusterKey
<1>9. Agreed /\ a.status = 404 /\ h.req.op = "points" /\ ~h.req.hop => ~Placed(done, h.req.name)
  <2>. SUFFICES ASSUME Agreed, a.status = 404, h.req.op = "points", NEW c \in net.made,
                       c.job = h.req.name, Owner(h.from, c.key) = Owner(h.from, h.req.name)
                PROVE  FALSE
    BY <1>2, <1>3, <1>6 DEF Placed
  <2>1. h.req.name \in net.held[Owner(h.from, c.key)].live
    BY <1>1, <1>2 DEF OwnersHold
  <2>. QED BY <1>3, <1>8, <2>1
<1>10. Agreed /\ a.status = 404 /\ h.req.op = "results" /\ ~h.req.hop => h.req.name \notin done.fed
  <2>. SUFFICES ASSUME Agreed, a.status = 404, h.req.op = "results", h.req.name \in net.fed
                PROVE  FALSE
    BY <1>3, <1>6
  <2>1. h.req.name \in net.held[Owner(h.from, h.req.name)].results
    BY <1>1, <1>2 DEF OwnersHold
  <2>. QED BY <1>3, <1>8, <2>1
<1>11. LET d == Answered(done, h.req, a.status) IN
      NetShape(d) /\ OwnersHold(d) /\ d.hops = done.hops
  BY <1>2, <1>6, <1>7, <1>9, <1>10, AnsweredHolds
<1>12. NetShape(net') /\ OwnersHold(net') /\ net'.hops \subseteq net.hops
  BY <1>3, <1>4, <1>6, <1>11
<1>. QED BY <1>12 DEF GateInv, HopOf

LEMMA GatewayKeeps == GateInv /\ [GatewayNext]_netVars => GateInv'
<1>. SUFFICES ASSUME GateInv, [GatewayNext]_netVars PROVE GateInv'
  OBVIOUS
<1>1. CASE UNCHANGED netVars
  BY <1>1 DEF GateInv, netVars
<1>2. ASSUME NEW m \in Members, NEW req \in Requests, Send(m, req) PROVE GateInv'
  BY <1>2, SendKeeps
<1>3. ASSUME NEW h \in net.hops, NEW lost \in BOOLEAN, Forward(h, lost) PROVE GateInv'
  BY <1>3, ForwardKeeps
<1>4. ASSUME NEW h \in net.hops, Unreachable(h) PROVE GateInv'
  <2>1. NetShape(net') /\ OwnersHold(net') /\ net'.hops = net.hops \ {h}
    BY <1>4, HopsReplaced DEF GateInv, Unreachable
  <2>. QED BY <2>1 DEF GateInv
<1>. QED BY <1>1, <1>2, <1>3, <1>4 DEF GatewayNext

LEMMA GatewayStart == GatewayInit => GateInv
BY DEF GatewayInit, GateInv, NetShape, OwnersHold, Holdings

LEMMA GatewayTells == GateInv => OwnerHoldsJob
<1>. SUFFICES ASSUME GateInv, Agreed PROVE OwnerHoldsJob
  BY DEF OwnerHoldsJob
<1>1. ASSUME NEW j \in GateJobs, NEW m \in Members, NEW gone \in Members,
             Cardinality(View(m)) > 1, OwnerAt(View(m) \ {gone}, KeyHash[j]) # Owner(m, j)
      PROVE  Owner(m, j) = gone
  <2>1. View(m) \in SUBSET Members /\ KeyHash[j] \in Nat
    BY RingAssumption, JobsAssumption DEF View
  <2>2. View(m) \ {gone} # {}
    <3>. SUFFICES ASSUME View(m) \subseteq {gone} PROVE FALSE
      OBVIOUS
    <3>1. View(m) = {gone}
      BY DEF View
    <3>2. Cardinality(View(m)) = 1
      BY <3>1, FS_Singleton
    <3>. QED BY <1>1, <3>2
  <2>. QED BY <1>1, <2>1, <2>2, LeavingMovesOwn DEF Owner
<1>. QED BY <1>1 DEF OwnerHoldsJob, GateInv, OwnersHold

\* Whatever node a request lands on and whatever answers are lost, a job is held
\* by the owner of the name its creation went by, its points and the results that
\* its owner took are found from every node, and a node that leaves takes only
\* its own jobs along (withCluster, Ring.Owner).
THEOREM GatewayCorrect == ServicesSpec => []GatewayRoutes
<1>1. ServicesInit => GateInv
  BY GatewayStart DEF ServicesInit
<1>2. GateInv /\ [ServicesNext]_allVars => GateInv'
  BY Steps, GatewayKeeps
<1>3. GateInv => GatewayRoutes
  BY GatewayTells DEF GatewayRoutes
<1>. QED BY <1>1, <1>2, <1>3, PTL DEF ServicesSpec, allVars

-----------------------------------------------------------------------------
(* The state file and its versions.                                        *)

\* Of a finite set, what is left without its c - k smallest is k at most, with
\* the greatest among them (pruneVersions).
LEMMA YoungestLeft ==
  ASSUME NEW S \in SUBSET Nat, IsFiniteSet(S), S # {}, NEW k \in Nat \ {0}
  PROVE  LET up(n) == {m \in S : m <= n}
             left == {n \in S : ~(Cardinality(up(n)) <= Cardinality(S) - k)} IN
         /\ IsFiniteSet(left) /\ Cardinality(left) <= k
         /\ Max(S) \in left
<1>. DEFINE up(n) == {m \in S : m <= n}
            left == {n \in S : ~(Cardinality(up(n)) <= Cardinality(S) - k)}
<1>1. Cardinality(S) \in Nat
  BY FS_CardinalityType
<1>2. IsFiniteSet(left)
  BY FS_Subset
<1>3. Max(S) \in left
  <2>1. Max(S) \in S /\ \A y \in S : y <= Max(S)
    BY GreatestIn
  <2>2. up(Max(S)) = S
    BY <2>1
  <2>. HIDE DEF up
  <2>. QED BY <1>1, <2>1, <2>2
<1>4. Cardinality(left) <= k
  <2>. DEFINE x == Min(left)
              early == up(x)
  <2>1. x \in left /\ \A y \in left : x <= y
    <3>1. left \in SUBSET Nat /\ left # {}
      BY <1>3
    <3>. HIDE DEF left
    <3>. QED BY <3>1, LeastIn
  <2>2. IsFiniteSet(early) /\ Cardinality(early) \in Nat
    <3>1. early \in SUBSET S
      OBVIOUS
    <3>. QED BY <3>1, FS_Subset, FS_CardinalityType
  <2>3. left \cap early = {x}
    <3>1. \A z \in S : z \in Nat
      OBVIOUS
    <3>2. x \in S /\ x \in early
      BY <2>1, <3>1
    <3>3. \A y \in left \cap early : y \in S /\ x <= y /\ y <= x
      BY <2>1
    <3>. HIDE DEF left, early, x
    <3>4. ASSUME NEW y \in left \cap early PROVE y = x
      <4>1. y \in Nat /\ x \in Nat /\ x <= y /\ y <= x
        BY <3>1, <3>2, <3>3
      <4>. QED BY <4>1
    <3>. QED BY <2>1, <3>2, <3>4
  <2>4. Cardinality(left \cup early) <= Cardinality(S)
    <3>1. left \cup early \in SUBSET S
      OBVIOUS
    <3>. HIDE DEF left, early
    <3>. QED BY <3>1, FS_Subset
  <2>5. Cardinality(early) > Cardinality(S) - k
    BY <2>1, <2>2, <1>1
  <2>. HIDE DEF left, early, x
  <2>6. Cardinality(left \cup early) = Cardinality(left) + Cardinality(early) - Cardinality({x})
    BY <1>2, <2>2, <2>3, FS_Union
  <2>7. Cardinality({x}) = 1
    BY FS_Singleton
  <2>8. Cardinality(left) \in Nat
    BY <1>2, FS_CardinalityType
  <2>. QED BY <1>1, <2>2, <2>4, <2>5, <2>6, <2>7, <2>8
<1>. QED BY <1>2, <1>3, <1>4

\* What of a command has still to be done, and what it has done.
CommandShape(c) ==
  \/ c = Idle
  \/ /\ c = [op |-> c.op, at |-> c.at, snap |-> c.snap]
     /\ c.op \in {"save", "revert"} /\ c.at \in {"tmp", "rename", "version"}
     /\ c.snap \in Snapshots
     /\ c.at = "version" => c.op = "save"
  \/ /\ c = [op |-> "save", at |-> "prune", snap |-> c.snap, number |-> c.number]
     /\ c.snap \in Snapshots

Pruning == command # Idle /\ command.at = "prune"

FilesShape ==
  /\ files = [state |-> files.state, tmp |-> files.tmp, versions |-> files.versions]
  /\ Numbers \in SUBSET Nat /\ IsFiniteSet(Numbers)
  /\ \A n \in Numbers : files.versions[n] \in Snapshots \cup {Torn}
  /\ crashes \in Nat /\ CommandShape(command)

\* The temporary file is the state to be renamed, and no other is ever renamed.
StateInv ==
  /\ files.state \in current /\ files.state # Torn
  /\ command # Idle /\ command.at = "rename" => files.tmp = command.snap

\* A number that was reported is listed, with its state, or a greater one is:
\* the next number is then a new one.
NumbersInv ==
  /\ \A v \in told : v = <<v[1], v[2]>> /\ v[1] \in Nat
  /\ \A v, w \in told : v[1] = w[1] => v = w
  /\ \A v \in told : v[1] \in Numbers => files.versions[v[1]] = v[2]
  /\ \A v \in told : \E n \in Numbers : v[1] <= n
  /\ Pruning => /\ command.number \in Numbers
                /\ files.versions[command.number] = command.snap
                /\ \A n \in Numbers : n <= command.number
                /\ \A v \in told : v[1] < command.number

CountInv ==
  Cardinality(Numbers) <= KeepVersions + crashes + (IF Pruning THEN 1 ELSE 0)

\* An acknowledged record is missing only if a kill left a line open that it
\* was written behind.
LogInv ==
  /\ lines = [whole |-> lines.whole, open |-> lines.open, acked |-> lines.acked]
  /\ lines.open \in BOOLEAN /\ IsFiniteSet(lines.acked)
  /\ lines.whole \in Seq(lines.acked) /\ IsInjective(lines.whole)
  /\ Cardinality(lines.acked \ ToSet(lines.whole)) + (IF lines.open THEN 1 ELSE 0) <= crashes

StoreInv == FilesShape /\ StateInv /\ NumbersInv /\ CountInv /\ LogInv

LEMMA NextIsNew ==
  ASSUME FilesShape
  PROVE  NextNumber \in Nat /\ \A n \in Numbers : n < NextNumber
<1>1. Cardinality(Numbers) \in Nat
  BY FS_CardinalityType DEF FilesShape
<1>2. Numbers # {} => Max(Numbers) \in Numbers /\ \A n \in Numbers : n <= Max(Numbers)
  BY GreatestIn DEF FilesShape
<1>3. \A n \in Numbers : n \in Nat
  BY DEF FilesShape
<1>. DEFINE c == Cardinality(Numbers)
            m == Max(Numbers)
<1>4. NextNumber = IF Numbers # {} /\ m >= c + 1 THEN m + 1 ELSE c + 1
  BY DEF NextNumber
<1>. HIDE DEF c, m
<1>5. c \in Nat /\ (Numbers # {} => m \in Nat /\ \A n \in Numbers : n <= m)
  BY <1>1, <1>2, <1>3 DEF c, m
<1>6. NextNumber \in Nat
  BY <1>4, <1>5
<1>7. ASSUME NEW n \in Numbers PROVE n < NextNumber
  <2>1. n \in Nat /\ n <= m /\ m \in Nat
    BY <1>3, <1>5
  <2>. QED BY <1>4, <1>5, <2>1
<1>. QED BY <1>6, <1>7

LEMMA StoreStart == VersionsInit => StoreInv
<1>. SUFFICES ASSUME VersionsInit PROVE StoreInv
  OBVIOUS
<1>1. Numbers = {}
  BY DEF VersionsInit, Numbers
<1>2. FilesShape
  BY <1>1, FS_EmptySet DEF VersionsInit, FilesShape, CommandShape
<1>3. StateInv
  BY FilesAssumption DEF VersionsInit, StateInv
<1>4. NumbersInv
  BY DEF VersionsInit, NumbersInv, Pruning
<1>5. CountInv
  BY <1>1, FS_EmptySet, FilesAssumption DEF VersionsInit, CountInv, Pruning
<1>6. LogInv
  <2>1. lines.acked \ ToSet(lines.whole) = {} /\ Cardinality({}) = 0 /\ IsFiniteSet({})
    BY FS_EmptySet DEF VersionsInit
  <2>2. lines.whole \in Seq(lines.acked) /\ IsInjective(lines.whole)
    BY DEF VersionsInit, IsInjective
  <2>. QED BY <2>1, <2>2 DEF VersionsInit, LogInv
<1>. QED BY <1>2, <1>3, <1>4, <1>5, <1>6 DEF StoreInv

LEMMA StoreTells == StoreInv => VersionsStand /\ LogKeepsRecords
<1>. SUFFICES ASSUME StoreInv PROVE VersionsStand /\ LogKeepsRecords
  OBVIOUS
<1>1. /\ \A v, w \in told : v[1] = w[1] => v = w
      /\ \A v \in told : v[1] \in Numbers => files.versions[v[1]] = v[2]
      /\ files.state \in current /\ files.state # Torn
  BY DEF StoreInv, NumbersInv, StateInv
<1>2. ASSUME NEW v \in told, \A n \in Numbers : n <= v[1] PROVE v[1] \in Numbers
  <2>1. PICK n \in Numbers : v[1] <= n
    BY DEF StoreInv, NumbersInv
  <2>2. n <= v[1] /\ n \in Nat /\ v[1] \in Nat
    BY <1>2 DEF StoreInv, NumbersInv, FilesShape
  <2>3. n = v[1]
    BY <2>1, <2>2
  <2>. QED BY <2>3
<1>3. command = Idle => Cardinality(Numbers) <= KeepVersions + crashes
  <2>1. KeepVersions + crashes + 0 = KeepVersions + crashes
    BY FilesAssumption DEF StoreInv, FilesShape
  <2>. QED BY <2>1 DEF StoreInv, CountInv, Pruning
<1>4. LogKeepsRecords
  <2>1. Cardinality(lines.acked \ ToSet(lines.whole)) <= crashes
    <3>1. Cardinality(lines.acked \ ToSet(lines.whole)) \in Nat
      BY FS_Difference, FS_CardinalityType DEF StoreInv, LogInv
    <3>. QED BY <3>1 DEF StoreInv, LogInv, FilesShape
  <2>2. ToSet(lines.whole) \subseteq lines.acked
    BY DEF StoreInv, LogInv, ToSet
  <2>. QED BY <2>1, <2>2 DEF LogKeepsRecords, Query, StoreInv, LogInv
<1>. QED BY <1>1, <1>2, <1>3, <1>4 DEF VersionsStand

LEMMA LogKeeps ==
  ASSUME StoreInv, VersionsNext
  PROVE  LogInv'
<1>. USE DEF StoreInv
<1>. DEFINE lost == lines.acked \ ToSet(lines.whole)
<1>1. IsFiniteSet(lost) /\ Cardinality(lost) \in Nat /\ crashes \in Nat
  BY FS_Difference, FS_CardinalityType DEF LogInv, FilesShape
<1>2. CASE UNCHANGED <<lines, crashes>>
  BY <1>2 DEF LogInv, IsInjective
<1>3. CASE crashes' = crashes + 1 /\ UNCHANGED lines
  <2>1. Cardinality(lost) + (IF lines.open THEN 1 ELSE 0) <= crashes
    BY DEF LogInv
  <2>. HIDE DEF lost
  <2>2. Cardinality(lost) + (IF lines.open THEN 1 ELSE 0) <= crashes + 1
    BY <1>1, <2>1
  <2>. QED BY <1>3, <2>2 DEF LogInv, IsInjective, lost
<1>4. CASE crashes' = crashes + 1 /\ lines' = [lines EXCEPT !.open = TRUE]
  <2>1. lines' = [whole |-> lines.whole, open |-> TRUE, acked |-> lines.acked]
    BY <1>4 DEF LogInv
  <2>2. Cardinality(lost) + (IF lines.open THEN 1 ELSE 0) <= crashes
    BY DEF LogInv
  <2>. HIDE DEF lost
  <2>3. Cardinality(lost) + 1 <= crashes + 1
    BY <1>1, <2>2
  <2>4. lines'.whole = lines.whole /\ lines'.acked = lines.acked /\ lines'.open
    BY <2>1
  <2>. QED BY <1>4, <2>1, <2>3, <2>4 DEF LogInv, IsInjective, lost
<1>5. ASSUME NEW r \in Records, Append1(r) PROVE LogInv'
  <2>. DEFINE acked == lines.acked \cup {r}
  <2>1. /\ r \notin lines.acked /\ crashes' = crashes /\ IsFiniteSet(acked)
        /\ lines' = [whole |-> IF lines.open THEN lines.whole ELSE Append(lines.whole, r),
                     open |-> FALSE, acked |-> acked]
    BY <1>5, FS_AddElement DEF Append1, LogInv
  <2>2. /\ lines.whole \in Seq(lines.acked) /\ lines.whole \in Seq(acked)
        /\ IsInjective(lines.whole)
        /\ \A i \in 1..Len(lines.whole) : lines.whole[i] \in lines.acked
    BY DEF LogInv
  <2>3. Cardinality(lost) + (IF lines.open THEN 1 ELSE 0) <= crashes
    BY DEF LogInv
  <2>4. CASE lines.open
    <3>1. lines'.whole = lines.whole /\ lines'.acked = acked /\ ~lines'.open
      BY <2>1, <2>4
    <3>2. acked \ ToSet(lines.whole) = lost \cup {r} /\ r \notin lost
      BY <2>1, <2>2 DEF ToSet
    <3>. HIDE DEF lost
    <3>3. Cardinality(acked \ ToSet(lines.whole)) = Cardinality(lost) + 1
      BY <1>1, <3>2, FS_AddElement
    <3>4. Cardinality(acked \ ToSet(lines.whole)) + 0 <= crashes
      BY <1>1, <2>3, <2>4, <3>3
    <3>. HIDE DEF acked
    <3>. QED BY <2>1, <2>2, <2>4, <3>1, <3>4 DEF LogInv
  <2>5. CASE ~lines.open
    <3>. DEFINE whole == Append(lines.whole, r)
    <3>1. lines'.whole = whole /\ lines'.acked = acked /\ ~lines'.open
      BY <2>1, <2>5
    <3>2. whole \in Seq(acked) /\ IsInjective(whole)
      BY <2>1, <2>2 DEF IsInjective
    <3>3. acked \ ToSet(whole) = lost
      <4>1. ToSet(whole) = ToSet(lines.whole) \cup {r}
        <5>. DEFINE n == Len(lines.whole)
        <5>1. /\ DOMAIN whole = 1..(n + 1) /\ DOMAIN lines.whole = 1..n /\ n \in Nat
              /\ whole[n + 1] = r /\ \A i \in 1..n : whole[i] = lines.whole[i]
          BY <2>2
        <5>2. DOMAIN whole = DOMAIN lines.whole \cup {n + 1}
          BY <5>1
        <5>. HIDE DEF whole, n
        <5>. QED BY <5>1, <5>2 DEF ToSet
      <4>. QED BY <2>1, <4>1
    <3>. HIDE DEF lost, whole, acked
    <3>4. Cardinality(acked \ ToSet(whole)) + 0 <= crashes
      BY <1>1, <2>3, <2>5, <3>3
    <3>. QED BY <2>1, <2>5, <3>1, <3>2, <3>4 DEF LogInv, whole
  <2>. QED BY <2>4, <2>5 DEF LogInv
<1>6. ASSUME Kill PROVE LogInv'
  BY <1>6, <1>3 DEF Kill
<1>7. ASSUME KillLog PROVE LogInv'
  BY <1>7, <1>4 DEF KillLog
<1>8. ASSUME NEW s \in Snapshots, SaveVersion(s) PROVE LogInv'
  BY <1>8, <1>2 DEF SaveVersion
<1>9. ASSUME NEW n \in 1..MaxNumber, Revert(n) \/ Retain(n) PROVE LogInv'
  BY <1>9, <1>2 DEF Revert, Retain
<1>10. ASSUME WriteTmp \/ Rename \/ WriteVersion \/ Prune PROVE LogInv'
  BY <1>10, <1>2 DEF WriteTmp, Rename, WriteVersion, Prune
<1>. QED BY <1>5, <1>6, <1>7, <1>8, <1>9, <1>10 DEF VersionsNext

FileInv == FilesShape /\ StateInv /\ NumbersInv /\ CountInv

\* A command begins, with nothing of it done: Numbers and files are as before.
LEMMA BeginKeeps ==
  ASSUME FileInv, ~Pruning, NEW c, CommandShape(c), c # Idle, c.at = "tmp",
         command' = c, UNCHANGED <<files, told, current, crashes>>
  PROVE  FileInv'
<1>1. ~Pruning' /\ Numbers' = Numbers
  BY DEF Pruning, Numbers, Idle
<1>. QED BY <1>1 DEF FileInv, FilesShape, StateInv, NumbersInv, CountInv, Numbers

LEMMA WriteTmpKeeps ==
  ASSUME FileInv, WriteTmp
  PROVE  FileInv'
<1>1. /\ command # Idle /\ command.at = "tmp" /\ CommandShape(command)
      /\ files = [state |-> files.state, tmp |-> files.tmp, versions |-> files.versions]
  BY DEF WriteTmp, FileInv, FilesShape
<1>2. /\ command = [op |-> command.op, at |-> "tmp", snap |-> command.snap]
      /\ command.op \in {"save", "revert"} /\ command.snap \in Snapshots
  BY <1>1 DEF CommandShape
<1>3. command' = [op |-> command.op, at |-> "rename", snap |-> command.snap]
  BY <1>2 DEF WriteTmp
<1>4. CommandShape(command')
  BY <1>2, <1>3 DEF CommandShape
<1>5. files' = [state |-> files.state, tmp |-> command.snap, versions |-> files.versions]
  BY <1>1 DEF WriteTmp
<1>6. Numbers' = Numbers /\ ~Pruning /\ ~Pruning'
  BY <1>1, <1>3, <1>5 DEF Numbers, Pruning
<1>7. FilesShape'
  BY <1>4, <1>5, <1>6 DEF WriteTmp, FileInv, FilesShape, Numbers
<1>8. StateInv'
  BY <1>3, <1>5 DEF WriteTmp, FileInv, StateInv
<1>9. NumbersInv' /\ CountInv'
  BY <1>5, <1>6 DEF WriteTmp, FileInv, NumbersInv, CountInv, Numbers
<1>. QED BY <1>7, <1>8, <1>9 DEF FileInv

LEMMA RenameKeeps ==
  ASSUME FileInv, Rename
  PROVE  FileInv'
<1>1. /\ command # Idle /\ command.at = "rename" /\ CommandShape(command)
      /\ files = [state |-> files.state, tmp |-> files.tmp, versions |-> files.versions]
      /\ files.tmp = command.snap
  BY DEF Rename, FileInv, FilesShape, StateInv
<1>2. /\ command = [op |-> command.op, at |-> "rename", snap |-> command.snap]
      /\ command.op \in {"save", "revert"} /\ command.snap \in Snapshots
  BY <1>1 DEF CommandShape
<1>3. command' = Idle \/ command' = [op |-> "save", at |-> "version", snap |-> command.snap]
  BY <1>2 DEF Rename
<1>4. CommandShape(command')
  BY <1>2, <1>3 DEF CommandShape
<1>5. files' = [state |-> command.snap, tmp |-> Missing, versions |-> files.versions]
  BY <1>1 DEF Rename
<1>6. Numbers' = Numbers /\ ~Pruning /\ ~Pruning'
  BY <1>1, <1>3, <1>5 DEF Numbers, Pruning
<1>7. FilesShape'
  BY <1>4, <1>5, <1>6 DEF Rename, FileInv, FilesShape, Numbers
<1>8. StateInv'
  <2>1. files'.state = command.snap
    BY <1>5
  <2>4. current' = {command.snap}
    BY DEF Rename
  <2>3. command.snap # Torn
    BY <1>2, FilesAssumption
  <2>2. ~(command' # Idle /\ command'.at = "rename")
    BY <1>3
  <2>. QED BY <2>1, <2>2, <2>3, <2>4 DEF StateInv
<1>9. NumbersInv' /\ CountInv'
  BY <1>5, <1>6 DEF Rename, FileInv, NumbersInv, CountInv, Numbers
<1>. QED BY <1>7, <1>8, <1>9 DEF FileInv

\* A file under the next number is whole, or torn by a kill.
LEMMA AddedVersion ==
  ASSUME FileInv, command # Idle, command.at = "version", NEW s \in Snapshots \cup {Torn},
         files' = [files EXCEPT !.versions = [n \in Numbers \cup {NextNumber} |->
                     IF n = NextNumber THEN s ELSE @[n]]],
         UNCHANGED <<told, current>>, crashes' \in Nat
  PROVE  /\ files' = [state |-> files.state, tmp |-> files.tmp, versions |-> files'.versions]
         /\ Numbers' = Numbers \cup {NextNumber} /\ NextNumber \in Nat
         /\ files'.versions[NextNumber] = s
         /\ \A n \in Numbers' : n <= NextNumber
         /\ \A v \in told : v[1] < NextNumber
         /\ CommandShape(command') => FilesShape'
         /\ (Pruning' => command'.number = NextNumber /\ command'.snap = s) => NumbersInv'
         /\ Cardinality(Numbers') = Cardinality(Numbers) + 1
<1>. DEFINE x == NextNumber
            added == [n \in Numbers \cup {x} |-> IF n = x THEN s ELSE files.versions[n]]
<1>1. x \in Nat /\ \A n \in Numbers : n < x
  BY NextIsNew DEF FileInv
<1>2. FilesShape /\ NumbersInv
  BY DEF FileInv
<1>3. files' = [state |-> files.state, tmp |-> files.tmp, versions |-> added]
  BY <1>2 DEF FilesShape
<1>. HIDE DEF x
<1>4. /\ Numbers' = Numbers \cup {x} /\ files'.versions[x] = s
      /\ \A n \in Numbers : files'.versions[n] = files.versions[n]
  BY <1>1, <1>3 DEF Numbers
<1>5. \A n \in Numbers' : n <= x
  BY <1>1, <1>2, <1>4 DEF FilesShape
<1>6. \A v \in told : v[1] < x
  <2>. SUFFICES ASSUME NEW v \in told PROVE v[1] < x
    OBVIOUS
  <2>1. PICK n \in Numbers : v[1] <= n
    BY <1>2 DEF NumbersInv
  <2>2. n \in Nat /\ v[1] \in Nat /\ n < x
    BY <1>1, <1>2 DEF FilesShape, NumbersInv
  <2>. QED BY <1>1, <2>1, <2>2
<1>7. IsFiniteSet(Numbers') /\ Cardinality(Numbers') = Cardinality(Numbers) + 1
  <2>1. x \notin Numbers
    BY <1>1
  <2>. QED BY <1>2, <1>4, <2>1, FS_AddElement DEF FilesShape
<1>8. CommandShape(command') => FilesShape'
  <2>1. Numbers' \in SUBSET Nat /\ \A n \in Numbers' : files'.versions[n] \in Snapshots \cup {Torn}
    BY <1>1, <1>2, <1>4 DEF FilesShape
  <2>2. files' = [state |-> files'.state, tmp |-> files'.tmp, versions |-> files'.versions]
    BY <1>3
  <2>. QED BY <1>7, <2>1, <2>2 DEF FilesShape
<1>9. (Pruning' => command'.number = x /\ command'.snap = s) => NumbersInv'
  <2>1. ASSUME NEW v \in told PROVE v[1] \in Numbers' => files'.versions[v[1]] = v[2]
    <3>1. v[1] # x
      BY <1>1, <1>2, <1>6 DEF NumbersInv
    <3>. QED BY <1>2, <1>4, <3>1 DEF NumbersInv
  <2>2. \A v \in told : \E n \in Numbers' : v[1] <= n
    BY <1>2, <1>4 DEF NumbersInv
  <2>. QED BY <1>2, <1>4, <1>5, <1>6, <2>1, <2>2 DEF NumbersInv
<1>. QED BY <1>1, <1>3, <1>4, <1>5, <1>6, <1>7, <1>8, <1>9 DEF x

LEMMA WriteVersionKeeps ==
  ASSUME FileInv, WriteVersion
  PROVE  FileInv'
<1>1. command # Idle /\ command.at = "version" /\ CommandShape(command)
  BY DEF WriteVersion, FileInv, FilesShape
<1>2. command.snap \in Snapshots
  BY <1>1 DEF CommandShape
<1>3. /\ command' = [op |-> "save", at |-> "prune", snap |-> command.snap, number |-> NextNumber]
      /\ UNCHANGED <<told, current, crashes>>
  BY DEF WriteVersion
<1>4. CommandShape(command') /\ Pruning' /\ ~Pruning
  BY <1>1, <1>2, <1>3 DEF CommandShape, Pruning, Idle
<1>5. crashes' \in Nat
  BY <1>3 DEF FileInv, FilesShape
<1>6. /\ files' = [state |-> files.state, tmp |-> files.tmp, versions |-> files'.versions]
      /\ Numbers' = Numbers \cup {NextNumber} /\ NextNumber \in Nat
      /\ files'.versions[NextNumber] = command.snap
      /\ \A n \in Numbers' : n <= NextNumber
      /\ \A v \in told : v[1] < NextNumber
      /\ CommandShape(command') => FilesShape'
      /\ (Pruning' => command'.number = NextNumber /\ command'.snap = command.snap) => NumbersInv'
      /\ Cardinality(Numbers') = Cardinality(Numbers) + 1
  BY <1>1, <1>2, <1>3, <1>5, AddedVersion DEF WriteVersion
<1>7. FilesShape'
  BY <1>4, <1>6
<1>8. StateInv'
  BY <1>3, <1>6 DEF FileInv, StateInv
<1>9. NumbersInv'
  BY <1>3, <1>6
<1>10. CountInv'
  <2>1. Cardinality(Numbers) \in Nat /\ crashes \in Nat /\ KeepVersions \in Nat
    BY FS_CardinalityType, FilesAssumption DEF FileInv, FilesShape
  <2>2. Cardinality(Numbers) <= KeepVersions + crashes + 0
    BY <1>4 DEF FileInv, CountInv
  <2>. QED BY <1>3, <1>4, <1>6, <2>1, <2>2 DEF CountInv
<1>. QED BY <1>7, <1>8, <1>9, <1>10 DEF FileInv

\* Versions go, but not the newest.
LEMMA LeftVersions ==
  ASSUME FileInv, NEW left \in SUBSET Numbers, Max(Numbers) \in left,
         files' = [files EXCEPT !.versions = [n \in left |-> @[n]]],
         UNCHANGED <<current, crashes>>
  PROVE  /\ files' = [state |-> files.state, tmp |-> files.tmp, versions |-> files'.versions]
         /\ Numbers' = left /\ IsFiniteSet(left)
         /\ \A n \in left : files'.versions[n] = files.versions[n]
         /\ \A v \in told : \E n \in left : v[1] <= n
         /\ Cardinality(left) <= Cardinality(Numbers)
         /\ CommandShape(command') => FilesShape'
<1>1. FilesShape /\ NumbersInv
  BY DEF FileInv
<1>2. files' = [state |-> files.state, tmp |-> files.tmp,
                versions |-> [n \in left |-> files.versions[n]]]
  BY <1>1 DEF FilesShape
<1>3. Numbers' = left /\ \A n \in left : files'.versions[n] = files.versions[n]
  BY <1>2 DEF Numbers
<1>4. IsFiniteSet(left) /\ Cardinality(left) <= Cardinality(Numbers)
  BY <1>1, FS_Subset DEF FilesShape
<1>5. ASSUME NEW v \in told PROVE \E n \in left : v[1] <= n
  <2>1. Max(Numbers) \in Numbers /\ \A n \in Numbers : n <= Max(Numbers)
    BY <1>1, GreatestIn DEF FilesShape
  <2>2. PICK n \in Numbers : v[1] <= n
    BY <1>1 DEF NumbersInv
  <2>3. v[1] \in Nat /\ n \in Nat /\ Max(Numbers) \in Nat /\ n <= Max(Numbers)
    BY <1>1, <2>1 DEF NumbersInv, FilesShape
  <2>. QED BY <2>2, <2>3
<1>6. CommandShape(command') => FilesShape'
  <2>1. /\ files' = [state |-> files'.state, tmp |-> files'.tmp, versions |-> files'.versions]
        /\ Numbers' \in SUBSET Nat
        /\ \A n \in Numbers' : files'.versions[n] \in Snapshots \cup {Torn}
    BY <1>1, <1>2, <1>3 DEF FilesShape
  <2>. QED BY <1>1, <1>3, <1>4, <2>1 DEF FilesShape
<1>. QED BY <1>2, <1>3, <1>4, <1>5, <1>6

LEMMA PruneKeeps ==
  ASSUME FileInv, Prune
  PROVE  FileInv'
<1>. DEFINE number == command.number
            left == Numbers \ Oldest(Cardinality(Numbers) - KeepVersions)
            young == {n \in Numbers : ~(Cardinality({m \in Numbers : m <= n})
                                          <= Cardinality(Numbers) - KeepVersions)}
<1>1. Pruning /\ number \in Numbers /\ FilesShape /\ NumbersInv
  BY DEF Prune, Pruning, FileInv, NumbersInv
<1>2. Numbers \in SUBSET Nat /\ IsFiniteSet(Numbers) /\ Numbers # {} /\ KeepVersions \in Nat \ {0}
  BY <1>1, FilesAssumption DEF FilesShape
<1>3. left = young
  BY DEF Oldest
<1>4. IsFiniteSet(left) /\ Cardinality(left) <= KeepVersions /\ Max(Numbers) \in left
  <2>1. IsFiniteSet(young) /\ Cardinality(young) <= KeepVersions /\ Max(Numbers) \in young
    BY <1>2, YoungestLeft
  <2>. HIDE DEF left, young
  <2>. QED BY <1>3, <2>1
<1>5. Max(Numbers) = number
  <2>1. Max(Numbers) \in Numbers /\ \A n \in Numbers : n <= Max(Numbers)
    BY <1>2, GreatestIn
  <2>2. Max(Numbers) <= number /\ number <= Max(Numbers) /\ number \in Nat /\ Max(Numbers) \in Nat
    BY <1>1, <1>2, <2>1 DEF NumbersInv
  <2>. QED BY <2>2
<1>6. /\ files' = [files EXCEPT !.versions = [n \in left |-> @[n]]]
      /\ told' = told \cup {<<number, command.snap>>} /\ command' = Idle
      /\ UNCHANGED <<current, crashes>> /\ left \in SUBSET Numbers
  BY DEF Prune
<1>. HIDE DEF left
<1>7. /\ files' = [state |-> files.state, tmp |-> files.tmp, versions |-> files'.versions]
      /\ Numbers' = left
      /\ \A n \in left : files'.versions[n] = files.versions[n]
      /\ \A v \in told : \E n \in left : v[1] <= n
      /\ CommandShape(command') => FilesShape'
  BY <1>4, <1>6, LeftVersions
<1>8. CommandShape(command') /\ ~Pruning'
  BY <1>6 DEF CommandShape, Pruning
<1>9. FilesShape' /\ StateInv'
  BY <1>6, <1>7, <1>8 DEF StateInv, FileInv
<1>10. NumbersInv'
  <2>. DEFINE new == <<number, command.snap>>
  <2>1. number \in Nat /\ number \in left /\ number \in Numbers
    BY <1>1, <1>2, <1>4, <1>5
  <2>2. files.versions[number] = command.snap /\ \A v \in told : v[1] < number /\ v[1] \in Nat
    BY <1>1 DEF NumbersInv
  <2>3. new = <<new[1], new[2]>> /\ new[1] = number /\ new[2] = command.snap
    OBVIOUS
  <2>. HIDE DEF number, new
  <2>4. \A v \in told' : v = <<v[1], v[2]>> /\ v[1] \in Nat
    BY <1>1, <1>6, <2>1, <2>3 DEF NumbersInv, new, number
  <2>5. \A v, w \in told' : v[1] = w[1] => v = w
    <3>1. \A v \in told : v[1] # new[1]
      BY <2>1, <2>2, <2>3
    <3>. QED BY <1>1, <1>6, <3>1 DEF NumbersInv, new, number
  <2>6. \A v \in told' : v[1] \in Numbers' => files'.versions[v[1]] = v[2]
    BY <1>1, <1>6, <1>7, <2>1, <2>2, <2>3 DEF NumbersInv, new, number
  <2>7. \A v \in told' : \E n \in Numbers' : v[1] <= n
    BY <1>6, <1>7, <2>1, <2>3 DEF new, number
  <2>. QED BY <1>8, <2>4, <2>5, <2>6, <2>7 DEF NumbersInv
<1>11. CountInv'
  <2>1. Cardinality(left) \in Nat /\ crashes \in Nat
    BY <1>1, <1>4, FS_CardinalityType DEF FilesShape
  <2>2. Cardinality(left) <= KeepVersions + crashes + 0
    BY <1>2, <1>4, <2>1
  <2>. QED BY <1>6, <1>7, <1>8, <2>2 DEF CountInv
<1>. QED BY <1>9, <1>10, <1>11 DEF FileInv

LEMMA RetainKeeps ==
  ASSUME FileInv, NEW cutoff \in Nat, Retain(cutoff)
  PROVE  FileInv'
<1>. DEFINE left == {n \in Numbers : n >= cutoff \/ n = Max(Numbers)}
<1>1. /\ files' = [files EXCEPT !.versions = [n \in left |-> @[n]]]
      /\ command = Idle /\ Numbers # {}
      /\ UNCHANGED <<command, told, current, crashes>> /\ left \in SUBSET Numbers
  BY DEF Retain
<1>2. Max(Numbers) \in left
  BY <1>1, GreatestIn DEF FileInv, FilesShape
<1>. HIDE DEF left
<1>3. /\ files' = [state |-> files.state, tmp |-> files.tmp, versions |-> files'.versions]
      /\ Numbers' = left /\ IsFiniteSet(left)
      /\ \A n \in left : files'.versions[n] = files.versions[n]
      /\ \A v \in told : \E n \in left : v[1] <= n
      /\ Cardinality(left) <= Cardinality(Numbers)
      /\ CommandShape(command') => FilesShape'
  BY <1>1, <1>2, LeftVersions
<1>4. CommandShape(command') /\ ~Pruning /\ ~Pruning'
  BY <1>1 DEF CommandShape, Pruning
<1>5. FilesShape' /\ StateInv'
  BY <1>1, <1>3, <1>4 DEF StateInv, FileInv
<1>6. NumbersInv'
  BY <1>1, <1>3, <1>4 DEF NumbersInv, FileInv
<1>7. CountInv'
  <2>1. /\ Cardinality(left) \in Nat /\ Cardinality(Numbers) \in Nat
        /\ crashes \in Nat /\ KeepVersions \in Nat
    BY <1>3, FS_CardinalityType, FilesAssumption DEF FileInv, FilesShape
  <2>2. Cardinality(Numbers) <= KeepVersions + crashes + 0
    BY <1>4 DEF FileInv, CountInv
  <2>3. Cardinality(left) <= KeepVersions + crashes + 0
    BY <1>3, <2>1, <2>2
  <2>. QED BY <1>1, <1>3, <1>4, <2>3 DEF CountInv
<1>. QED BY <1>5, <1>6, <1>7 DEF FileInv

LEMMA KillKeeps ==
  ASSUME FileInv, Kill \/ KillLog
  PROVE  FileInv'
<1>1. /\ crashes' = crashes + 1 /\ command' = Idle /\ UNCHANGED <<told, current>>
  BY DEF Kill, KillLog
<1>2. CommandShape(command') /\ ~Pruning'
  BY <1>1 DEF CommandShape, Pruning
<1>3. /\ Cardinality(Numbers) \in Nat /\ crashes \in Nat /\ KeepVersions \in Nat
      /\ Cardinality(Numbers) <= KeepVersions + crashes + (IF Pruning THEN 1 ELSE 0)
  BY FS_CardinalityType, FilesAssumption DEF FileInv, FilesShape, CountInv
<1>4. crashes' \in Nat
  BY <1>1, <1>3
<1>5. CASE UNCHANGED files
  <2>1. Numbers' = Numbers
    BY <1>5 DEF Numbers
  <2>2. Cardinality(Numbers) <= KeepVersions + (crashes + 1) + 0
    BY <1>3
  <2>3. CountInv'
    BY <1>1, <1>2, <2>1, <2>2 DEF CountInv
  <2>4. FilesShape' /\ StateInv' /\ NumbersInv'
    BY <1>1, <1>2, <1>4, <1>5, <2>1 DEF FileInv, FilesShape, StateInv, NumbersInv
  <2>. QED BY <2>3, <2>4 DEF FileInv
<1>6. CASE command # Idle /\ command.at = "tmp" /\ files' = [files EXCEPT !.tmp = Torn]
  <2>1. files' = [state |-> files.state, tmp |-> Torn, versions |-> files.versions]
    BY <1>6 DEF FileInv, FilesShape
  <2>2. Numbers' = Numbers
    BY <2>1 DEF Numbers
  <2>3. Cardinality(Numbers) <= KeepVersions + (crashes + 1) + 0
    BY <1>3
  <2>4. CountInv'
    BY <1>1, <1>2, <2>2, <2>3 DEF CountInv
  <2>5. FilesShape'
    BY <1>2, <1>4, <2>1, <2>2 DEF FileInv, FilesShape
  <2>6. StateInv' /\ NumbersInv'
    BY <1>1, <1>2, <2>1, <2>2 DEF FileInv, StateInv, NumbersInv
  <2>. QED BY <2>4, <2>5, <2>6 DEF FileInv
<1>7. CASE /\ command # Idle /\ command.at = "version"
           /\ files' = [files EXCEPT !.versions = [n \in Numbers \cup {NextNumber} |->
                          IF n = NextNumber THEN Torn ELSE @[n]]]
  <2>1. /\ files' = [state |-> files.state, tmp |-> files.tmp, versions |-> files'.versions]
        /\ CommandShape(command') => FilesShape'
        /\ (Pruning' => command'.number = NextNumber /\ command'.snap = Torn) => NumbersInv'
        /\ Cardinality(Numbers') = Cardinality(Numbers) + 1
    BY <1>1, <1>4, <1>7, AddedVersion
  <2>2. ~Pruning
    BY <1>7 DEF Pruning
  <2>3. Cardinality(Numbers') <= KeepVersions + (crashes + 1) + 0
    BY <1>3, <2>1, <2>2
  <2>4. CountInv'
    BY <1>1, <1>2, <2>3 DEF CountInv
  <2>5. StateInv'
    BY <1>1, <2>1 DEF FileInv, StateInv
  <2>. QED BY <1>2, <2>1, <2>4, <2>5 DEF FileInv
<1>. QED BY <1>5, <1>6, <1>7 DEF Kill, KillLog

LEMMA StoreKeeps == StoreInv /\ [VersionsNext]_storeVars => StoreInv'
<1>. SUFFICES ASSUME StoreInv, [VersionsNext]_storeVars PROVE StoreInv'
  OBVIOUS
<1>1. FileInv /\ LogInv
  BY DEF StoreInv, FileInv
<1>2. CASE UNCHANGED storeVars
  BY <1>1, <1>2 DEF storeVars, StoreInv, FilesShape, StateInv, NumbersInv, CountInv, LogInv,
                    Numbers, Pruning, IsInjective
<1>3. CASE VersionsNext
  <2>1. ASSUME NEW s \in Snapshots, SaveVersion(s) PROVE FileInv'
    <3>. DEFINE c == [op |-> "save", at |-> "tmp", snap |-> s]
    <3>1. CommandShape(c) /\ c # Idle /\ c.at = "tmp" /\ ~Pruning
      BY <2>1 DEF CommandShape, Idle, SaveVersion, Pruning
    <3>2. command' = c /\ UNCHANGED <<files, told, current, crashes>>
      BY <2>1 DEF SaveVersion
    <3>. HIDE DEF c
    <3>. QED BY <1>1, <3>1, <3>2, BeginKeeps
  <2>2. ASSUME NEW n \in 1..MaxNumber, Revert(n) PROVE FileInv'
    <3>. DEFINE c == [op |-> "revert", at |-> "tmp", snap |-> files.versions[n]]
    <3>1. files.versions[n] \in Snapshots /\ ~Pruning
      BY <1>1, <2>2 DEF Revert, FileInv, FilesShape, Pruning
    <3>2. CommandShape(c) /\ c # Idle /\ c.at = "tmp"
      BY <3>1 DEF CommandShape, Idle
    <3>3. command' = c /\ UNCHANGED <<files, told, current, crashes>>
      BY <2>2 DEF Revert
    <3>. HIDE DEF c
    <3>. QED BY <1>1, <3>1, <3>2, <3>3, BeginKeeps
  <2>3. ASSUME NEW n \in 1..MaxNumber, Retain(n) PROVE FileInv'
    BY <1>1, <2>3, RetainKeeps
  <2>4. ASSUME NEW r \in Records, Append1(r) PROVE FileInv'
    BY <1>1, <2>4 DEF Append1, FileInv, FilesShape, StateInv, NumbersInv, CountInv, Numbers, Pruning
  <2>5. ASSUME WriteTmp \/ Rename \/ WriteVersion \/ Prune \/ Kill \/ KillLog PROVE FileInv'
    BY <1>1, <2>5, WriteTmpKeeps, RenameKeeps, WriteVersionKeeps, PruneKeeps, KillKeeps
  <2>6. FileInv'
    BY <1>3, <2>1, <2>2, <2>3, <2>4, <2>5 DEF VersionsNext
  <2>. QED BY <1>3, <2>6, LogKeeps DEF StoreInv, FileInv
<1>. QED BY <1>2, <1>3

\* A number names one state for ever, the state file is whole, and the log
\* returns all that was acknowledged but for one record a kill, wherever the
\* process stops (SaveVersion, Revert, pruneVersions, RetainVersions, Append).
THEOREM StoreCorrect == ServicesSpec => []StoreStands
<1>1. ServicesInit => StoreInv
  BY StoreStart DEF ServicesInit
<1>2. StoreInv /\ [ServicesNext]_allVars => StoreInv'
  BY Steps, StoreKeeps
<1>3. StoreInv => StoreStands
  BY StoreTells DEF StoreStands
<1>. QED BY <1>1, <1>2, <1>3, PTL DEF ServicesSpec, allVars

-----------------------------------------------------------------------------
(* The stored forecasts.                                                   *)

\* What a POST has taken an id for carries it, no two the same, and none that
\* is stored; what the client was promised is stored until it expires.
ForecastInv ==
  LET items == forecasts.items IN
  /\ forecasts = [items |-> items, seq |-> forecasts.seq, posting |-> forecasts.posting,
                  owed |-> forecasts.owed, now |-> forecasts.now, shown |-> forecasts.shown]
  /\ forecasts.seq \in Nat /\ forecasts.now \in Nat
  /\ IsFiniteSet(DOMAIN items) /\ Cardinality(DOMAIN items) <= MaxForecasts
  /\ \A id \in DOMAIN items : id \in 1..forecasts.seq /\ items[id].expires \in Int
  /\ \A a, b \in DOMAIN items : items[a].job = items[b].job => a = b
  /\ \A f \in forecasts.posting :
       f.id \in 1..forecasts.seq /\ f.id \notin DOMAIN items /\ f.expires \in Int
  /\ \A f, g \in forecasts.posting : f.id = g.id => f = g
  /\ \A f \in forecasts.owed : f.expires \in Int
  /\ \A f \in forecasts.owed :
       forecasts.now <= f.expires => f.id \in DOMAIN items /\ items[f.id] = f
  /\ \A f \in forecasts.shown : forecasts.now <= f.expires

LEMMA ForecastsStart == ForecastsInit => ForecastInv
<1>. SUFFICES ASSUME ForecastsInit PROVE ForecastInv
  OBVIOUS
<1>1. DOMAIN forecasts.items = {}
  BY DEF ForecastsInit
<1>. QED BY <1>1, FS_EmptySet, StoresAssumption DEF ForecastsInit, ForecastInv

LEMMA ForecastsTell == ForecastInv => ForecastsKept
BY DEF ForecastInv, ForecastsKept, Expired

\* Forecasts go: those that expired, or one that the client does not want.
LEMMA ForecastsGo ==
  ASSUME ForecastInv, NEW gone, NEW shown, NEW owed \in SUBSET forecasts.owed,
         \A f \in owed : forecasts.now <= f.expires => f.id \notin gone,
         \A f \in shown : forecasts.now <= f.expires,
         forecasts' = [forecasts EXCEPT !.items = Dropped(@, gone), !.shown = shown, !.owed = owed]
  PROVE  ForecastInv'
<1>. DEFINE items == [id \in DOMAIN forecasts.items \ gone |-> forecasts.items[id]]
<1>1. forecasts' = [items |-> items, seq |-> forecasts.seq, posting |-> forecasts.posting,
                    owed |-> owed, now |-> forecasts.now, shown |-> shown]
  BY DEF ForecastInv, Dropped
<1>2. IsFiniteSet(DOMAIN items) /\ Cardinality(DOMAIN items) <= MaxForecasts
  <2>1. DOMAIN items \in SUBSET DOMAIN forecasts.items /\ IsFiniteSet(DOMAIN forecasts.items)
    BY DEF ForecastInv
  <2>2. /\ IsFiniteSet(DOMAIN items) /\ Cardinality(DOMAIN items) \in Nat
        /\ Cardinality(DOMAIN forecasts.items) \in Nat
        /\ Cardinality(DOMAIN items) <= Cardinality(DOMAIN forecasts.items)
    BY <2>1, FS_Subset, FS_CardinalityType
  <2>3. Cardinality(DOMAIN forecasts.items) <= MaxForecasts
    BY DEF ForecastInv
  <2>. HIDE DEF items
  <2>. QED BY <2>2, <2>3, StoresAssumption
<1>3. /\ \A id \in DOMAIN items : id \in DOMAIN forecasts.items /\ id \notin gone
                                  /\ items[id] = forecasts.items[id]
      /\ \A id \in DOMAIN forecasts.items : id \notin gone => id \in DOMAIN items
  OBVIOUS
<1>. HIDE DEF items
<1>4. \A id \in DOMAIN items : id \in 1..forecasts.seq /\ items[id].expires \in Int
  BY <1>3 DEF ForecastInv
<1>5. \A a, b \in DOMAIN items : items[a].job = items[b].job => a = b
  BY <1>3 DEF ForecastInv
<1>6. \A f \in forecasts.posting :
        f.id \in 1..forecasts.seq /\ f.id \notin DOMAIN items /\ f.expires \in Int
  BY <1>3 DEF ForecastInv
<1>7. \A f \in owed : f.expires \in Int
  BY DEF ForecastInv
<1>8. \A f \in owed : forecasts.now <= f.expires => f.id \in DOMAIN items /\ items[f.id] = f
  BY <1>3 DEF ForecastInv
<1>9. /\ forecasts.seq \in Nat /\ forecasts.now \in Nat
      /\ \A f, g \in forecasts.posting : f.id = g.id => f = g
  BY DEF ForecastInv
<1>10. /\ forecasts' = [items |-> forecasts'.items, seq |-> forecasts'.seq,
                        posting |-> forecasts'.posting, owed |-> forecasts'.owed,
                        now |-> forecasts'.now, shown |-> forecasts'.shown]
       /\ forecasts'.items = items /\ forecasts'.seq = forecasts.seq
       /\ forecasts'.posting = forecasts.posting /\ forecasts'.owed = owed
       /\ forecasts'.now = forecasts.now /\ forecasts'.shown = shown
  BY ONLY <1>1
<1>11. \A f \in shown : forecasts.now <= f.expires
  OBVIOUS
<1>. QED BY ONLY <1>2, <1>4, <1>5, <1>6, <1>7, <1>8, <1>9, <1>10, <1>11 DEF ForecastInv

LEMMA ForecastsKeep == ForecastInv /\ [ForecastsNext]_forecastVars => ForecastInv'
<1>. SUFFICES ASSUME ForecastInv, [ForecastsNext]_forecastVars PROVE ForecastInv'
  OBVIOUS
<1>. DEFINE items == forecasts.items
<1>1. CASE UNCHANGED forecastVars
  BY <1>1 DEF forecastVars, ForecastInv
<1>2. ASSUME NEW j \in Owners, NEW l \in Lifetimes, PostForecast(j, l) PROVE ForecastInv'
  <2>. DEFINE new == [id |-> forecasts.seq + 1, job |-> j, expires |-> forecasts.now + l]
  <2>1. forecasts' = [items |-> items, seq |-> forecasts.seq + 1,
                      posting |-> forecasts.posting \cup {new},
                      owed |-> forecasts.owed, now |-> forecasts.now, shown |-> {}]
    BY <1>2 DEF PostForecast, ForecastInv
  <2>2. forecasts.seq \in Nat /\ forecasts.now \in Nat /\ l \in Int
    BY StoresAssumption DEF ForecastInv
  <2>3. new.id = forecasts.seq + 1 /\ new.expires \in Int
    BY <2>2
  <2>. HIDE DEF new
  <2>4. /\ \A n \in 1..forecasts.seq : n \in 1..(forecasts.seq + 1) /\ n # new.id
        /\ new.id \in 1..(forecasts.seq + 1) /\ forecasts.seq + 1 \in Nat
    BY <2>2, <2>3
  <2>5. new.id \notin DOMAIN items
    BY <2>4 DEF ForecastInv
  <2>6. \A f, g \in forecasts.posting \cup {new} : f.id = g.id => f = g
    <3>1. \A f \in forecasts.posting : f.id # new.id
      BY <2>4 DEF ForecastInv
    <3>. QED BY <3>1 DEF ForecastInv
  <2>. QED BY <2>1, <2>2, <2>3, <2>4, <2>5, <2>6 DEF ForecastInv
<1>3. ASSUME NEW f \in forecasts.posting, PutForecast(f) PROVE ForecastInv'
  <2>. DEFINE same == {id \in DOMAIN items : items[id].job = f.job}
              full == same = {} /\ Cardinality(DOMAIN items) >= MaxForecasts
  <2>1. CASE full
    <3>1. forecasts' = [items |-> items, seq |-> forecasts.seq,
                        posting |-> forecasts.posting \ {f},
                        owed |-> forecasts.owed, now |-> forecasts.now, shown |-> {}]
      BY <1>3, <2>1 DEF PutForecast, ForecastInv
    <3>. QED BY <3>1 DEF ForecastInv
  <2>2. CASE ~full
    <3>. DEFINE kept == DOMAIN items \ same
                all == [x \in kept \cup {f.id} |-> IF x = f.id THEN f ELSE items[x]]
                owed == {o \in forecasts.owed : o.job # f.job} \cup {f}
    <3>1. forecasts' = [items |-> all, seq |-> forecasts.seq,
                        posting |-> forecasts.posting \ {f},
                        owed |-> owed, now |-> forecasts.now, shown |-> {}]
      <4>1. Stored(Dropped(items, same), f.id, f) = all
        BY DEF Stored, Dropped, ForecastInv
      <4>2. /\ forecasts' = [forecasts EXCEPT
                               !.posting = @ \ {f}, !.shown = {},
                               !.items = Stored(Dropped(@, same), f.id, f),
                               !.owed = {o \in @ : o.job # f.job} \cup {f}]
        BY <1>3, <2>2 DEF PutForecast
      <4>3. forecasts = [items |-> items, seq |-> forecasts.seq, posting |-> forecasts.posting,
                         owed |-> forecasts.owed, now |-> forecasts.now, shown |-> forecasts.shown]
        BY DEF ForecastInv
      <4>. HIDE DEF all, same
      <4>. QED BY <4>1, <4>2, <4>3
    <3>2. f.id \in 1..forecasts.seq /\ f.id \notin DOMAIN items /\ f.expires \in Int
      BY DEF ForecastInv
    <3>3. /\ DOMAIN all = kept \cup {f.id} /\ all[f.id] = f
          /\ \A x \in kept : x \in DOMAIN items /\ items[x].job # f.job /\ all[x] = items[x] /\ x # f.id
          /\ \A x \in DOMAIN items : items[x].job # f.job => x \in kept
      BY <3>2
    <3>4. IsFiniteSet(DOMAIN all) /\ Cardinality(DOMAIN all) <= MaxForecasts
      <4>1. IsFiniteSet(DOMAIN items) /\ Cardinality(DOMAIN items) <= MaxForecasts
        BY DEF ForecastInv
      <4>2. IsFiniteSet(kept) /\ Cardinality(kept) \in Nat /\ Cardinality(DOMAIN items) \in Nat
        BY <4>1, FS_Subset, FS_CardinalityType
      <4>3. Cardinality(kept) < MaxForecasts
        <5>1. CASE same = {}
          <6>1. kept = DOMAIN items
            BY <5>1
          <6>. HIDE DEF kept, same
          <6>. QED BY <2>2, <4>2, <5>1, <6>1, StoresAssumption
        <5>2. CASE same # {}
          <6>1. kept \in SUBSET DOMAIN items /\ kept # DOMAIN items
            BY <5>2
          <6>2. Cardinality(kept) <= Cardinality(DOMAIN items)
                /\ Cardinality(kept) # Cardinality(DOMAIN items)
            BY <4>1, <6>1, FS_Subset
          <6>. HIDE DEF kept
          <6>. QED BY <4>1, <4>2, <6>2, StoresAssumption
        <5>. QED BY <5>1, <5>2
      <4>4. IsFiniteSet(DOMAIN all) /\ Cardinality(DOMAIN all) = Cardinality(kept) + 1
        <5>. HIDE DEF kept, all
        <5>. QED BY <3>2, <3>3, <4>2, FS_AddElement
      <4>. HIDE DEF kept, all
      <4>. QED BY <4>2, <4>3, <4>4, StoresAssumption
    <3>. HIDE DEF kept, all
    <3>5. \A id \in DOMAIN all : id \in 1..forecasts.seq /\ all[id].expires \in Int
      BY <3>2, <3>3 DEF ForecastInv
    <3>6. \A a, b \in DOMAIN all : all[a].job = all[b].job => a = b
      BY <3>3 DEF ForecastInv
    <3>7. \A g \in forecasts.posting \ {f} :
            g.id \in 1..forecasts.seq /\ g.id \notin DOMAIN all /\ g.expires \in Int
      BY <3>3 DEF ForecastInv
    <3>8. \A o \in owed : o.expires \in Int
            /\ (forecasts.now <= o.expires => o.id \in DOMAIN all /\ all[o.id] = o)
      BY <3>2, <3>3 DEF ForecastInv
    <3>. HIDE DEF owed
    <3>. QED BY <3>1, <3>4, <3>5, <3>6, <3>7, <3>8 DEF ForecastInv
  <2>. QED BY <2>1, <2>2
<1>4. ASSUME NEW ids, ReadForecasts(ids) PROVE ForecastInv'
  <2>. DEFINE gone == {id \in DOMAIN items \cap ids : Expired(items[id])}
              shown == {items[id] : id \in (DOMAIN items \cap ids) \ gone}
  <2>1. forecasts' = [forecasts EXCEPT !.items = Dropped(@, gone), !.shown = shown]
    BY <1>4 DEF ReadForecasts
  <2>2. forecasts' = [forecasts EXCEPT !.items = Dropped(@, gone), !.shown = shown,
                                       !.owed = forecasts.owed]
    <3>. HIDE DEF gone, shown
    <3>. QED BY <2>1 DEF ForecastInv
  <2>3. \A f \in forecasts.owed : forecasts.now <= f.expires => f.id \notin gone
    BY DEF ForecastInv, Expired
  <2>4. \A f \in shown : forecasts.now <= f.expires
    BY DEF ForecastInv, Expired
  <2>. HIDE DEF gone, shown
  <2>. QED BY <2>2, <2>3, <2>4, ForecastsGo
<1>5. ASSUME NEW id \in DOMAIN items, DeleteForecast(id) PROVE ForecastInv'
  <2>. DEFINE owed == {o \in forecasts.owed : o.id # id}
              gone == {id}
              shown == {}
  <2>1. forecasts' = [forecasts EXCEPT !.items = Dropped(@, gone), !.shown = shown, !.owed = owed]
    BY <1>5 DEF DeleteForecast
  <2>2. /\ owed \in SUBSET forecasts.owed
        /\ \A f \in owed : forecasts.now <= f.expires => f.id \notin gone
        /\ \A f \in shown : forecasts.now <= f.expires
    OBVIOUS
  <2>. HIDE DEF owed, gone, shown
  <2>. QED BY <2>1, <2>2, ForecastsGo
<1>6. ASSUME ForecastClock PROVE ForecastInv'
  <2>1. forecasts' = [items |-> items, seq |-> forecasts.seq, posting |-> forecasts.posting,
                      owed |-> forecasts.owed, now |-> forecasts.now + 1, shown |-> {}]
    BY <1>6 DEF ForecastClock, ForecastInv
  <2>2. /\ forecasts.now + 1 \in Nat
        /\ \A x \in Int : forecasts.now + 1 <= x => forecasts.now <= x
    BY DEF ForecastInv
  <2>. QED BY <2>1, <2>2 DEF ForecastInv
<1>. QED BY <1>1, <1>2, <1>3, <1>4, <1>5, <1>6 DEF ForecastsNext

-----------------------------------------------------------------------------
(* The rate limiter.                                                       *)

\* What passed since any request that passed, and what the bucket still
\* holds, came out of the burst and what flowed in meanwhile.
LimiterInv ==
  \/ limiter = [rate |-> 0]
  \/ LET passed == limiter.passed IN
     /\ limiter = [rate |-> limiter.rate, burst |-> limiter.burst, tokens |-> limiter.tokens,
                   last |-> limiter.last, now |-> limiter.now, passed |-> passed]
     /\ limiter.rate \in Nat /\ limiter.burst \in Nat /\ limiter.tokens \in Nat
     /\ limiter.last \in Int /\ limiter.now \in Nat /\ passed \in Seq(Nat)
     /\ Whole <= limiter.burst /\ limiter.tokens <= limiter.burst
     /\ limiter.last <= limiter.now
     /\ limiter.last < 0 => passed = <<>>
     /\ \A i \in DOMAIN passed :
          Whole * (Len(passed) - i + 1) + limiter.tokens
            <= limiter.burst + limiter.rate * (limiter.last - passed[i])
     /\ \A i, j \in DOMAIN passed :
          i <= j => Whole * (j - i + 1) <= limiter.burst + limiter.rate * (passed[j] - passed[i])

LEMMA LimiterTells == LimiterInv => RateKept
BY DEF LimiterInv, RateKept

LEMMA LimiterMade ==
  ASSUME NEW rate \in Nat, rate > 0, limiter' = NewLimiter(rate)
  PROVE  LimiterInv'
<1>. DEFINE burst == IF 2 * rate < Whole THEN Whole ELSE 2 * rate
<1>1. limiter' = [rate |-> rate, burst |-> burst, tokens |-> burst, last |-> -1,
                  now |-> 0, passed |-> <<>>]
  BY DEF NewLimiter
<1>2. burst \in Nat /\ Whole <= burst
  BY StoresAssumption
<1>. HIDE DEF burst
<1>3. limiter'.passed = <<>> /\ DOMAIN limiter'.passed = {} /\ <<>> \in Seq(Nat)
  BY <1>1
<1>. QED BY <1>1, <1>2, <1>3 DEF LimiterInv

\* What the bucket holds once it is refilled, before a request takes of it.
LEMMA Refilled ==
  ASSUME LimiterInv, limiter.rate > 0
  PROVE  LET last == IF limiter.last < 0 THEN limiter.now ELSE limiter.last
             tokens == Min({limiter.burst,
                            limiter.tokens + limiter.rate * (limiter.now - last)}) IN
         /\ tokens \in Nat /\ tokens <= limiter.burst
         /\ \A i \in DOMAIN limiter.passed :
              Whole * (Len(limiter.passed) - i + 1) + tokens
                <= limiter.burst + limiter.rate * (limiter.now - limiter.passed[i])
<1>. DEFINE last == IF limiter.last < 0 THEN limiter.now ELSE limiter.last
            flow == limiter.rate * (limiter.now - last)
            tokens == Min({limiter.burst, limiter.tokens + flow})
            passed == limiter.passed
<1>0. limiter # [rate |-> 0]
  OBVIOUS
<1>1. /\ limiter.rate \in Nat /\ limiter.burst \in Nat /\ limiter.tokens \in Nat
      /\ limiter.last \in Int /\ limiter.now \in Nat /\ passed \in Seq(Nat)
      /\ limiter.last <= limiter.now /\ (limiter.last < 0 => passed = <<>>)
  BY <1>0 DEF LimiterInv
<1>2. last \in Int /\ limiter.now - last \in Nat
  BY <1>1
<1>3. flow \in Nat
  <2>1. \A x, y \in Nat : x * y \in Nat
    OBVIOUS
  <2>. QED BY <1>1, <1>2, <2>1
<1>4. tokens \in Nat /\ tokens <= limiter.burst /\ tokens <= limiter.tokens + flow
  <2>1. limiter.tokens + flow \in Nat
    BY <1>1, <1>3
  <2>. HIDE DEF flow
  <2>. QED BY <1>1, <2>1, MinOfTwo
<1>5. ASSUME NEW i \in DOMAIN passed
      PROVE  Whole * (Len(passed) - i + 1) + tokens
               <= limiter.burst + limiter.rate * (limiter.now - passed[i])
  <2>1. passed # <<>> /\ i \in 1..Len(passed) /\ passed[i] \in Nat /\ Len(passed) \in Nat
    BY <1>1
  <2>2. last = limiter.last
    BY <1>1, <2>1
  <2>. DEFINE before == limiter.rate * (last - passed[i])
              whole == Whole * (Len(passed) - i + 1)
  <2>3. whole + limiter.tokens <= limiter.burst + before
    BY <1>0, <2>2 DEF LimiterInv
  <2>4. limiter.rate * ((last - passed[i]) + (limiter.now - last)) = before + flow
    <3>1. last - passed[i] \in Int /\ limiter.now - last \in Int /\ limiter.rate \in Int
      BY <1>1, <1>2, <2>1
    <3>. HIDE DEF last
    <3>. QED BY <3>1, Products
  <2>5. (last - passed[i]) + (limiter.now - last) = limiter.now - passed[i]
    BY <1>1, <1>2, <2>1
  <2>6. before \in Int /\ whole \in Int
    <3>1. /\ limiter.rate \in Int /\ last - passed[i] \in Int
          /\ Whole \in Int /\ Len(passed) - i + 1 \in Int
      <4>1. i \in Int
        BY <2>1
      <4>. HIDE DEF last, passed
      <4>. QED BY SMTT(30), <1>1, <1>2, <2>1, <4>1, StoresAssumption
    <3>. HIDE DEF last, passed
    <3>. QED BY <3>1, Products
  <2>. HIDE DEF before, whole, flow, tokens, last
  <2>7. limiter.rate * (limiter.now - passed[i]) = before + flow
    BY <2>4, <2>5
  <2>8. whole + tokens <= limiter.burst + (before + flow)
    BY <1>1, <1>3, <1>4, <2>3, <2>6
  <2>. QED BY <2>7, <2>8 DEF whole
<1>. QED BY <1>4, <1>5

LEMMA AllowKeeps == LimiterInv /\ Allow => LimiterInv'
<1>. SUFFICES ASSUME LimiterInv, Allow PROVE LimiterInv'
  OBVIOUS
<1>. DEFINE last == IF limiter.last < 0 THEN limiter.now ELSE limiter.last
            tokens == Min({limiter.burst, limiter.tokens + limiter.rate * (limiter.now - last)})
            passed == limiter.passed
            gap(t, i) == limiter.rate * (t - passed[i])
<1>0. limiter.rate > 0 /\ limiter # [rate |-> 0]
  BY DEF Allow
<1>1. /\ limiter = [rate |-> limiter.rate, burst |-> limiter.burst, tokens |-> limiter.tokens,
                    last |-> limiter.last, now |-> limiter.now, passed |-> passed]
      /\ limiter.rate \in Nat /\ limiter.burst \in Nat /\ limiter.now \in Nat
      /\ passed \in Seq(Nat) /\ Whole <= limiter.burst /\ Whole \in Nat
  BY <1>0, StoresAssumption DEF LimiterInv
<1>2. \A i, j \in DOMAIN passed :
        i <= j => Whole * (j - i + 1) <= limiter.burst + limiter.rate * (passed[j] - passed[i])
  BY <1>0 DEF LimiterInv
<1>3. /\ tokens \in Nat /\ tokens <= limiter.burst
      /\ \A i \in DOMAIN passed :
           Whole * (Len(passed) - i + 1) + tokens
             <= limiter.burst + limiter.rate * (limiter.now - passed[i])
  BY <1>0, Refilled
<1>4. limiter' = [limiter EXCEPT !.last = limiter.now,
                    !.tokens = IF tokens >= Whole THEN tokens - Whole ELSE tokens,
                    !.passed = IF tokens >= Whole THEN Append(@, limiter.now) ELSE @]
  BY DEF Allow
<1>. HIDE DEF tokens
<1>5. CASE tokens < Whole
  <2>1. limiter' = [rate |-> limiter.rate, burst |-> limiter.burst, tokens |-> tokens,
                    last |-> limiter.now, now |-> limiter.now, passed |-> passed]
    <3>1. ~(tokens >= Whole)
      BY <1>1, <1>3, <1>5
    <3>. QED BY <1>1, <1>4, <3>1
  <2>. QED BY ONLY <1>1, <1>2, <1>3, <2>1 DEF LimiterInv
<1>6. CASE tokens >= Whole
  <2>. DEFINE all == Append(passed, limiter.now)
              n == Len(passed)
  <2>1. limiter' = [rate |-> limiter.rate, burst |-> limiter.burst, tokens |-> tokens - Whole,
                    last |-> limiter.now, now |-> limiter.now, passed |-> all]
    BY <1>1, <1>4, <1>6
  <2>2. /\ n \in Nat /\ all \in Seq(Nat) /\ Len(all) = n + 1 /\ DOMAIN all = 1..(n + 1)
        /\ DOMAIN passed = 1..n /\ all[n + 1] = limiter.now
        /\ \A i \in 1..n : all[i] = passed[i]
    BY <1>1
  <2>3. /\ tokens - Whole \in Nat /\ tokens - Whole <= limiter.burst
        /\ limiter.now \in Int /\ limiter.now <= limiter.now /\ ~(limiter.now < 0)
    BY <1>1, <1>3, <1>6
  <2>. HIDE DEF all
  <2>4. ASSUME NEW i \in DOMAIN all
        PROVE  Whole * (n - i + 1) + tokens
                 <= limiter.burst + limiter.rate * (limiter.now - all[i])
    <3>1. CASE i = n + 1
      <4>1. Whole * (n - i + 1) = 0 /\ limiter.rate * (limiter.now - all[i]) = 0
        <5>1. n - i + 1 = 0 /\ limiter.now - all[i] = 0
          BY <1>1, <2>2, <3>1
        <5>. QED BY <1>1, <5>1
      <4>. QED BY <1>1, <1>3, <4>1
    <3>2. CASE i # n + 1
      <4>1. i \in DOMAIN passed /\ all[i] = passed[i]
        BY <2>2, <3>2
      <4>. QED BY <1>3, <4>1
    <3>. QED BY <3>1, <3>2
  <2>5. \A i \in DOMAIN all : Whole * (Len(all) - i + 1) = Whole * (n - i + 1) + Whole
    <3>. SUFFICES ASSUME NEW i \in DOMAIN all
                  PROVE  Whole * (Len(all) - i + 1) = Whole * (n - i + 1) + Whole
      OBVIOUS
    <3>1. i \in Int /\ n - i + 1 \in Int /\ Len(all) - i + 1 = (n - i + 1) + 1
      BY <2>2
    <3>2. Whole * ((n - i + 1) + 1) = Whole * (n - i + 1) + Whole * 1
      BY <1>1, <3>1, Products
    <3>3. Whole * 1 = Whole
      BY <1>1
    <3>. QED BY <3>1, <3>2, <3>3
  <2>6. \A i \in DOMAIN all : all[i] \in Int /\ i \in Int
    BY <2>2
  <2>7. \A i \in DOMAIN all :
          Whole * (Len(all) - i + 1) + (tokens - Whole)
            <= limiter.burst + limiter.rate * (limiter.now - all[i])
    <3>. SUFFICES ASSUME NEW i \in DOMAIN all
                  PROVE  Whole * (Len(all) - i + 1) + (tokens - Whole)
                           <= limiter.burst + limiter.rate * (limiter.now - all[i])
      OBVIOUS
    <3>. DEFINE w == Whole * (n - i + 1)
                r == limiter.rate * (limiter.now - all[i])
    <3>1. w \in Int /\ r \in Int
      BY <1>1, <2>2, <2>6
    <3>2. w + tokens <= limiter.burst + r /\ Whole * (Len(all) - i + 1) = w + Whole
      BY <2>4, <2>5
    <3>. HIDE DEF w, r
    <3>3. (w + Whole) + (tokens - Whole) <= limiter.burst + r
      BY <1>1, <1>3, <3>1, <3>2
    <3>. QED BY <3>2, <3>3 DEF r
  <2>8. \A i, j \in DOMAIN all :
          i <= j => Whole * (j - i + 1) <= limiter.burst + limiter.rate * (all[j] - all[i])
    <3>. SUFFICES ASSUME NEW i \in DOMAIN all, NEW j \in DOMAIN all, i <= j
                  PROVE  Whole * (j - i + 1) <= limiter.burst + limiter.rate * (all[j] - all[i])
      OBVIOUS
    <3>1. CASE j = n + 1
      <4>1. all[j] = limiter.now /\ j = Len(all)
        BY <2>2, <3>1
      <4>. DEFINE w == Whole * (Len(all) - i + 1)
                  r == limiter.rate * (limiter.now - all[i])
      <4>2. w \in Int /\ r \in Int
        BY SMTT(30), <1>1, <2>2, <2>6
      <4>3. w + (tokens - Whole) <= limiter.burst + r
        BY <2>7
      <4>. HIDE DEF w, r
      <4>4. w <= limiter.burst + r
        BY <1>1, <2>3, <4>2, <4>3
      <4>. QED BY <4>1, <4>4 DEF w, r
    <3>2. CASE j # n + 1
      <4>1. i \in 1..n /\ j \in 1..n
        <5>1. n \in Nat /\ i \in 1..(n + 1) /\ j \in 1..(n + 1)
          BY <2>2
        <5>. QED BY ONLY <3>2, <5>1, i <= j
      <4>2. i \in DOMAIN passed /\ j \in DOMAIN passed /\ all[i] = passed[i] /\ all[j] = passed[j]
        BY ONLY <2>2, <4>1
      <4>. QED BY <1>2, <4>2
    <3>. QED BY <3>1, <3>2
  <2>. QED BY ONLY <1>1, <2>1, <2>2, <2>3, <2>7, <2>8 DEF LimiterInv
<1>. QED BY <1>1, <1>3, <1>5, <1>6

LEMMA LimiterKeeps == LimiterInv /\ [LimiterNext]_limiterVars => LimiterInv'
<1>. SUFFICES ASSUME LimiterInv, [LimiterNext]_limiterVars PROVE LimiterInv'
  OBVIOUS
<1>1. CASE UNCHANGED limiterVars
  BY <1>1 DEF limiterVars, LimiterInv
<1>2. ASSUME NEW r \in Rates, MakeLimiter(r) PROVE LimiterInv'
  BY <1>2, LimiterMade, StoresAssumption DEF MakeLimiter
<1>3. CASE Allow
  BY <1>3, AllowKeeps
<1>4. CASE LimiterClock
  <2>0. limiter # [rate |-> 0]
    BY <1>4 DEF LimiterClock
  <2>1. limiter = [rate |-> limiter.rate, burst |-> limiter.burst, tokens |-> limiter.tokens,
                   last |-> limiter.last, now |-> limiter.now, passed |-> limiter.passed]
    BY <2>0 DEF LimiterInv
  <2>2. limiter' = [rate |-> limiter.rate, burst |-> limiter.burst, tokens |-> limiter.tokens,
                    last |-> limiter.last, now |-> limiter.now + 1, passed |-> limiter.passed]
    BY <1>4, <2>1 DEF LimiterClock
  <2>3. limiter.now + 1 \in Nat /\ limiter.last <= limiter.now + 1
    BY <2>0 DEF LimiterInv
  <2>. QED BY <2>0, <2>2, <2>3 DEF LimiterInv
<1>. QED BY <1>1, <1>2, <1>3, <1>4 DEF LimiterNext

-----------------------------------------------------------------------------
(* normalizeFilter: what a list becomes.                                   *)

\* A stored list: within the limit, sorted, without repetition.
Sorted(v) ==
  /\ v \in Seq(Int) /\ Len(v) <= MaxItems
  /\ \A i \in 1..Len(v) - 1 : v[i] < v[i + 1]

\* The values that come before a position of a list.
LEMMA ValuesBefore ==
  ASSUME NEW values, NEW m \in Nat
  PROVE  IsFiniteSet({values[j] : j \in 1..m})
<1>. DEFINE T == {values[j] : j \in 1..m}
            f == [j \in 1..m |-> values[j]]
<1>1. f \in Surjection(1..m, T)
  BY DEF Surjection
<1>2. IsFiniteSet(1..m)
  BY FS_Interval
<1>. HIDE DEF f, T
<1>3. IsFiniteSet(T)
  BY <1>1, <1>2, FS_Surjection
<1>. QED BY <1>3 DEF T

\* The values taken are those before the last one, fewer than the limit, and
\* the last.
LEMMA FirstValuesBounded ==
  ASSUME NEW values \in Seq(Int)
  PROVE  /\ FirstValues(values) \in SUBSET Int
         /\ IsFiniteSet(FirstValues(values))
         /\ Cardinality(FirstValues(values)) <= MaxItems
<1>. DEFINE S == FirstValues(values)
            Before(i) == {values[j] : j \in 1..i - 1}
            I == {i \in DOMAIN values : Cardinality(Before(i)) < MaxItems}
<1>1. /\ S \in SUBSET Int
      /\ \A v \in S : \E i \in I : v = values[i]
  <2>1. S = {values[i] : i \in I}
    BY DEF FirstValues
  <2>2. \A i \in I : values[i] \in Int
    OBVIOUS
  <2>. HIDE DEF S, I
  <2>. QED BY <2>1, <2>2
<1>2. MaxItems \in Nat /\ Len(values) \in Nat
  BY StoresAssumption
<1>3. CASE I = {}
  <2>1. S = {}
    BY <1>1, <1>3
  <2>. HIDE DEF S
  <2>2. IsFiniteSet(S) /\ Cardinality(S) <= MaxItems
    BY <1>2, <2>1, FS_EmptySet
  <2>. QED BY <1>1, <2>2 DEF S
<1>4. CASE I # {}
  <2>. DEFINE m == Max(I)
  <2>1. I \in SUBSET Nat /\ IsFiniteSet(I)
    <3>1. I \in SUBSET (1..Len(values))
      OBVIOUS
    <3>2. IsFiniteSet(1..Len(values))
      BY <1>2, FS_Interval
    <3>. HIDE DEF I
    <3>3. IsFiniteSet(I)
      BY <3>1, <3>2, FS_Subset
    <3>4. \A i \in 1..Len(values) : i \in Nat
      BY <1>2
    <3>. QED BY <3>1, <3>3, <3>4
  <2>2. m \in I /\ \A i \in I : i <= m
    <3>. HIDE DEF I
    <3>. QED BY <1>4, <2>1, GreatestIn
  <2>. HIDE DEF m
  <2>3. m \in 1..Len(values) /\ Cardinality(Before(m)) < MaxItems
    BY <2>2
  <2>4. S \in SUBSET (Before(m) \cup {values[m]})
    <3>1. ASSUME NEW v \in S PROVE v \in Before(m) \cup {values[m]}
      <4>1. PICK i \in I : v = values[i]
        BY <1>1
      <4>2. i \in 1..Len(values) /\ i <= m
        BY <2>2
      <4>3. i = m \/ i \in 1..m - 1
        BY <1>2, <2>3, <4>2
      <4>. QED BY <4>1, <4>3
    <3>. HIDE DEF S, Before
    <3>. QED BY <3>1
  <2>5. IsFiniteSet(Before(m))
    <3>1. m - 1 \in Nat
      BY <1>2, <2>3
    <3>. QED BY <3>1, ValuesBefore
  <2>. HIDE DEF Before, S, I
  <2>6. /\ IsFiniteSet(Before(m) \cup {values[m]})
        /\ Cardinality(Before(m) \cup {values[m]}) <= Cardinality(Before(m)) + 1
        /\ Cardinality(Before(m)) \in Nat
        /\ Cardinality(Before(m) \cup {values[m]}) \in Nat
    <3>1. Cardinality(Before(m)) \in Nat
      BY <2>5, FS_CardinalityType
    <3>2. /\ IsFiniteSet(Before(m) \cup {values[m]})
          /\ Cardinality(Before(m) \cup {values[m]}) =
               IF values[m] \in Before(m) THEN Cardinality(Before(m)) ELSE Cardinality(Before(m)) + 1
      BY <2>5, FS_AddElement
    <3>. QED BY <3>1, <3>2
  <2>7. /\ IsFiniteSet(S) /\ Cardinality(S) \in Nat
        /\ Cardinality(S) <= Cardinality(Before(m) \cup {values[m]})
    BY <2>4, <2>6, FS_Subset, FS_CardinalityType
  <2>8. Cardinality(S) <= MaxItems
    BY <1>2, <2>3, <2>6, <2>7
  <2>. QED BY <1>1, <2>7, <2>8 DEF S
<1>. QED BY <1>3, <1>4

\* Each value of a set has its rank, so each rank has its value.
LEMMA AscendingSorts ==
  ASSUME NEW S \in SUBSET Int, IsFiniteSet(S)
  PROVE  LET n == Cardinality(S) IN
         /\ n \in Nat /\ Ascending(S) \in [1..n -> Int]
         /\ \A i \in 1..n - 1 : Ascending(S)[i] < Ascending(S)[i + 1]
<1>. DEFINE n == Cardinality(S)
            UpTo(v) == {w \in S : w <= v}
            rank == [v \in S |-> Cardinality(UpTo(v))]
            a == Ascending(S)
<1>1. n \in Nat
  BY FS_CardinalityType
<1>2. ASSUME NEW v \in S
      PROVE  IsFiniteSet(UpTo(v)) /\ Cardinality(UpTo(v)) \in 1..n
  <2>1. UpTo(v) \in SUBSET S /\ v \in UpTo(v)
    OBVIOUS
  <2>. HIDE DEF UpTo
  <2>2. /\ IsFiniteSet(UpTo(v)) /\ Cardinality(UpTo(v)) <= n /\ Cardinality(UpTo(v)) \in Nat
    BY <2>1, FS_Subset, FS_CardinalityType
  <2>3. Cardinality(UpTo(v)) # 0
    BY <2>1, <2>2, FS_EmptySet
  <2>. HIDE DEF n
  <2>. QED BY <1>1, <2>2, <2>3
<1>3. ASSUME NEW v \in S, NEW w \in S, v < w
      PROVE  Cardinality(UpTo(v)) < Cardinality(UpTo(w))
  <2>1. v \in Int /\ w \in Int /\ \A x \in S : x \in Int
    OBVIOUS
  <2>2. UpTo(v) \in SUBSET UpTo(w)
    <3>1. \A x \in S : x <= v => x <= w
      BY <1>3, <2>1
    <3>. QED BY <3>1
  <2>3. w <= w /\ ~(w <= v)
    BY <1>3, <2>1
  <2>4. w \in UpTo(w) /\ w \notin UpTo(v)
    BY <2>3
  <2>. HIDE DEF UpTo
  <2>5. /\ Cardinality(UpTo(v)) <= Cardinality(UpTo(w))
        /\ Cardinality(UpTo(v)) # Cardinality(UpTo(w))
    BY <1>2, <2>2, <2>4, FS_Subset
  <2>6. Cardinality(UpTo(v)) \in Int /\ Cardinality(UpTo(w)) \in Int
    BY <1>1, <1>2
  <2>. QED BY <2>5, <2>6
<1>4. rank \in Injection(S, 1..n)
  <2>1. rank \in [S -> 1..n] /\ \A v \in S : rank[v] = Cardinality(UpTo(v))
    BY <1>2
  <2>2. ASSUME NEW v \in S, NEW w \in S, rank[v] = rank[w] PROVE v = w
    <3>1. v \in Int /\ w \in Int
      OBVIOUS
    <3>2. rank[v] \in Int
      BY <1>1, <2>1
    <3>. HIDE DEF rank, UpTo
    <3>3. ~(v < w) /\ ~(w < v)
      BY <1>3, <2>1, <2>2, <3>2
    <3>. QED BY <3>1, <3>3
  <2>. HIDE DEF rank
  <2>. QED BY <2>1, <2>2 DEF Injection, IsInjective
<1>5. rank \in Surjection(S, 1..n)
  <2>1. IsFiniteSet(1..n) /\ Cardinality(1..n) = n
    BY <1>1, FS_Interval
  <2>. HIDE DEF rank
  <2>. QED BY <1>4, <2>1, FS_Injection
<1>6. ASSUME NEW i \in 1..n PROVE a[i] \in S /\ Cardinality(UpTo(a[i])) = i
  <2>1. \E v \in S : Cardinality(UpTo(v)) = i
    BY <1>5 DEF Surjection
  <2>2. a[i] = CHOOSE v \in S : Cardinality(UpTo(v)) = i
    BY DEF Ascending
  <2>. HIDE DEF UpTo, a
  <2>. QED BY <2>1, <2>2
<1>7. a \in [1..n -> Int]
  <2>1. a = [i \in 1..n |-> CHOOSE v \in S : Cardinality(UpTo(v)) = i]
    BY DEF Ascending
  <2>2. \A i \in 1..n : a[i] \in Int
    BY <1>6
  <2>. HIDE DEF a, UpTo
  <2>. QED BY <2>1, <2>2
<1>8. ASSUME NEW i \in 1..n - 1 PROVE a[i] < a[i + 1]
  <2>1. i \in 1..n /\ i + 1 \in 1..n /\ i \in Int
    BY <1>1
  <2>2. a[i] \in Int /\ a[i + 1] \in Int /\ a[i] \in S /\ a[i + 1] \in S
    BY <1>6, <2>1
  <2>3. Cardinality(UpTo(a[i])) = i /\ Cardinality(UpTo(a[i + 1])) = i + 1
    BY <1>6, <2>1
  <2>. HIDE DEF a, UpTo
  <2>4. ~(a[i + 1] < a[i]) /\ a[i] # a[i + 1]
    <3>1. ~(i + 1 < i) /\ i # i + 1
      BY <2>1
    <3>. QED BY <1>3, <2>2, <2>3, <3>1
  <2>. QED BY <2>2, <2>4
<1>. QED BY <1>1, <1>7, <1>8

LEMMA NormalizedSorted ==
  ASSUME NEW values \in Seq(Int)
  PROVE  Sorted(Normalized(values))
<1>. DEFINE S == FirstValues(values)
            n == Cardinality(S)
            a == Ascending(S)
<1>1. S \in SUBSET Int /\ IsFiniteSet(S) /\ n <= MaxItems
  BY FirstValuesBounded
<1>. HIDE DEF S
<1>2. n \in Nat /\ a \in [1..n -> Int] /\ \A i \in 1..n - 1 : a[i] < a[i + 1]
  BY <1>1, AscendingSorts
<1>. HIDE DEF n, a
<1>3. a \in Seq(Int) /\ Len(a) = n
  BY <1>2
<1>4. Sorted(a)
  BY <1>1, <1>2, <1>3 DEF Sorted
<1>. QED BY <1>4 DEF a, S, Normalized

-----------------------------------------------------------------------------
(* The filter lists.                                                       *)

\* What a list holds, as the job that resolves it sees it.
Held(l) == IF l \in DOMAIN filters.items THEN filters.items[l] ELSE <<-1>>

\* The stored lists.
ListsInv ==
  LET items == filters.items
      stored == filters.saved IN
  /\ IsFiniteSet(DOMAIN items) /\ Cardinality(DOMAIN items) <= MaxFilters
  /\ \A id \in DOMAIN items : Sorted(items[id])
  /\ IsFiniteSet(DOMAIN stored)
  /\ \A id \in DOMAIN stored : Sorted(stored[id])

\* While a job resolves its scopes, what a list holds now is among what it
\* held since the job began; what was copied is among that for ever.
CopiesInv ==
  /\ filters.resolving \in Seq(Lists)
  /\ filters.resolving # <<>> => \A l \in Lists : Held(l) \in filters.spans[l]
  /\ DOMAIN filters.copied \subseteq Lists
  /\ \A id \in DOMAIN filters.copied : filters.copied[id] \in filters.spans[id]

FilterInv ==
  /\ filters = [items |-> filters.items, puts |-> filters.puts, waiting |-> filters.waiting,
                reply |-> filters.reply, resolving |-> filters.resolving,
                copied |-> filters.copied, saved |-> filters.saved, spans |-> filters.spans]
  /\ ListsInv
  /\ CopiesInv

LEMMA FiltersStart == FiltersInit => FilterInv
<1>. SUFFICES ASSUME FiltersInit PROVE FilterInv
  OBVIOUS
<1>1. /\ filters.items = <<>> /\ filters.saved = <<>> /\ filters.copied = <<>>
      /\ filters.resolving = <<>>
      /\ filters = [items |-> filters.items, puts |-> filters.puts, waiting |-> filters.waiting,
                    reply |-> filters.reply, resolving |-> filters.resolving,
                    copied |-> filters.copied, saved |-> filters.saved, spans |-> filters.spans]
  BY DEF FiltersInit
<1>2. DOMAIN filters.items = {} /\ DOMAIN filters.saved = {} /\ DOMAIN filters.copied = {}
  BY <1>1
<1>3. ListsInv
  BY <1>2, FS_EmptySet, StoresAssumption DEF ListsInv
<1>4. CopiesInv
  BY <1>1, <1>2 DEF CopiesInv
<1>. QED BY <1>1, <1>3, <1>4 DEF FilterInv

LEMMA FiltersTell == FilterInv => FiltersStand
<1>. SUFFICES ASSUME FilterInv PROVE FiltersStand
  OBVIOUS
<1>1. Cardinality(DOMAIN filters.items) <= MaxFilters
  BY DEF FilterInv, ListsInv
<1>2. \A id \in DOMAIN filters.items : Sorted(filters.items[id])
  BY DEF FilterInv, ListsInv
<1>3. \A id \in DOMAIN filters.copied : filters.copied[id] \in filters.spans[id]
  BY DEF FilterInv, CopiesInv
<1>. QED BY <1>1, <1>2, <1>3 DEF FiltersStand, Sorted

\* A list that is put, or deleted, is noted for the job that resolves.
LEMMA NotedKeeps ==
  ASSUME FilterInv, NEW items, NEW puts, NEW due,
         IsFiniteSet(DOMAIN items), Cardinality(DOMAIN items) <= MaxFilters,
         \A id \in DOMAIN items : Sorted(items[id]),
         filters' = Noted([filters EXCEPT !.items = items, !.puts = puts, !.waiting = due])
  PROVE  FilterInv'
<1>. DEFINE f == [filters EXCEPT !.items = items, !.puts = puts, !.waiting = due]
            held(l) == IF l \in DOMAIN items THEN items[l] ELSE <<-1>>
            spans == IF filters.resolving = <<>> THEN filters.spans
                     ELSE [l \in Lists |-> filters.spans[l] \cup {held(l)}]
<1>1. f = [items |-> items, puts |-> puts, waiting |-> due, reply |-> filters.reply,
           resolving |-> filters.resolving, copied |-> filters.copied,
           saved |-> filters.saved, spans |-> filters.spans]
  <2>1. filters = [items |-> filters.items, puts |-> filters.puts, waiting |-> filters.waiting,
                   reply |-> filters.reply, resolving |-> filters.resolving,
                   copied |-> filters.copied, saved |-> filters.saved, spans |-> filters.spans]
    BY DEF FilterInv
  <2>2. PICK g : g = f
    OBVIOUS
  <2>3. g = [filters EXCEPT !.items = items, !.puts = puts, !.waiting = due]
    BY <2>2
  <2>4. g = [items |-> items, puts |-> puts, waiting |-> due, reply |-> filters.reply,
             resolving |-> filters.resolving, copied |-> filters.copied,
             saved |-> filters.saved, spans |-> filters.spans]
    BY ONLY <2>1, <2>3
  <2>. QED BY <2>2, <2>4
<1>2. filters' = [items |-> items, puts |-> puts, waiting |-> due, reply |-> filters.reply,
                  resolving |-> filters.resolving, copied |-> filters.copied,
                  saved |-> filters.saved, spans |-> spans]
  <2>1. filters' = IF f.resolving = <<>> THEN f
                   ELSE [f EXCEPT !.spans = [l \in Lists |->
                           @[l] \cup {IF l \in DOMAIN f.items THEN f.items[l] ELSE <<-1>>}]]
    BY DEF Noted
  <2>. HIDE DEF f
  <2>. QED BY ONLY <1>1, <2>1
<1>3. /\ filters'.items = items /\ filters'.saved = filters.saved
      /\ filters'.resolving = filters.resolving /\ filters'.copied = filters.copied
      /\ filters'.spans = spans
      /\ filters' = [items |-> filters'.items, puts |-> filters'.puts,
                     waiting |-> filters'.waiting, reply |-> filters'.reply,
                     resolving |-> filters'.resolving, copied |-> filters'.copied,
                     saved |-> filters'.saved, spans |-> filters'.spans]
  BY ONLY <1>2
<1>4. \A l \in Lists : filters.spans[l] \subseteq spans[l]
                       /\ (filters.resolving # <<>> => held(l) \in spans[l])
  OBVIOUS
<1>5. \A l : held(l) = Held(l)'
  BY <1>3 DEF Held
<1>. HIDE DEF spans, held
<1>6. ListsInv'
  <2>1. IsFiniteSet(DOMAIN filters.saved) /\ \A id \in DOMAIN filters.saved : Sorted(filters.saved[id])
    BY DEF FilterInv, ListsInv
  <2>. QED BY <1>3, <2>1 DEF ListsInv, Sorted
<1>7. CopiesInv'
  <2>1. /\ filters.resolving \in Seq(Lists) /\ DOMAIN filters.copied \subseteq Lists
        /\ \A id \in DOMAIN filters.copied : filters.copied[id] \in filters.spans[id]
    BY DEF FilterInv, CopiesInv
  <2>2. \A id \in DOMAIN filters.copied : filters.copied[id] \in spans[id]
    BY <1>4, <2>1
  <2>. QED BY <1>3, <1>4, <1>5, <2>1, <2>2 DEF CopiesInv
<1>. QED BY <1>3, <1>6, <1>7 DEF FilterInv

LEMMA PutKeeps ==
  ASSUME FilterInv, NEW id \in Lists, NEW values \in Bodies, PutFilter(id, values)
  PROVE  FilterInv'
<1>. DEFINE items == filters.items
            full == id \notin DOMAIN items /\ Cardinality(DOMAIN items) >= MaxFilters
            new == Normalized(values)
            all == [x \in DOMAIN items \cup {id} |-> IF x = id THEN new ELSE items[x]]
            next == IF full THEN items ELSE all
            due == IF full THEN filters.waiting ELSE filters.waiting \cup {id}
<1>1. IsFiniteSet(DOMAIN items) /\ Cardinality(DOMAIN items) <= MaxFilters
      /\ \A x \in DOMAIN items : Sorted(items[x])
  BY DEF FilterInv, ListsInv
<1>2. Sorted(new)
  <2>1. PICK n \in 0..MaxItems + 1 : values \in [1..n -> Items]
    BY DEF Bodies
  <2>2. n \in Nat /\ Items \subseteq Int
    BY StoresAssumption
  <2>3. values \in [1..n -> Int]
    BY <2>1, <2>2
  <2>4. values \in Seq(Int)
    <3>. HIDE DEF new
    <3>. QED BY ONLY <2>2, <2>3
  <2>. QED BY <2>4, NormalizedSorted
<1>. HIDE DEF new
<1>3. IsFiniteSet(DOMAIN next) /\ Cardinality(DOMAIN next) <= MaxFilters
  <2>1. CASE full
    BY <1>1, <2>1
  <2>2. CASE ~full
    <3>1. DOMAIN next = DOMAIN items \cup {id}
      BY <2>2
    <3>2. /\ IsFiniteSet(DOMAIN items \cup {id}) /\ Cardinality(DOMAIN items) \in Nat
          /\ Cardinality(DOMAIN items \cup {id}) =
               IF id \in DOMAIN items THEN Cardinality(DOMAIN items) ELSE Cardinality(DOMAIN items) + 1
      BY <1>1, FS_AddElement, FS_CardinalityType
    <3>3. MaxFilters \in Nat
      BY StoresAssumption
    <3>4. Cardinality(DOMAIN items \cup {id}) <= MaxFilters
      BY <1>1, <2>2, <3>2, <3>3
    <3>. QED BY <3>1, <3>2, <3>4
  <2>. QED BY <2>1, <2>2
<1>4. \A x \in DOMAIN next : Sorted(next[x])
  BY <1>1, <1>2
<1>5. filters' = Noted([filters EXCEPT !.puts = @ + 1, !.items = next, !.waiting = due])
  <2>1. Stored(items, id, new) = all
    BY DEF Stored
  <2>. QED BY <2>1 DEF PutFilter, new
<1>6. [filters EXCEPT !.puts = @ + 1, !.items = next, !.waiting = due]
        = [filters EXCEPT !.items = next, !.puts = filters.puts + 1, !.waiting = due]
  <2>. HIDE DEF next, due
  <2>. QED BY DEF FilterInv
<1>. HIDE DEF next, due
<1>. DEFINE puts == filters.puts + 1
<1>7. filters' = Noted([filters EXCEPT !.items = next, !.puts = puts, !.waiting = due])
  BY <1>5, <1>6
<1>. HIDE DEF puts
<1>. QED BY <1>3, <1>4, <1>7, NotedKeeps

LEMMA DeleteKeeps ==
  ASSUME FilterInv, NEW id \in Lists, DeleteFilter(id)
  PROVE  FilterInv'
<1>. DEFINE items == filters.items
            next == [k \in DOMAIN items \ {id} |-> items[k]]
<1>1. IsFiniteSet(DOMAIN items) /\ Cardinality(DOMAIN items) <= MaxFilters
      /\ \A x \in DOMAIN items : Sorted(items[x])
  BY DEF FilterInv, ListsInv
<1>2. IsFiniteSet(DOMAIN next) /\ Cardinality(DOMAIN next) <= MaxFilters
  <2>1. DOMAIN next \in SUBSET DOMAIN items
    OBVIOUS
  <2>2. /\ IsFiniteSet(DOMAIN next) /\ Cardinality(DOMAIN next) <= Cardinality(DOMAIN items)
        /\ Cardinality(DOMAIN next) \in Nat /\ Cardinality(DOMAIN items) \in Nat
    BY <1>1, <2>1, FS_Subset, FS_CardinalityType
  <2>3. MaxFilters \in Nat
    BY StoresAssumption
  <2>. HIDE DEF next
  <2>. QED BY <1>1, <2>2, <2>3
<1>3. \A x \in DOMAIN next : Sorted(next[x])
  BY <1>1
<1>4. filters' = Noted([filters EXCEPT !.items = next])
  BY DEF DeleteFilter, Dropped
<1>. DEFINE puts == filters.puts
            due == filters.waiting
<1>5. [filters EXCEPT !.items = next]
        = [filters EXCEPT !.items = next, !.puts = puts, !.waiting = due]
  <2>. HIDE DEF next
  <2>. QED BY DEF FilterInv
<1>. HIDE DEF next, puts, due
<1>6. filters' = Noted([filters EXCEPT !.items = next, !.puts = puts, !.waiting = due])
  BY <1>4, <1>5
<1>. QED BY <1>2, <1>3, <1>6, NotedKeeps

LEMMA ResolveKeeps ==
  ASSUME FilterInv, StartResolving \/ ResolveScope
  PROVE  FilterInv'
<1>. DEFINE items == filters.items
<1>0. filters = [items |-> items, puts |-> filters.puts, waiting |-> filters.waiting,
                 reply |-> filters.reply, resolving |-> filters.resolving,
                 copied |-> filters.copied, saved |-> filters.saved, spans |-> filters.spans]
  BY DEF FilterInv
<1>1. CASE StartResolving
  <2>. DEFINE spans == [l \in Lists |-> {} \cup {Held(l)}]
              none == [l \in Lists |-> {}]
              f == [filters EXCEPT !.resolving = Scopes, !.spans = none]
  <2>1. f = [items |-> items, puts |-> filters.puts, waiting |-> filters.waiting,
             reply |-> filters.reply, resolving |-> Scopes, copied |-> filters.copied,
             saved |-> filters.saved, spans |-> none]
    <3>. HIDE DEF none
    <3>1. PICK g : g = f
      OBVIOUS
    <3>2. g = [filters EXCEPT !.resolving = Scopes, !.spans = none]
      BY <3>1
    <3>3. g = [items |-> items, puts |-> filters.puts, waiting |-> filters.waiting,
               reply |-> filters.reply, resolving |-> Scopes, copied |-> filters.copied,
               saved |-> filters.saved, spans |-> none]
      BY ONLY <1>0, <3>2
    <3>. QED BY <3>1, <3>3
  <2>2. filters' = [items |-> items, puts |-> filters.puts, waiting |-> filters.waiting,
                    reply |-> filters.reply, resolving |-> Scopes, copied |-> filters.copied,
                    saved |-> filters.saved, spans |-> spans]
    <3>1. /\ Scopes # <<>>
          /\ filters' = IF f.resolving = <<>> THEN f
                        ELSE [f EXCEPT !.spans = [l \in Lists |->
                                @[l] \cup {IF l \in DOMAIN f.items THEN f.items[l] ELSE <<-1>>}]]
      BY <1>1 DEF StartResolving, Noted
    <3>. HIDE DEF f
    <3>2. filters' = [f EXCEPT !.spans = [l \in Lists |->
                        f.spans[l] \cup {IF l \in DOMAIN f.items THEN f.items[l] ELSE <<-1>>}]]
      BY <2>1, <3>1
    <3>3. [l \in Lists |-> f.spans[l] \cup {IF l \in DOMAIN f.items THEN f.items[l] ELSE <<-1>>}]
            = spans
      BY <2>1 DEF Held
    <3>. HIDE DEF spans
    <3>. QED BY ONLY <2>1, <3>2, <3>3
  <2>3. \A l \in Lists : Held(l) \in spans[l]
    OBVIOUS
  <2>. HIDE DEF spans
  <2>4. filters.copied = <<>>
    BY <1>1 DEF StartResolving
  <2>5. DOMAIN filters.copied = {}
    BY <2>4
  <2>6. /\ filters'.items = items /\ filters'.saved = filters.saved
        /\ filters'.resolving = Scopes /\ filters'.copied = filters.copied
        /\ filters'.spans = spans
        /\ filters' = [items |-> filters'.items, puts |-> filters'.puts,
                       waiting |-> filters'.waiting, reply |-> filters'.reply,
                       resolving |-> filters'.resolving, copied |-> filters'.copied,
                       saved |-> filters'.saved, spans |-> filters'.spans]
    BY ONLY <2>2
  <2>7. \A l : Held(l)' = Held(l)
    BY <2>6 DEF Held
  <2>8. CopiesInv'
    BY <2>3, <2>5, <2>6, <2>7, StoresAssumption DEF CopiesInv
  <2>9. ListsInv'
    BY <2>6 DEF FilterInv, ListsInv, Sorted
  <2>. QED BY <2>6, <2>8, <2>9 DEF FilterInv
<1>2. CASE ResolveScope
  <2>. DEFINE id == Head(filters.resolving)
              copied == [x \in DOMAIN filters.copied \cup {id} |->
                           IF x = id THEN Held(id) ELSE filters.copied[x]]
  <2>1. /\ filters.resolving # <<>>
        /\ filters' = [filters EXCEPT !.resolving = Tail(@), !.copied = copied]
    BY <1>2 DEF ResolveScope, Stored, Held
  <2>2. /\ filters.resolving \in Seq(Lists) /\ DOMAIN filters.copied \subseteq Lists
        /\ \A l \in Lists : Held(l) \in filters.spans[l]
        /\ \A x \in DOMAIN filters.copied : filters.copied[x] \in filters.spans[x]
    BY <2>1 DEF FilterInv, CopiesInv
  <2>3. id \in Lists /\ Tail(filters.resolving) \in Seq(Lists)
    BY <2>1, <2>2
  <2>4. DOMAIN copied \subseteq Lists /\ \A x \in DOMAIN copied : copied[x] \in filters.spans[x]
    <3>. HIDE DEF id
    <3>. QED BY <2>2, <2>3
  <2>. HIDE DEF copied
  <2>5. filters' = [items |-> items, puts |-> filters.puts, waiting |-> filters.waiting,
                    reply |-> filters.reply, resolving |-> Tail(filters.resolving),
                    copied |-> copied, saved |-> filters.saved, spans |-> filters.spans]
    BY ONLY <1>0, <2>1
  <2>6. /\ filters'.items = items /\ filters'.saved = filters.saved
        /\ filters'.resolving = Tail(filters.resolving) /\ filters'.copied = copied
        /\ filters'.spans = filters.spans
        /\ filters' = [items |-> filters'.items, puts |-> filters'.puts,
                       waiting |-> filters'.waiting, reply |-> filters'.reply,
                       resolving |-> filters'.resolving, copied |-> filters'.copied,
                       saved |-> filters'.saved, spans |-> filters'.spans]
    BY ONLY <2>5
  <2>7. \A l : Held(l)' = Held(l)
    BY <2>6 DEF Held
  <2>8. CopiesInv'
    BY <2>2, <2>3, <2>4, <2>6, <2>7 DEF CopiesInv
  <2>9. ListsInv'
    BY <2>6 DEF FilterInv, ListsInv, Sorted
  <2>. QED BY <2>6, <2>8, <2>9 DEF FilterInv
<1>. QED BY <1>1, <1>2

LEMMA OthersKeep ==
  ASSUME FilterInv, (\E id \in Lists : AnswerPut(id)) \/ SaveFilters \/ LoadFilters
  PROVE  FilterInv'
<1>. DEFINE items == filters.items
<1>0. filters = [items |-> items, puts |-> filters.puts, waiting |-> filters.waiting,
                 reply |-> filters.reply, resolving |-> filters.resolving,
                 copied |-> filters.copied, saved |-> filters.saved, spans |-> filters.spans]
  BY DEF FilterInv
<1>1. ASSUME NEW next, NEW stored, NEW due, NEW reply,
             filters' = [items |-> next, puts |-> filters.puts, waiting |-> due,
                         reply |-> reply, resolving |-> filters.resolving,
                         copied |-> filters.copied, saved |-> stored, spans |-> filters.spans],
             IsFiniteSet(DOMAIN next), Cardinality(DOMAIN next) <= MaxFilters,
             \A id \in DOMAIN next : Sorted(next[id]),
             IsFiniteSet(DOMAIN stored), \A id \in DOMAIN stored : Sorted(stored[id]),
             next = items \/ filters.resolving = <<>>
      PROVE  FilterInv'
  <2>1. /\ filters'.items = next /\ filters'.saved = stored
        /\ filters'.resolving = filters.resolving /\ filters'.copied = filters.copied
        /\ filters'.spans = filters.spans
        /\ filters' = [items |-> filters'.items, puts |-> filters'.puts,
                       waiting |-> filters'.waiting, reply |-> filters'.reply,
                       resolving |-> filters'.resolving, copied |-> filters'.copied,
                       saved |-> filters'.saved, spans |-> filters'.spans]
    BY ONLY <1>1
  <2>2. next = items => \A l : Held(l)' = Held(l)
    BY <2>1 DEF Held
  <2>3. CopiesInv'
    BY <1>1, <2>1, <2>2 DEF FilterInv, CopiesInv
  <2>4. ListsInv'
    BY <1>1, <2>1 DEF ListsInv, Sorted
  <2>. QED BY <2>1, <2>3, <2>4 DEF FilterInv
<1>2. /\ IsFiniteSet(DOMAIN items) /\ Cardinality(DOMAIN items) <= MaxFilters
      /\ \A id \in DOMAIN items : Sorted(items[id])
      /\ IsFiniteSet(DOMAIN filters.saved)
      /\ \A id \in DOMAIN filters.saved : Sorted(filters.saved[id])
  BY DEF FilterInv, ListsInv
<1>3. ASSUME NEW id \in Lists, AnswerPut(id) PROVE FilterInv'
  <2>. DEFINE due == filters.waiting \ {id}
              reply == IF id \in DOMAIN items THEN items[id] ELSE <<>>
  <2>1. filters' = [filters EXCEPT !.waiting = due, !.reply = reply]
    BY <1>3 DEF AnswerPut
  <2>. HIDE DEF due, reply
  <2>2. filters' = [items |-> items, puts |-> filters.puts, waiting |-> due,
                    reply |-> reply, resolving |-> filters.resolving,
                    copied |-> filters.copied, saved |-> filters.saved, spans |-> filters.spans]
    BY ONLY <1>0, <2>1
  <2>. QED BY <1>1, <1>2, <2>2
<1>4. CASE SaveFilters
  <2>1. filters' = [filters EXCEPT !.saved = items]
    BY <1>4 DEF SaveFilters
  <2>2. filters' = [items |-> items, puts |-> filters.puts, waiting |-> filters.waiting,
                    reply |-> filters.reply, resolving |-> filters.resolving,
                    copied |-> filters.copied, saved |-> items, spans |-> filters.spans]
    BY ONLY <1>0, <2>1
  <2>. QED BY <1>1, <1>2, <2>2
<1>5. CASE LoadFilters
  <2>1. PICK kept \in SUBSET DOMAIN filters.saved :
          /\ Cardinality(kept) = Min({MaxFilters, Cardinality(DOMAIN filters.saved)})
          /\ filters' = [filters EXCEPT !.items = [id \in kept |-> Normalized(filters.saved[id])]]
    BY <1>5 DEF LoadFilters
  <2>. DEFINE next == [id \in kept |-> Normalized(filters.saved[id])]
  <2>2. filters.resolving = <<>>
    BY <1>5 DEF LoadFilters
  <2>3. DOMAIN next = kept /\ \A id \in DOMAIN next : Sorted(next[id])
    <3>1. \A id \in kept : filters.saved[id] \in Seq(Int)
      BY <1>2 DEF Sorted
    <3>2. \A id \in kept : Sorted(Normalized(filters.saved[id]))
      BY <3>1, NormalizedSorted
    <3>. QED BY <3>2
  <2>4. filters' = [filters EXCEPT !.items = next]
    BY <2>1
  <2>. HIDE DEF next
  <2>5. IsFiniteSet(DOMAIN next) /\ Cardinality(DOMAIN next) <= MaxFilters
    <3>1. IsFiniteSet(kept)
      BY <1>2, FS_Subset
    <3>2. MaxFilters \in Nat /\ Cardinality(DOMAIN filters.saved) \in Nat
      BY <1>2, FS_CardinalityType, StoresAssumption
    <3>3. Cardinality(kept) <= MaxFilters
      BY <2>1, <3>2, MinOfTwo
    <3>. QED BY <2>3, <3>1, <3>3
  <2>6. filters' = [items |-> next, puts |-> filters.puts, waiting |-> filters.waiting,
                    reply |-> filters.reply, resolving |-> filters.resolving,
                    copied |-> filters.copied, saved |-> filters.saved, spans |-> filters.spans]
    BY ONLY <1>0, <2>4
  <2>. QED BY <1>1, <1>2, <2>2, <2>3, <2>5, <2>6
<1>. QED BY <1>3, <1>4, <1>5

LEMMA FiltersKeep == FilterInv /\ [FiltersNext]_filterVars => FilterInv'
<1>. SUFFICES ASSUME FilterInv, [FiltersNext]_filterVars PROVE FilterInv'
  OBVIOUS
<1>1. CASE UNCHANGED filterVars
  BY <1>1 DEF filterVars, FilterInv, ListsInv, CopiesInv, Sorted, Held
<1>2. CASE FiltersNext
  BY <1>2, PutKeeps, DeleteKeeps, ResolveKeeps, OthersKeep DEF FiltersNext
<1>. QED BY <1>1, <1>2

\* A forecast that was answered 201 is there until it expires, filter lists
\* stay within their bounds and what a job copied is what the list held, and
\* no more requests pass than the burst and the rate allow, in any order of
\* calls (put, list, resolveFilters, snapshot, load, allow).
THEOREM ResourcesCorrect == ServicesSpec => []ResourcesKept
<1>. DEFINE Inv == ForecastInv /\ FilterInv /\ LimiterInv
<1>1. ServicesInit => Inv
  BY ForecastsStart, FiltersStart DEF ServicesInit, LimiterInit, LimiterInv
<1>2. Inv /\ [ServicesNext]_allVars => Inv'
  BY Steps, ForecastsKeep, FiltersKeep, LimiterKeeps
<1>3. Inv => ResourcesKept
  BY ForecastsTell, FiltersTell, LimiterTells DEF ResourcesKept
<1>. QED BY <1>1, <1>2, <1>3, PTL DEF ServicesSpec, allVars

-----------------------------------------------------------------------------
(* The objectives: totals of samples, reports of them, and what a series   *)
(* keeps.                                                                  *)

LEMMA GoodIs ==
  ASSUME NEW S, IsFiniteSet(S), NEW f, \A x \in S : f[x] = x.good, NEW g, IsSum(g, S, f)
  PROVE  \A s \in SUBSET S : Good(s) = g[s]
<1>. SUFFICES ASSUME NEW s \in SUBSET S PROVE Good(s) = g[s]
  OBVIOUS
<1>. DEFINE h == [u \in SUBSET s |-> g[u]]
<1>1. IsSum(h, s, f) /\ h[s] = g[s]
  BY SumOfPart
<1>. HIDE DEF h
<1>2. \A u \in SUBSET s : u # {} => f[AnyOf(u)] = AnyOf(u).good
  BY PickIs
<1>3. \A k : IsSum(k, s, f)
              <=> k = [u \in SUBSET s |-> IF u = {} THEN 0 ELSE AnyOf(u).good + k[u \ {AnyOf(u)}]]
  <2>. SUFFICES ASSUME NEW k
                PROVE  [u \in SUBSET s |-> IF u = {} THEN 0 ELSE f[AnyOf(u)] + k[u \ {AnyOf(u)}]]
                       = [u \in SUBSET s |-> IF u = {} THEN 0 ELSE AnyOf(u).good + k[u \ {AnyOf(u)}]]
    BY DEF IsSum
  <2>. QED BY <1>2
<1>4. \A k : IsSum(k, s, f) => k = h
  BY <1>1, SumUnique, FS_Subset
<1>5. Good(s) = (CHOOSE k : k = [u \in SUBSET s |->
                    IF u = {} THEN 0 ELSE AnyOf(u).good + k[u \ {AnyOf(u)}]])[s]
  BY DEF Good, AnyOf, MapThenSumSet, MapThenFoldSet
<1>. HIDE DEF IsSum
<1>6. (CHOOSE k : k = [u \in SUBSET s |->
                    IF u = {} THEN 0 ELSE AnyOf(u).good + k[u \ {AnyOf(u)}]]) = h
  BY ONLY <1>1, <1>3, <1>4
<1>. QED BY <1>1, <1>5, <1>6
LEMMA TotalIs ==
  ASSUME NEW S, IsFiniteSet(S), NEW f, \A x \in S : f[x] = x.total, NEW g, IsSum(g, S, f)
  PROVE  \A s \in SUBSET S : Total(s) = g[s]
<1>. SUFFICES ASSUME NEW s \in SUBSET S PROVE Total(s) = g[s]
  OBVIOUS
<1>. DEFINE h == [u \in SUBSET s |-> g[u]]
<1>1. IsSum(h, s, f) /\ h[s] = g[s]
  BY SumOfPart
<1>. HIDE DEF h
<1>2. \A u \in SUBSET s : u # {} => f[AnyOf(u)] = AnyOf(u).total
  BY PickIs
<1>3. \A k : IsSum(k, s, f)
              <=> k = [u \in SUBSET s |-> IF u = {} THEN 0 ELSE AnyOf(u).total + k[u \ {AnyOf(u)}]]
  <2>. SUFFICES ASSUME NEW k
                PROVE  [u \in SUBSET s |-> IF u = {} THEN 0 ELSE f[AnyOf(u)] + k[u \ {AnyOf(u)}]]
                       = [u \in SUBSET s |-> IF u = {} THEN 0 ELSE AnyOf(u).total + k[u \ {AnyOf(u)}]]
    BY DEF IsSum
  <2>. QED BY <1>2
<1>4. \A k : IsSum(k, s, f) => k = h
  BY <1>1, SumUnique, FS_Subset
<1>5. Total(s) = (CHOOSE k : k = [u \in SUBSET s |->
                    IF u = {} THEN 0 ELSE AnyOf(u).total + k[u \ {AnyOf(u)}]])[s]
  BY DEF Total, AnyOf, MapThenSumSet, MapThenFoldSet
<1>. HIDE DEF IsSum
<1>6. (CHOOSE k : k = [u \in SUBSET s |->
                    IF u = {} THEN 0 ELSE AnyOf(u).total + k[u \ {AnyOf(u)}]]) = h
  BY ONLY <1>1, <1>3, <1>4
<1>. QED BY <1>1, <1>5, <1>6

Sample == [id : Nat, time : Nat, good : 0..1, total : {1}]

LEMMA SumWorks ==
  ASSUME NEW S, IsFiniteSet(S), NEW f \in [S -> Nat]
  PROVE  \E g : /\ IsSum(g, S, f)
                /\ \A s \in SUBSET S : g[s] \in Nat
                /\ \A x \in S : g[S] = f[x] + g[S \ {x}]
<1>1. PICK g : IsSum(g, S, f)
  BY SumExists
<1>2. \A x \in S : f[x] \in Int
  OBVIOUS
<1>. HIDE DEF IsSum
<1>3. \A s \in SUBSET S : g[s] \in Nat
  BY <1>1, SumNatural
<1>4. \A x \in S : g[S] = f[x] + g[S \ {x}]
  BY <1>1, <1>2, SumTakes
<1>. QED BY <1>1, <1>3, <1>4

\* What the totals of some samples owe to each of them.
LEMMA TotalsTake ==
  ASSUME NEW S \in SUBSET Sample, IsFiniteSet(S)
  PROVE  /\ Good(S) \in Nat /\ Total(S) \in Nat
         /\ \A x \in S : /\ Good(S \ {x}) \in Nat /\ Total(S \ {x}) \in Nat
                         /\ Good(S) = x.good + Good(S \ {x})
                         /\ Total(S) = x.total + Total(S \ {x})
<1>. DEFINE f == [x \in S |-> x.good]
            h == [x \in S |-> x.total]
<1>1. f \in [S -> Nat] /\ h \in [S -> Nat]
  BY DEF Sample
<1>2. \A x \in S : f[x] = x.good /\ h[x] = x.total
  OBVIOUS
<1>. HIDE DEF f, h, IsSum
<1>3. PICK g : /\ IsSum(g, S, f)
               /\ \A s \in SUBSET S : g[s] \in Nat
               /\ \A x \in S : g[S] = f[x] + g[S \ {x}]
  BY <1>1, SumWorks
<1>4. PICK k : /\ IsSum(k, S, h)
               /\ \A s \in SUBSET S : k[s] \in Nat
               /\ \A x \in S : k[S] = h[x] + k[S \ {x}]
  BY <1>1, SumWorks
<1>5. \A s \in SUBSET S : Good(s) = g[s]
  BY <1>2, <1>3, GoodIs
<1>6. \A s \in SUBSET S : Total(s) = k[s]
  BY <1>2, <1>4, TotalIs
<1>7. S \in SUBSET S /\ \A x \in S : S \ {x} \in SUBSET S
  OBVIOUS
<1>. QED BY <1>2, <1>3, <1>4, <1>5, <1>6, <1>7

\* Of one more sample.
LEMMA TotalsAdd ==
  ASSUME NEW S \in SUBSET Sample, IsFiniteSet(S), NEW y \in Sample, y \notin S
  PROVE  /\ Good(S \cup {y}) = y.good + Good(S)
         /\ Total(S \cup {y}) = y.total + Total(S)
<1>. DEFINE T == S \cup {y}
<1>1. T \in SUBSET Sample /\ IsFiniteSet(T) /\ y \in T /\ T \ {y} = S
  BY FS_AddElement
<1>. HIDE DEF T
<1>2. Good(T) = y.good + Good(T \ {y}) /\ Total(T) = y.total + Total(T \ {y})
  BY <1>1, TotalsTake
<1>. QED BY <1>1, <1>2 DEF T

\* What a worse sample does to the totals of a window.
LEMMA WorseTotals ==
  ASSUME NEW A \in SUBSET Sample, IsFiniteSet(A), NEW x \in A, NEW y \in Sample,
         \A z \in A : z.id = x.id => z = x,
         y = [x EXCEPT !.good = 0], NEW from \in Int, NEW to \in Int
  PROVE  LET B == (A \ {x}) \cup {y} IN
         /\ Total(Within(B, from, to)) = Total(Within(A, from, to))
         /\ Good(Within(B, from, to)) <= Good(Within(A, from, to))
         /\ Good(Within(A, from, to)) \in Nat /\ Good(Within(B, from, to)) \in Nat
         /\ Total(Within(A, from, to)) \in Nat
<1>. DEFINE B == (A \ {x}) \cup {y}
            W == Within(A, from, to)
            V == Within(B, from, to)
<1>1. y.id = x.id /\ y.time = x.time /\ y.good = 0 /\ y.total = x.total /\ x.good \in Nat
  BY DEF Sample
<1>2. y \in A => y = x
  BY <1>1
<1>3. W \in SUBSET Sample /\ IsFiniteSet(W)
  BY FS_Subset DEF Within
<1>4. CASE x \in W
  <2>1. V = (W \ {x}) \cup {y} /\ y \notin W \ {x}
    BY <1>1, <1>2, <1>4 DEF Within
  <2>2. W \ {x} \in SUBSET Sample /\ IsFiniteSet(W \ {x})
    BY <1>3, FS_Subset
  <2>. HIDE DEF W, V, B
  <2>3. /\ Good(W) = x.good + Good(W \ {x}) /\ Total(W) = x.total + Total(W \ {x})
        /\ Good(W) \in Nat /\ Total(W) \in Nat /\ Good(W \ {x}) \in Nat
    BY <1>3, <1>4, TotalsTake
  <2>4. Good(V) = y.good + Good(W \ {x}) /\ Total(V) = y.total + Total(W \ {x})
    BY <2>1, <2>2, TotalsAdd
  <2>5. Good(V) <= Good(W) /\ Total(V) = Total(W) /\ Good(V) \in Nat
    BY <1>1, <2>3, <2>4
  <2>. QED BY <2>3, <2>5 DEF W, V, B
<1>5. CASE x \notin W
  <2>1. V = W
    BY <1>1, <1>2, <1>5 DEF Within
  <2>. HIDE DEF W, V, B
  <2>2. Good(W) \in Nat /\ Total(W) \in Nat
    BY <1>3, TotalsTake
  <2>. QED BY <2>1, <2>2 DEF W, V, B
<1>. QED BY <1>4, <1>5

Goal(o) == o = <<o[1], o[2]>> /\ o[1] \in Positive /\ o[2] \in Positive /\ o[1] < o[2]

LEMMA ShareOfWindow ==
  ASSUME NEW w \in Positive, NEW f \in Positive
  PROVE  w \div f \in 0..w /\ AtLeastMinute(w \div f) \in 1..w
<1>1. w \div f \in Int /\ f * (w \div f) <= w /\ w < f * (w \div f) + f
  BY DEF Positive
<1>. DEFINE q == w \div f
<1>2. q \in 0..w
  <2>. HIDE DEF q
  <2>1. q \in Int /\ f * q <= w /\ w < f * q + f
    BY <1>1 DEF q
  <2>2. q >= 0
    <3>1. CASE q <= -1
      <4>1. f * q <= f * (-1)
        BY <2>1, <3>1 DEF Positive
      <4>. QED BY <2>1, <4>1 DEF Positive
    <3>. QED BY <2>1, <3>1
  <2>3. q <= f * q
    BY <2>1, <2>2 DEF Positive
  <2>. QED BY <2>1, <2>2, <2>3 DEF Positive
<1>. QED BY <1>2 DEF AtLeastMinute, Positive

\* A report is about the samples of its windows.
LEMMA SameReport ==
  ASSUME NEW t, NEW A, NEW B, NEW asked \in Int, TargetWindow(t) \in Positive,
         \A w \in 1..TargetWindow(t) : Within(A, asked - w, asked) = Within(B, asked - w, asked)
  PROVE  Report(t, A, asked) = Report(t, B, asked)
<1>. DEFINE win == TargetWindow(t)
            obj == Objective(t)
<1>1. ASSUME NEW f \in Positive
      PROVE  /\ AtLeastMinute(win \div f) \in 1..win
             /\ BurnOver(A, obj, asked, win \div f) = BurnOver(B, obj, asked, win \div f)
  <2>1. AtLeastMinute(win \div f) \in 1..win
    BY ShareOfWindow
  <2>. QED BY <2>1 DEF BurnOver
<1>2. {FastLong, FastShort, SlowLong, SlowShort, 10} \subseteq Positive
  BY SloAssumption DEF Positive
<1>3. Severity(A, obj, asked, win) = Severity(B, obj, asked, win)
  BY <1>1, <1>2 DEF Severity
<1>4. DisplayWindows(A, asked, win) = DisplayWindows(B, asked, win)
  BY <1>1, <1>2 DEF DisplayWindows
<1>5. \A w \in DisplayWindows(A, asked, win) : BurnOver(A, obj, asked, w) = BurnOver(B, obj, asked, w)
  <2>. SUFFICES ASSUME NEW w \in DisplayWindows(A, asked, win)
                PROVE  BurnOver(A, obj, asked, w) = BurnOver(B, obj, asked, w)
    OBVIOUS
  <2>1. w \in 1..win
    BY <1>1, <1>2 DEF DisplayWindows
  <2>2. AtLeastMinute(w) = w
    BY <2>1 DEF AtLeastMinute
  <2>. QED BY <2>1, <2>2 DEF BurnOver
<1>6. Within(A, asked - win, asked) = Within(B, asked - win, asked)
  BY DEF Positive
<1>7. BurnOver(A, obj, asked, win \div FastLong) = BurnOver(B, obj, asked, win \div FastLong)
  BY <1>1, <1>2
<1>. QED BY <1>3, <1>4, <1>5, <1>6, <1>7 DEF Report

LEMMA Times ==
  ASSUME NEW a \in Int, NEW b \in Int, NEW c \in Nat, a <= b
  PROVE  a * c \in Int /\ b * c \in Int /\ a * c <= b * c
<1>1. a * c \in Int /\ b * c \in Int
  OBVIOUS
<1>2. (b - a) * c >= 0 /\ (b - a) * c = b * c - a * c
  OBVIOUS
<1>. QED BY <1>1, <1>2

\* More errors burn more.
LEMMA BurnGrows ==
  ASSUME NEW W, NEW V, NEW o, Goal(o), Total(W) = Total(V), Total(W) \in Nat,
         Good(W) \in Nat, Good(V) \in Nat, Good(V) <= Good(W)
  PROVE  \E a \in Int, b \in Int, d \in Positive :
            a <= b /\ BurnOf(W, o) = <<a, d>> /\ BurnOf(V, o) = <<b, d>>
<1>1. CASE Total(W) = 0
  <2>1. BurnOf(W, o) = <<0, 1>> /\ BurnOf(V, o) = <<0, 1>> /\ 0 \in Int /\ 1 \in Positive
    BY <1>1 DEF BurnOf, Positive
  <2>. QED BY <2>1
<1>2. CASE Total(W) # 0
  <2>. DEFINE T == Total(W)
              p == T - Good(W)
              q == T - Good(V)
              e == o[2] - o[1]
  <2>1. /\ BurnOf(W, o) = <<p * o[2], T * e>>
        /\ BurnOf(V, o) = <<q * o[2], T * e>>
    BY <1>2 DEF BurnOf
  <2>2. p \in Int /\ q \in Int /\ p <= q /\ o[2] \in Nat /\ e \in Positive /\ T \in Positive
    BY <1>2 DEF Goal, Positive
  <2>. HIDE DEF T, p, q, e
  <2>3. p * o[2] \in Int /\ q * o[2] \in Int /\ p * o[2] <= q * o[2]
    BY <2>2, Times
  <2>4. T * e \in Positive
    BY <2>2 DEF Positive
  <2>. QED BY <2>1, <2>3, <2>4
<1>. QED BY <1>1, <1>2

LEMMA GeqKept ==
  ASSUME NEW a \in Int, NEW b \in Int, NEW d \in Positive, a <= b,
         NEW r \in Nat \X Positive, Geq(<<a, d>>, r)
  PROVE  Geq(<<b, d>>, r)
<1>1. r[1] \in Nat /\ r[2] \in Nat
  BY DEF Positive
<1>2. a * r[2] \in Int /\ b * r[2] \in Int /\ a * r[2] <= b * r[2]
  BY <1>1, Times
<1>3. r[1] * d \in Int /\ a * r[2] >= r[1] * d
  BY <1>1 DEF Geq, Positive
<1>4. b * r[2] >= r[1] * d
  BY <1>2, <1>3
<1>. QED BY <1>4 DEF Geq

LEMMA LeftLess ==
  ASSUME NEW a \in Int, NEW b \in Int, NEW d \in Positive, a <= b
  PROVE  Geq(<<d - a, d>>, <<d - b, d>>)
<1>1. d - b \in Int /\ d - a \in Int /\ d \in Nat /\ d - b <= d - a
  BY DEF Positive
<1>2. (d - b) * d <= (d - a) * d
  BY <1>1, Times
<1>. QED BY <1>1, <1>2 DEF Geq

LEMMA WorseReport ==
  ASSUME NEW t, Goal(Objective(t)), TargetWindow(t) \in Positive,
         NEW A \in SUBSET Sample, IsFiniteSet(A), NEW x \in A, \A z \in A : z.id = x.id => z = x,
         NEW asked \in Nat, Report(t, A, asked).severity # "no_data"
  PROVE  LET worse == Report(t, (A \ {x}) \cup {[x EXCEPT !.good = 0]}, asked) IN
         /\ Grave[worse.severity] >= Grave[Report(t, A, asked).severity]
         /\ Geq(Report(t, A, asked).left, worse.left)
<1>. DEFINE y == [x EXCEPT !.good = 0]
            B == (A \ {x}) \cup {y}
            win == TargetWindow(t)
            obj == Objective(t)
<1>1. y \in Sample
  BY DEF Sample
<1>2. ASSUME NEW w \in Int
      PROVE  /\ Total(Within(B, asked - w, asked)) = Total(Within(A, asked - w, asked))
             /\ \E a \in Int, b \in Int, d \in Positive :
                  /\ a <= b /\ BurnOf(Within(A, asked - w, asked), obj) = <<a, d>>
                  /\ BurnOf(Within(B, asked - w, asked), obj) = <<b, d>>
  <2>1. asked - w \in Int /\ asked \in Int
    OBVIOUS
  <2>. HIDE DEF y
  <2>2. /\ Total(Within(B, asked - w, asked)) = Total(Within(A, asked - w, asked))
        /\ Good(Within(B, asked - w, asked)) <= Good(Within(A, asked - w, asked))
        /\ Good(Within(A, asked - w, asked)) \in Nat /\ Good(Within(B, asked - w, asked)) \in Nat
        /\ Total(Within(A, asked - w, asked)) \in Nat
    BY <1>1, <2>1, WorseTotals DEF y
  <2>. QED BY <2>2, BurnGrows
<1>. HIDE DEF B, y
<1>3. ASSUME NEW f \in Positive, NEW r \in Nat \X Positive,
             Geq(BurnOver(A, obj, asked, win \div f), r)
      PROVE  Geq(BurnOver(B, obj, asked, win \div f), r)
  <2>. DEFINE w == AtLeastMinute(win \div f)
  <2>1. w \in Int
    BY ShareOfWindow
  <2>. HIDE DEF w
  <2>2. PICK a \in Int, b \in Int, d \in Positive :
               /\ a <= b /\ BurnOf(Within(A, asked - w, asked), obj) = <<a, d>>
               /\ BurnOf(Within(B, asked - w, asked), obj) = <<b, d>>
    BY <1>2, <2>1
  <2>3. /\ BurnOver(A, obj, asked, win \div f) = <<a, d>>
        /\ BurnOver(B, obj, asked, win \div f) = <<b, d>>
    BY <2>2 DEF BurnOver, w
  <2>. QED BY <1>3, <2>2, <2>3, GeqKept
<1>. HIDE DEF obj, win
<1>4. /\ FastLong \in Positive /\ FastShort \in Positive /\ SlowLong \in Positive
      /\ SlowShort \in Positive /\ FastBurn \in Nat \X Positive /\ SlowBurn \in Nat \X Positive
  BY SloAssumption
<1>5. Grave[Severity(B, obj, asked, win)] >= Grave[Severity(A, obj, asked, win)]
  <2>1. /\ Geq(BurnOver(A, obj, asked, win \div FastLong), FastBurn)
           => Geq(BurnOver(B, obj, asked, win \div FastLong), FastBurn)
        /\ Geq(BurnOver(A, obj, asked, win \div FastShort), FastBurn)
           => Geq(BurnOver(B, obj, asked, win \div FastShort), FastBurn)
        /\ Geq(BurnOver(A, obj, asked, win \div SlowLong), SlowBurn)
           => Geq(BurnOver(B, obj, asked, win \div SlowLong), SlowBurn)
        /\ Geq(BurnOver(A, obj, asked, win \div SlowShort), SlowBurn)
           => Geq(BurnOver(B, obj, asked, win \div SlowShort), SlowBurn)
    BY <1>3, <1>4
  <2>2. Grave["ok"] = 0 /\ Grave["warning"] = 1 /\ Grave["critical"] = 2
    BY DEF Grave
  <2>. HIDE DEF Grave
  <2>. QED BY <2>1, <2>2 DEF Severity
<1>6. win \in Int
  BY DEF Positive, win
<1>7. Total(Within(B, asked - win, asked)) = Total(Within(A, asked - win, asked))
  BY <1>2, <1>6
<1>8. PICK a \in Int, b \in Int, d \in Positive :
             /\ a <= b /\ BurnOf(Within(A, asked - win, asked), obj) = <<a, d>>
             /\ BurnOf(Within(B, asked - win, asked), obj) = <<b, d>>
  BY <1>2, <1>6
<1>9. Total(Within(A, asked - win, asked)) # 0
  BY DEF Report, win, obj
<1>10. /\ Report(t, A, asked).severity = Severity(A, obj, asked, win)
       /\ Report(t, A, asked).left = <<d - a, d>>
  BY <1>8, <1>9 DEF Report, win, obj
<1>11. /\ Report(t, B, asked).severity = Severity(B, obj, asked, win)
       /\ Report(t, B, asked).left = <<d - b, d>>
  BY <1>7, <1>8, <1>9 DEF Report, win, obj
<1>12. Geq(<<d - a, d>>, <<d - b, d>>)
  BY <1>8, LeftLess
<1>. QED BY <1>5, <1>10, <1>11, <1>12 DEF B, y

\* What a series keeps of the samples it was sent: all but some that come before
\* twice the narrowest window ever set.
SeriesInv(s) ==
  /\ s \in [objective : {<<0, 1>>, <<1, 2>>}, window : Nat, samples : SUBSET Sample,
            all : SUBSET Sample, narrow : Nat, cut : BOOLEAN]
  /\ s.samples \subseteq s.all /\ IsFiniteSet(s.all)
  /\ \A x, y \in s.all : x.id = y.id => x = y
  /\ ~s.cut => \A x \in s.all \ s.samples :
                  s.narrow > 0 /\ x.time < Latest(s.all) - 2 * s.narrow

\* A post and the samples it brings.
PostInv(p) ==
  /\ p = [id |-> p.id, name |-> p.name, req |-> p.req, at |-> p.at]
  /\ p.id \in 0..slos.sent - 1 /\ p.name \in DOMAIN slos.series /\ p.req \in SloRequests
  /\ p.at \in {"target", "append"} => \A x \in slos.series[p.name].all : x.id # p.id

SloInv ==
  /\ slos = [series |-> slos.series, posts |-> slos.posts, sent |-> slos.sent, last |-> slos.last]
  /\ slos.sent \in Nat
  /\ \A n \in DOMAIN slos.series :
       SeriesInv(slos.series[n]) /\ \A x \in slos.series[n].all : x.id < slos.sent
  /\ \A p \in slos.posts : PostInv(p)
  /\ \A p, q \in slos.posts : p.id = q.id => p = q
  /\ slos.last = <<>> \/ \E n \in DOMAIN slos.series, asked \in Nat : slos.last = Told(n, asked)

LEMMA SloStart == SloInit => SloInv
<1>. SUFFICES ASSUME SloInit PROVE SloInv
  OBVIOUS
<1>1. /\ slos = [series |-> <<>>, posts |-> {}, sent |-> 0, last |-> <<>>]
      /\ DOMAIN slos.series = {}
  BY DEF SloInit
<1>. QED BY ONLY <1>1 DEF SloInv

LEMMA LatestIs ==
  ASSUME NEW A \in SUBSET Sample, IsFiniteSet(A)
  PROVE  Latest(A) \in Nat /\ \A x \in A : x.time <= Latest(A)
<1>. DEFINE T == {x.time : x \in A}
<1>1. T \in SUBSET Nat /\ IsFiniteSet(T)
  <2>. DEFINE f == [x \in A |-> x.time]
  <2>1. f \in Surjection(A, T)
    BY DEF Surjection
  <2>2. T \in SUBSET Nat
    BY DEF Sample
  <2>. HIDE DEF f, T
  <2>. QED BY <2>1, <2>2, FS_Surjection
<1>2. CASE A = {}
  BY <1>2 DEF Latest
<1>3. CASE A # {}
  <2>1. T # {} /\ Latest(A) = Max(T)
    BY <1>3 DEF Latest
  <2>. HIDE DEF T
  <2>2. Max(T) \in T /\ \A y \in T : y <= Max(T)
    BY <1>1, <2>1, GreatestIn
  <2>. QED BY <1>1, <2>1, <2>2 DEF T
<1>. QED BY <1>2, <1>3

LEMMA LatestTaken ==
  ASSUME NEW A \in SUBSET Sample, IsFiniteSet(A)
  PROVE  Latest(A) = 0 \/ \E x \in A : Latest(A) = x.time
<1>. DEFINE T == {x.time : x \in A}
<1>1. T \in SUBSET Nat /\ IsFiniteSet(T)
  <2>. DEFINE f == [x \in A |-> x.time]
  <2>1. f \in Surjection(A, T)
    BY DEF Surjection
  <2>2. T \in SUBSET Nat
    BY DEF Sample
  <2>. HIDE DEF f, T
  <2>. QED BY <2>1, <2>2, FS_Surjection
<1>2. CASE A = {}
  BY <1>2 DEF Latest
<1>3. CASE A # {}
  <2>1. T # {} /\ Latest(A) = Max(T)
    BY <1>3 DEF Latest
  <2>. HIDE DEF T
  <2>2. Max(T) \in T
    BY <1>1, <2>1, GreatestIn
  <2>. QED BY <2>1, <2>2 DEF T
<1>. QED BY <1>2, <1>3

LEMMA LatestGrows ==
  ASSUME NEW B \in SUBSET Sample, IsFiniteSet(B), NEW A \in SUBSET B
  PROVE  Latest(A) \in Nat /\ Latest(A) <= Latest(B)
<1>1. A \in SUBSET Sample /\ IsFiniteSet(A)
  BY FS_Subset
<1>2. Latest(A) = 0 \/ \E x \in A : Latest(A) = x.time
  BY <1>1, LatestTaken
<1>3. Latest(B) \in Nat /\ \A x \in B : x.time <= Latest(B)
  BY LatestIs
<1>4. Latest(A) \in Nat
  BY <1>1, LatestIs
<1>5. CASE Latest(A) = 0
  BY <1>3, <1>5
<1>6. CASE \E x \in A : Latest(A) = x.time
  BY <1>3, <1>4, <1>6
<1>. QED BY <1>2, <1>4, <1>5, <1>6

LEMMA SeriesTarget ==
  ASSUME NEW s, SeriesInv(s)
  PROVE  Goal(Objective(s)) /\ TargetWindow(s) \in Positive
<1>1. s.objective \in {<<0, 1>>, <<1, 2>>} /\ s.window \in Nat
  BY DEF SeriesInv
<1>2. Goal(<<1, 2>>) /\ Goal(DefaultObjective)
  BY SloAssumption DEF Goal, Positive
<1>3. Objective(s) \in {<<1, 2>>, DefaultObjective}
  BY <1>1 DEF Objective
<1>4. TargetWindow(s) \in Positive
  BY <1>1, SloAssumption DEF TargetWindow, Positive
<1>. QED BY <1>2, <1>3, <1>4

LEMMA SloTells == SloInv => PruningUnseen /\ ErrorsNeverHelp
<1>. SUFFICES ASSUME SloInv, NEW i \in DOMAIN slos.last
              PROVE  LET r == slos.last[i]  s == slos.series[r.name] IN
                     /\ (~s.cut /\ (s.narrow > 0 => r.now - TargetWindow(s) >= Latest(s.all) - 2 * s.narrow))
                          => r.got = Report(s, s.all, r.now)
                     /\ r.got.severity # "no_data" =>
                          \A x \in s.samples :
                             LET worse == Report(s, (s.samples \ {x}) \cup {[x EXCEPT !.good = 0]}, r.now) IN
                             /\ Grave[worse.severity] >= Grave[r.got.severity]
                             /\ Geq(r.got.left, worse.left)
                     /\ r.got.severity = "critical" => Geq(r.got.burn, FastBurn)
  BY DEF PruningUnseen, ErrorsNeverHelp
<1>1. PICK n \in DOMAIN slos.series, asked \in Nat : slos.last = Told(n, asked)
  BY DEF SloInv
<1>. DEFINE r == slos.last[i]
            s == slos.series[n]
<1>2. r = [name |-> n, now |-> asked, got |-> Report(s, s.samples, asked)]
  BY <1>1 DEF Told
<1>3. SeriesInv(s)
  BY DEF SloInv
<1>. HIDE DEF r, s
<1>4. Goal(Objective(s)) /\ TargetWindow(s) \in Positive
  BY <1>3, SeriesTarget
<1>5. s.samples \in SUBSET Sample /\ s.all \in SUBSET Sample /\ s.samples \subseteq s.all
      /\ IsFiniteSet(s.all) /\ IsFiniteSet(s.samples) /\ s.narrow \in Nat
  BY <1>3, FS_Subset DEF SeriesInv
<1>6. ASSUME ~s.cut, s.narrow > 0 => asked - TargetWindow(s) >= Latest(s.all) - 2 * s.narrow
      PROVE  Report(s, s.samples, asked) = Report(s, s.all, asked)
  <2>1. ASSUME NEW w \in 1..TargetWindow(s)
        PROVE  Within(s.samples, asked - w, asked) = Within(s.all, asked - w, asked)
    <3>1. ASSUME NEW x \in s.all, asked - w <= x.time
          PROVE  x \in s.samples
      <4>. SUFFICES ASSUME x \notin s.samples PROVE FALSE
        OBVIOUS
      <4>1. s.narrow > 0 /\ x.time < Latest(s.all) - 2 * s.narrow
        BY <1>3, <1>6 DEF SeriesInv
      <4>2. x.time \in Nat /\ Latest(s.all) \in Nat /\ TargetWindow(s) \in Nat
        BY <1>4, <1>5, LatestIs DEF Sample, Positive
      <4>. QED BY <1>5, <1>6, <3>1, <4>1, <4>2
    <3>. QED BY <1>5, <3>1 DEF Within
  <2>. QED BY <1>4, <2>1, SameReport
<1>7. ASSUME Report(s, s.samples, asked).severity # "no_data", NEW x \in s.samples
      PROVE  LET worse == Report(s, (s.samples \ {x}) \cup {[x EXCEPT !.good = 0]}, asked) IN
             /\ Grave[worse.severity] >= Grave[Report(s, s.samples, asked).severity]
             /\ Geq(Report(s, s.samples, asked).left, worse.left)
  <2>1. \A z \in s.samples : z.id = x.id => z = x
    BY <1>3 DEF SeriesInv
  <2>. QED BY <1>4, <1>5, <1>7, <2>1, WorseReport
<1>8. Report(s, s.samples, asked).severity = "critical"
         => Geq(Report(s, s.samples, asked).burn, FastBurn)
  BY DEF Report, Severity
<1>. QED BY <1>2, <1>6, <1>7, <1>8 DEF s, r

LEMMA RequestIs ==
  ASSUME NEW req \in SloRequests
  PROVE  /\ req.objective \in {<<0, 1>>, <<1, 2>>} /\ req.window \in Nat
         /\ req.now >= 0 => req.now \in Nat
         /\ req.samples = {} \/ \E z \in [time : Nat, good : 0..1, total : {1}] : req.samples = {z}
<1>. DEFINE one == {{[time |-> t, good |-> g, total |-> 1]} : t \in SampleTimes, g \in 0..1}
<1>0. \A u \in SampleTimes \cup Windows \cup ReportTimes : u \in Nat
  <2>1. SampleTimes \subseteq Nat /\ ReportTimes \subseteq Nat /\ Windows \subseteq Nat
    BY SloAssumption
  <2>. QED BY ONLY <2>1
<1>1. CASE req \in [objective : {<<1, 2>>}, window : Windows, now : {-1}, samples : one]
  <2>1. /\ req.objective = <<1, 2>> /\ req.window \in Windows /\ req.now = -1 /\ req.samples \in one
    BY <1>1
  <2>2. PICK t \in SampleTimes, g \in 0..1 : req.samples = {[time |-> t, good |-> g, total |-> 1]}
    BY <2>1
  <2>3. [time |-> t, good |-> g, total |-> 1] \in [time : Nat, good : 0..1, total : {1}]
    BY <1>0
  <2>4. \E z \in [time : Nat, good : 0..1, total : {1}] : req.samples = {z}
    BY <2>2, <2>3
  <2>5. req.window \in Nat /\ ~(req.now >= 0) /\ req.objective = <<1, 2>>
    <3>1. req.window \in Nat
      BY <1>0, <2>1
    <3>2. ~(-1 >= 0)
      OBVIOUS
    <3>. QED BY <2>1, <3>1, <3>2
  <2>. QED BY <2>4, <2>5
<1>2. CASE req \in [objective : {<<0, 1>>}, window : {0}, now : ReportTimes, samples : {{}}]
  <2>1. req.objective = <<0, 1>> /\ req.window = 0 /\ req.now \in ReportTimes /\ req.samples = {}
    BY <1>2
  <2>2. req.window \in Nat /\ req.now \in Nat
    <3>1. 0 \in Nat
      OBVIOUS
    <3>. QED BY <1>0, <2>1, <3>1
  <2>. QED BY <2>1, <2>2
<1>. QED BY <1>1, <1>2 DEF SloRequests

LEMMA PostKeeps ==
  ASSUME SloInv, NEW s \in SloNames, NEW req \in SloRequests, PostSlo(s, req)
  PROVE  SloInv'
<1>. DEFINE fresh == s \notin DOMAIN slos.series
            full == fresh /\ Cardinality(DOMAIN slos.series) >= MaxSloSeries
            made == [n \in DOMAIN slos.series \cup {s} |-> IF n = s THEN NewSeries ELSE slos.series[n]]
            post == [id |-> slos.sent, name |-> s, req |-> req, at |-> "target"]
            S == IF fresh /\ ~full THEN made ELSE slos.series
            P == IF full THEN slos.posts ELSE slos.posts \cup {post}
<1>1. /\ slos = [series |-> slos.series, posts |-> slos.posts, sent |-> slos.sent, last |-> slos.last]
      /\ slos.sent \in Nat
  BY DEF SloInv
<1>2. slos' = [series |-> S, posts |-> P, sent |-> slos.sent + 1, last |-> <<>>]
  BY <1>1 DEF PostSlo
<1>3. slos'.series = S /\ slos'.posts = P /\ slos'.sent = slos.sent + 1 /\ slos'.last = <<>>
  BY <1>2
<1>4. SeriesInv(NewSeries) /\ NewSeries.all = {}
  BY FS_EmptySet DEF SeriesInv, NewSeries
<1>5. \A n \in DOMAIN S : SeriesInv(S[n]) /\ \A x \in S[n].all : x.id < slos.sent + 1
  <2>. SUFFICES ASSUME NEW n \in DOMAIN S
                PROVE  SeriesInv(S[n]) /\ \A x \in S[n].all : x.id < slos.sent + 1
    OBVIOUS
  <2>1. CASE S[n] = NewSeries
    BY <1>4, <2>1
  <2>2. CASE n \in DOMAIN slos.series /\ S[n] = slos.series[n]
    <3>1. SeriesInv(slos.series[n]) /\ \A x \in slos.series[n].all : x.id < slos.sent
      BY <2>2 DEF SloInv
    <3>2. \A x \in slos.series[n].all : x.id \in Nat
      BY <3>1 DEF SeriesInv, Sample
    <3>. QED BY <1>1, <2>2, <3>1, <3>2
  <2>. QED BY <2>1, <2>2
<1>6. /\ DOMAIN slos.series \subseteq DOMAIN S
      /\ \A n \in DOMAIN slos.series : S[n] = slos.series[n]
      /\ ~full => s \in DOMAIN S
  OBVIOUS
<1>7. \A p \in P :
        /\ p = [id |-> p.id, name |-> p.name, req |-> p.req, at |-> p.at]
        /\ p.id \in 0..slos.sent /\ p.name \in DOMAIN S /\ p.req \in SloRequests
        /\ p.at \in {"target", "append"} => \A x \in S[p.name].all : x.id # p.id
  <2>. SUFFICES ASSUME NEW p \in P
                PROVE  /\ p = [id |-> p.id, name |-> p.name, req |-> p.req, at |-> p.at]
                       /\ p.id \in 0..slos.sent /\ p.name \in DOMAIN S /\ p.req \in SloRequests
                       /\ p.at \in {"target", "append"} => \A x \in S[p.name].all : x.id # p.id
    OBVIOUS
  <2>1. CASE p \in slos.posts
    <3>1. PostInv(p)
      BY <2>1 DEF SloInv
    <3>. QED BY <1>1, <1>6, <3>1 DEF PostInv
  <2>2. CASE p = post /\ ~full
    <3>1. \A x \in S[s].all : x.id < slos.sent /\ x.id \in Nat
      <4>1. CASE fresh
        <5>1. S[s] = NewSeries
          BY <2>2, <4>1
        <5>. QED BY <1>4, <5>1
      <4>2. CASE ~fresh
        <5>1. S[s] = slos.series[s] /\ s \in DOMAIN slos.series
          BY <4>2
        <5>2. SeriesInv(slos.series[s]) /\ \A x \in slos.series[s].all : x.id < slos.sent
          BY <5>1 DEF SloInv
        <5>. QED BY <5>1, <5>2 DEF SeriesInv, Sample
      <4>. QED BY <4>1, <4>2
    <3>2. \A x \in S[s].all : x.id # slos.sent
      BY <1>1, <3>1
    <3>3. p.id = slos.sent /\ p.name = s /\ p.req = req /\ s \in DOMAIN S
      BY <1>6, <2>2
    <3>4. p = [id |-> p.id, name |-> p.name, req |-> p.req, at |-> p.at]
      BY <2>2
    <3>. HIDE DEF S, P, post, full, fresh
    <3>. QED BY <1>1, <3>2, <3>3, <3>4
  <2>. QED BY <2>1, <2>2
<1>8. \A p, q \in P : p.id = q.id => p = q
  <2>1. \A p \in slos.posts : p.id # slos.sent
    BY <1>1 DEF SloInv, PostInv
  <2>2. \A p, q \in slos.posts : p.id = q.id => p = q
    BY DEF SloInv
  <2>. QED BY <2>1, <2>2
<1>. HIDE DEF S, P
<1>9. \A p \in P : PostInv(p)'
  BY <1>1, <1>3, <1>7 DEF PostInv
<1>10. \A n \in DOMAIN slos'.series :
         SeriesInv(slos'.series[n]) /\ \A x \in slos'.series[n].all : x.id < slos'.sent
  BY <1>3, <1>5
<1>11. slos'.sent \in Nat
  BY <1>1, <1>3
<1>12. slos' = [series |-> slos'.series, posts |-> slos'.posts, sent |-> slos'.sent, last |-> slos'.last]
  BY <1>2, <1>3
<1>. QED BY <1>3, <1>8, <1>9, <1>10, <1>11, <1>12 DEF SloInv

\* A step that changes one series and moves one post on.
LEMMA MoveKeeps ==
  ASSUME SloInv, NEW p \in slos.posts, NEW at, NEW t,
         slos' = [series |-> [slos.series EXCEPT ![p.name] = t],
                  posts |-> Moves(p, at), sent |-> slos.sent, last |-> <<>>],
         SeriesInv(t), \A x \in t.all : x.id < slos.sent,
         \A x \in t.all : x \in slos.series[p.name].all \/ (x.id = p.id /\ at = "answer"),
         at \in {"append", "answer"}, p.at \in {"target", "append"}
  PROVE  SloInv'
<1>. DEFINE S == [slos.series EXCEPT ![p.name] = t]
            P == Moves(p, at)
            m == [p EXCEPT !.at = at]
<1>1. slos'.series = S /\ slos'.posts = P /\ slos'.sent = slos.sent /\ slos'.last = <<>>
      /\ slos' = [series |-> slos'.series, posts |-> slos'.posts, sent |-> slos'.sent, last |-> slos'.last]
  OBVIOUS
<1>2. /\ PostInv(p) /\ slos.sent \in Nat /\ \A q \in slos.posts : PostInv(q)
      /\ \A q, r \in slos.posts : q.id = r.id => q = r
  BY DEF SloInv
<1>3. DOMAIN S = DOMAIN slos.series /\ p.name \in DOMAIN slos.series /\ S[p.name] = t
      /\ \A n \in DOMAIN slos.series : n # p.name => S[n] = slos.series[n]
  BY <1>2 DEF PostInv
<1>4. m = [id |-> p.id, name |-> p.name, req |-> p.req, at |-> at]
  BY <1>2 DEF PostInv
<1>5. P = (slos.posts \ {p}) \cup {m}
  BY DEF Moves
<1>6. m.id = p.id /\ m.name = p.name /\ m.req = p.req /\ m.at = at
      /\ m = [id |-> m.id, name |-> m.name, req |-> m.req, at |-> m.at]
  BY <1>4
<1>. HIDE DEF S, P, m
<1>7. \A n \in DOMAIN slos'.series :
        SeriesInv(slos'.series[n]) /\ \A x \in slos'.series[n].all : x.id < slos'.sent
  <2>1. \A n \in DOMAIN slos.series :
          SeriesInv(slos.series[n]) /\ \A x \in slos.series[n].all : x.id < slos.sent
    BY DEF SloInv
  <2>. HIDE DEF SeriesInv
  <2>. QED BY <1>1, <1>3, <2>1
<1>8. \A q \in P : PostInv(q)'
  <2>1. ASSUME NEW q \in slos.posts, q # p
        PROVE  PostInv(q)'
    <3>1. PostInv(q) /\ q.id # p.id
      BY <1>2, <2>1
    <3>2. q.at \in {"target", "append"} => \A x \in S[q.name].all : x.id # q.id
      <4>1. CASE q.name = p.name
        BY <1>3, <3>1, <4>1 DEF PostInv
      <4>2. CASE q.name # p.name
        BY <1>3, <3>1, <4>2 DEF PostInv
      <4>. QED BY <4>1, <4>2
    <3>. QED BY <1>1, <1>3, <3>1, <3>2 DEF PostInv
  <2>2. PostInv(m)'
    <3>1. m.at \in {"target", "append"} => \A x \in S[m.name].all : x.id # m.id
      BY <1>2, <1>3, <1>6 DEF PostInv
    <3>2. m.id \in 0..slos.sent - 1 /\ m.name \in DOMAIN S /\ m.req \in SloRequests
      BY <1>2, <1>3, <1>6 DEF PostInv
    <3>. QED BY <1>1, <1>6, <3>1, <3>2 DEF PostInv
  <2>. QED BY <1>5, <2>1, <2>2
<1>9. \A q, r \in P : q.id = r.id => q = r
  BY <1>2, <1>5, <1>6
<1>. HIDE DEF SeriesInv
<1>. QED BY <1>1, <1>2, <1>7, <1>8, <1>9 DEF SloInv

LEMMA SetTargetKeeps ==
  ASSUME SloInv, NEW p, SetTarget(p)
  PROVE  SloInv'
<1>. DEFINE s == slos.series[p.name]
            t == [s EXCEPT !.objective = IF p.req.objective[1] > 0 THEN p.req.objective ELSE @,
                           !.window = IF p.req.window > 0 THEN p.req.window ELSE @]
<1>1. p \in slos.posts /\ p.at = "target" /\ PostInv(p)
  BY DEF SetTarget, SloInv
<1>2. p.name \in DOMAIN slos.series /\ p.req \in SloRequests
  BY <1>1 DEF PostInv
<1>3. SeriesInv(s) /\ \A x \in s.all : x.id < slos.sent
  BY <1>2 DEF SloInv
<1>4. p.req.objective \in {<<0, 1>>, <<1, 2>>} /\ p.req.window \in Nat
  BY <1>2, RequestIs
<1>5. slos' = [series |-> [slos.series EXCEPT ![p.name] = t],
               posts |-> Moves(p, "append"), sent |-> slos.sent, last |-> <<>>]
  <2>1. slos = [series |-> slos.series, posts |-> slos.posts, sent |-> slos.sent, last |-> slos.last]
    BY DEF SloInv
  <2>2. slos' = [slos EXCEPT !.posts = Moves(p, "append"), !.last = <<>>,
                   !.series = [slos.series EXCEPT ![p.name] = t]]
    BY <1>2 DEF SetTarget, Change
  <2>. HIDE DEF t
  <2>. QED BY ONLY <2>1, <2>2
<1>6. /\ t \in [objective : {<<0, 1>>, <<1, 2>>}, window : Nat, samples : SUBSET Sample,
                all : SUBSET Sample, narrow : Nat, cut : BOOLEAN]
      /\ t.samples = s.samples /\ t.all = s.all /\ t.narrow = s.narrow /\ t.cut = s.cut
  BY <1>3, <1>4 DEF SeriesInv
<1>. HIDE DEF t, s
<1>7. SeriesInv(t)
  BY <1>3, <1>6 DEF SeriesInv
<1>8. \A x \in t.all : x \in slos.series[p.name].all /\ x.id < slos.sent
  BY <1>3, <1>6 DEF s
<1>9. "append" \in {"append", "answer"} /\ p.at \in {"target", "append"}
  BY <1>1
<1>10. \A x \in t.all : x \in slos.series[p.name].all \/ (x.id = p.id /\ "append" = "answer")
  BY <1>8
<1>11. \A x \in t.all : x.id < slos.sent
  BY <1>8
<1>. HIDE DEF SeriesInv, PostInv, SloInv
<1>. QED BY <1>1, <1>5, <1>7, <1>9, <1>10, <1>11, MoveKeeps

LEMMA AnswersKeep ==
  ASSUME SloInv, \/ \E p \in slos.posts : Answer(p)
                 \/ \E s \in SloNames : GetSlo(s)
                 \/ UNCHANGED sloVars
  PROVE  SloInv'
<1>1. /\ slos = [series |-> slos.series, posts |-> slos.posts, sent |-> slos.sent, last |-> slos.last]
      /\ slos.sent \in Nat /\ \A p \in slos.posts : PostInv(p)
      /\ \A p, q \in slos.posts : p.id = q.id => p = q
      /\ \A n \in DOMAIN slos.series :
           SeriesInv(slos.series[n]) /\ \A x \in slos.series[n].all : x.id < slos.sent
  BY DEF SloInv
<1>2. ASSUME NEW n \in DOMAIN slos.series PROVE Latest(slos.series[n].samples) \in Nat
  <2>1. SeriesInv(slos.series[n])
    BY <1>1
  <2>2. slos.series[n].samples \in SUBSET Sample /\ IsFiniteSet(slos.series[n].samples)
    BY <2>1, FS_Subset DEF SeriesInv
  <2>. QED BY <2>2, LatestIs
<1>3. ASSUME NEW P \in SUBSET slos.posts, NEW n \in DOMAIN slos.series, NEW asked \in Nat,
             slos' = [slos EXCEPT !.posts = P, !.last = Told(n, asked)]
      PROVE  SloInv'
  <2>1. slos' = [series |-> slos.series, posts |-> P, sent |-> slos.sent, last |-> Told(n, asked)]
    BY ONLY <1>1, <1>3
  <2>2. /\ slos'.series = slos.series /\ slos'.posts = P /\ slos'.sent = slos.sent
        /\ slos'.last = Told(n, asked)
        /\ slos' = [series |-> slos'.series, posts |-> slos'.posts, sent |-> slos'.sent, last |-> slos'.last]
    BY ONLY <2>1
  <2>3. Told(n, asked)' = Told(n, asked)
    BY <2>2 DEF Told
  <2>4. \A p \in P : PostInv(p)'
    BY <1>1, <2>2 DEF PostInv
  <2>5. slos'.last = Told(n, asked)' /\ n \in DOMAIN slos'.series /\ asked \in Nat
    BY <2>2, <2>3
  <2>. HIDE DEF SeriesInv, PostInv, Told
  <2>. QED BY <1>1, <2>2, <2>4, <2>5 DEF SloInv
<1>4. ASSUME NEW p \in slos.posts, Answer(p) PROVE SloInv'
  <2>1. p.name \in DOMAIN slos.series /\ p.req \in SloRequests
    BY <1>1 DEF PostInv
  <2>. DEFINE asked == IF p.req.now >= 0 THEN p.req.now ELSE Latest(slos.series[p.name].samples)
  <2>2. asked \in Nat
    BY <1>2, <2>1, RequestIs
  <2>3. slos' = [slos EXCEPT !.posts = slos.posts \ {p}, !.last = Told(p.name, asked)]
    BY <1>4 DEF Answer
  <2>. HIDE DEF asked
  <2>. QED BY <1>3, <2>1, <2>2, <2>3
<1>5. ASSUME NEW s \in SloNames, GetSlo(s) PROVE SloInv'
  <2>1. s \in DOMAIN slos.series
    BY <1>5 DEF GetSlo
  <2>. DEFINE asked == Latest(slos.series[s].samples)
  <2>2. asked \in Nat
    BY <1>2, <2>1
  <2>3. slos' = [slos EXCEPT !.posts = slos.posts, !.last = Told(s, asked)]
    BY <1>1, <1>5 DEF GetSlo
  <2>. HIDE DEF asked
  <2>. QED BY <1>3, <2>1, <2>2, <2>3
<1>6. CASE UNCHANGED sloVars
  BY <1>6 DEF sloVars, SloInv, PostInv, Told
<1>. QED BY <1>4, <1>5, <1>6

\* t is the series s with new samples appended and kept left of them.
Appended(s, new, kept, t) ==
  LET both == s.samples \cup new
      inside == {x \in both : x.time >= Cutoff(s, both)}
      narrow == IF s.narrow = 0 \/ (s.window > 0 /\ s.window < s.narrow)
                THEN s.window ELSE s.narrow IN
  /\ kept \in SUBSET inside
  /\ t = [objective |-> s.objective, window |-> s.window, samples |-> kept,
          all |-> s.all \cup new, narrow |-> narrow, cut |-> s.cut \/ kept # inside]

\* What append drops is older than twice the narrowest window.
LEMMA AppendedSeries ==
  ASSUME NEW s, SeriesInv(s), NEW new \in SUBSET Sample, IsFiniteSet(new),
         \A x, y \in new : x = y, \A x \in new, y \in s.all : x.id # y.id,
         NEW kept, NEW t, Appended(s, new, kept, t)
  PROVE  SeriesInv(t)
<1>. DEFINE both == s.samples \cup new
            inside == {x \in both : x.time >= Cutoff(s, both)}
            narrow == IF s.narrow = 0 \/ (s.window > 0 /\ s.window < s.narrow)
                      THEN s.window ELSE s.narrow
            all == s.all \cup new
            cut == s.cut \/ kept # inside
<1>1. /\ s \in [objective : {<<0, 1>>, <<1, 2>>}, window : Nat, samples : SUBSET Sample,
                all : SUBSET Sample, narrow : Nat, cut : BOOLEAN]
      /\ s.samples \subseteq s.all /\ IsFiniteSet(s.all)
      /\ \A x, y \in s.all : x.id = y.id => x = y
  BY DEF SeriesInv
<1>2. kept \in SUBSET inside /\ narrow \in Nat /\ cut \in BOOLEAN
      /\ s.narrow \in Nat /\ s.window \in Nat
  BY <1>1 DEF Appended
<1>3. /\ all \in SUBSET Sample /\ both \in SUBSET Sample /\ inside \subseteq both
      /\ both \subseteq all /\ IsFiniteSet(all) /\ IsFiniteSet(both)
  <2>1. IsFiniteSet(all)
    BY <1>1, FS_Union
  <2>2. both \subseteq all
    BY <1>1
  <2>3. IsFiniteSet(both)
    <3>. HIDE DEF all, narrow
    <3>. QED BY <2>1, <2>2, FS_Subset
  <2>. QED BY <1>1, <2>1, <2>2, <2>3
<1>4. t = [objective |-> s.objective, window |-> s.window, samples |-> kept,
           all |-> all, narrow |-> narrow, cut |-> cut]
  BY DEF Appended
<1>5. ASSUME ~cut, NEW x \in all \ kept
      PROVE  narrow > 0 /\ x.time < Latest(all) - 2 * narrow
  <2>1. Latest(all) \in Nat /\ x.time \in Nat
    BY <1>3, LatestIs DEF Sample
  <2>2. CASE x \in both
    <3>1. x \notin inside
      BY <1>5
    <3>2. x.time < Cutoff(s, both) /\ Cutoff(s, both) \in Int
      <4>1. Cutoff(s, both) \in Int
        BY <1>2, <1>3, LatestIs DEF Cutoff
      <4>. QED BY <2>1, <2>2, <3>1, <4>1
    <3>3. s.window > 0 /\ Cutoff(s, both) = Latest(both) - 2 * s.window
      BY <2>1, <3>2 DEF Cutoff
    <3>4. Latest(both) \in Nat /\ Latest(both) <= Latest(all)
      <4>1. both \in SUBSET all
        BY <1>1, <1>3
      <4>. HIDE DEF all
      <4>. QED BY <1>3, <4>1, LatestGrows
    <3>5. narrow > 0 /\ narrow <= s.window
      BY <1>2, <3>3
    <3>. HIDE DEF all, narrow
    <3>. QED BY <1>2, <2>1, <3>2, <3>3, <3>4, <3>5
  <2>3. CASE x \notin both
    <3>1. x \in s.all \ s.samples /\ ~s.cut
      BY <1>5, <2>3
    <3>2. s.narrow > 0 /\ x.time < Latest(s.all) - 2 * s.narrow
      BY <3>1 DEF SeriesInv
    <3>3. Latest(s.all) \in Nat /\ Latest(s.all) <= Latest(all)
      <4>1. s.all \in SUBSET all
        BY <1>1, <1>3
      <4>. HIDE DEF all
      <4>. QED BY <1>3, <4>1, LatestGrows
    <3>4. narrow > 0 /\ narrow <= s.narrow
      BY <1>2, <3>2
    <3>. HIDE DEF all, narrow
    <3>. QED BY <1>2, <2>1, <3>2, <3>3, <3>4
  <2>. QED BY <2>2, <2>3
<1>6. \A x, y \in all : x.id = y.id => x = y
  BY <1>1
<1>7. kept \subseteq all /\ kept \in SUBSET Sample
  BY <1>2, <1>3
<1>8. t \in [objective : {<<0, 1>>, <<1, 2>>}, window : Nat, samples : SUBSET Sample,
             all : SUBSET Sample, narrow : Nat, cut : BOOLEAN]
  <2>1. s.objective \in {<<0, 1>>, <<1, 2>>}
    BY <1>1
  <2>. HIDE DEF all, cut, narrow
  <2>2. s.window \in Nat /\ kept \in SUBSET Sample /\ all \in SUBSET Sample
        /\ narrow \in Nat /\ cut \in BOOLEAN
    BY <1>2, <1>3, <1>7
  <2>. QED BY ONLY <1>4, <2>1, <2>2
<1>9. t.samples = kept /\ t.all = all /\ t.narrow = narrow /\ t.cut = cut
  BY ONLY <1>4
<1>. HIDE DEF all, cut, narrow
<1>. QED BY <1>3, <1>5, <1>6, <1>7, <1>8, <1>9 DEF SeriesInv

LEMMA AppendKeeps ==
  ASSUME SloInv, NEW p, AppendSamples(p)
  PROVE  SloInv'
<1>. DEFINE s == slos.series[p.name]
            new == {[id |-> p.id, time |-> x.time, good |-> x.good, total |-> x.total] : x \in p.req.samples}
            both == s.samples \cup new
            inside == {x \in both : x.time >= Cutoff(s, both)}
<1>1. p \in slos.posts /\ p.at = "append" /\ PostInv(p) /\ slos.sent \in Nat
  BY DEF AppendSamples, SloInv
<1>2. p.name \in DOMAIN slos.series /\ p.req \in SloRequests /\ p.id \in 0..slos.sent - 1
      /\ \A x \in s.all : x.id # p.id
  BY <1>1 DEF PostInv
<1>3. SeriesInv(s) /\ \A x \in s.all : x.id < slos.sent
  BY <1>2 DEF SloInv
<1>4. /\ new \in SUBSET Sample /\ IsFiniteSet(new)
      /\ \A x, y \in new : x = y
      /\ \A x \in new : x.id = p.id
  <2>1. CASE p.req.samples = {}
    <3>1. new = {}
      BY <2>1
    <3>. QED BY <3>1, FS_EmptySet
  <2>2. ASSUME NEW z \in [time : Nat, good : 0..1, total : {1}], p.req.samples = {z}
        PROVE  /\ new \in SUBSET Sample /\ IsFiniteSet(new)
               /\ \A x, y \in new : x = y
               /\ \A x \in new : x.id = p.id
    <3>. DEFINE y == [id |-> p.id, time |-> z.time, good |-> z.good, total |-> z.total]
    <3>1. new = {y}
      BY <2>2
    <3>2. y \in Sample
      BY <1>1, <1>2 DEF Sample
    <3>3. y.id = p.id
      OBVIOUS
    <3>. HIDE DEF new, y
    <3>. QED BY <3>1, <3>2, <3>3, FS_Singleton
  <2>. QED BY <1>2, <2>1, <2>2, RequestIs
<1>5. PICK kept \in SUBSET inside :
        slos' = [slos EXCEPT !.posts = Moves(p, "answer"), !.last = <<>>,
                   !.series[p.name] =
                      [s EXCEPT !.samples = kept, !.all = @ \cup new,
                                !.narrow = IF @ = 0 \/ (s.window > 0 /\ s.window < @)
                                           THEN s.window ELSE @,
                                !.cut = @ \/ kept # inside]]
  BY DEF AppendSamples
<1>6. PICK t : t = [s EXCEPT !.samples = kept, !.all = @ \cup new,
                             !.narrow = IF @ = 0 \/ (s.window > 0 /\ s.window < @)
                                        THEN s.window ELSE @,
                             !.cut = @ \/ kept # inside]
  OBVIOUS
<1>7. slos' = [series |-> [slos.series EXCEPT ![p.name] = t],
               posts |-> Moves(p, "answer"), sent |-> slos.sent, last |-> <<>>]
  <2>1. slos = [series |-> slos.series, posts |-> slos.posts, sent |-> slos.sent, last |-> slos.last]
    BY DEF SloInv
  <2>2. slos' = [slos EXCEPT !.posts = Moves(p, "answer"), !.last = <<>>, !.series[p.name] = t]
    BY <1>5, <1>6
  <2>. QED BY ONLY <2>1, <2>2
<1>8. SeriesInv(t) /\ t.all = s.all \cup new
  <2>. DEFINE narrow == IF s.narrow = 0 \/ (s.window > 0 /\ s.window < s.narrow)
                        THEN s.window ELSE s.narrow
              cut == s.cut \/ kept # inside
  <2>1. \A x \in new, y \in s.all : x.id # y.id
    BY <1>2, <1>4
  <2>3. s = [objective |-> s.objective, window |-> s.window, samples |-> s.samples,
             all |-> s.all, narrow |-> s.narrow, cut |-> s.cut]
    BY <1>3 DEF SeriesInv
  <2>. HIDE DEF SeriesInv, new, s, both, inside
  <2>4. t = [s EXCEPT !.samples = kept, !.all = s.all \cup new, !.narrow = narrow, !.cut = cut]
    BY <1>6
  <2>. HIDE DEF narrow, cut
  <2>7. t = [objective |-> s.objective, window |-> s.window, samples |-> kept,
             all |-> s.all \cup new, narrow |-> narrow, cut |-> cut]
    BY ONLY <2>3, <2>4
  <2>8. t.all = s.all \cup new
    BY ONLY <2>7
  <2>9. Appended(s, new, kept, t)
    BY <2>7 DEF Appended, narrow, cut, inside, both
  <2>. QED BY <1>3, <1>4, <2>1, <2>8, <2>9, AppendedSeries
<1>. HIDE DEF new
<1>9. \A x \in t.all : x \in slos.series[p.name].all \/ (x.id = p.id /\ "answer" = "answer")
  BY <1>4, <1>8
<1>10. \A x \in t.all : x.id < slos.sent
  <2>1. p.id < slos.sent
    BY <1>1, <1>2
  <2>. QED BY <1>3, <1>4, <1>8, <2>1
<1>11. "answer" \in {"append", "answer"} /\ p.at \in {"target", "append"}
  BY <1>1
<1>. HIDE DEF SeriesInv, PostInv, SloInv, s
<1>. QED BY <1>1, <1>7, <1>8, <1>9, <1>10, <1>11, MoveKeeps

LEMMA SloKeeps == SloInv /\ [SloNext]_sloVars => SloInv'
BY PostKeeps, SetTargetKeeps, AppendKeeps, AnswersKeep DEF SloNext

\* Reports tell what all the samples ever sent would tell as long as no series
\* was cut at its cap, and more errors never make one better (ServicesSpec).
THEOREM ReportsCorrect == ServicesSpec => []ReportsStand
<1>1. ServicesInit => SloInv
  BY SloStart DEF ServicesInit
<1>2. SloInv /\ [ServicesNext]_allVars => SloInv'
  BY Steps, SloKeeps
<1>3. SloInv => ReportsStand
  BY SloTells DEF ReportsStand
<1>. QED BY <1>1, <1>2, <1>3, PTL DEF ServicesSpec, allVars

-----------------------------------------------------------------------------
(* The dependency graph: the calls that an edge counts.                    *)

CallOf(edges, a, b) == GetOr(edges, <<a, b>>, NoCalls)
EdgesTyped(edges) ==
  \A k \in DOMAIN edges : /\ k \in Services \X Services
                          /\ edges[k].calls \in Nat /\ edges[k].errors \in Nat
                          /\ edges[k].durations \in 0..MaxDurations

\* The deliveries that tell a call, and those of them that failed.
ToldIn(got, a, b) ==
  {i \in DOMAIN got : got[i].service = b /\ \E j \in DOMAIN got : /\ got[j].id = got[i].parent
                                                                 /\ got[j].service = a}
FailedIn(got, S) == {i \in S : got[i].err}

\* One more call, or none, of each edge for each further delivery that tells it.
Grew(before, after, truth, more, failed, morefailed) ==
  \E d, f \in Nat : /\ after.calls = before.calls + d /\ Cardinality(more) = Cardinality(truth) + d
                    /\ after.errors = before.errors + f
                    /\ Cardinality(morefailed) = Cardinality(failed) + f
Grown(edges, later, got, N, M) ==
  \A a, b : a # b =>
    LET T == ToldIn(got, a, b) IN
    Grew(CallOf(edges, a, b), CallOf(later, a, b), T \cap N, T \cap M,
         FailedIn(got, T \cap N), FailedIn(got, T \cap M))

LEMMA CallTyped ==
  ASSUME NEW edges, EdgesTyped(edges), NEW a, NEW b
  PROVE  LET e == CallOf(edges, a, b) IN
         e.calls \in Nat /\ e.errors \in Nat /\ e.durations \in 0..MaxDurations
BY SizesAssumption DEF EdgesTyped, CallOf, GetOr, NoCalls

LEMMA EdgeAdded ==
  ASSUME NEW edges, EdgesTyped(edges), NEW caller, NEW callee, caller # callee.service,
         caller \in Services, callee.service \in Services
  PROVE  /\ EdgesTyped(AddEdge(edges, caller, callee))
         /\ \A a, b : LET e == CallOf(edges, a, b)
                          n == CallOf(AddEdge(edges, caller, callee), a, b) IN
              IF a = caller /\ b = callee.service
              THEN n.calls = e.calls + 1 /\ n.errors = e.errors + (IF callee.err THEN 1 ELSE 0)
              ELSE n = e
<1>. DEFINE key == <<caller, callee.service>>
            old == CallOf(edges, caller, callee.service)
            new == [calls |-> old.calls + 1,
                    errors |-> old.errors + (IF callee.err THEN 1 ELSE 0),
                    durations |-> IF callee.timed /\ old.durations < MaxDurations
                                  THEN old.durations + 1 ELSE old.durations]
<1>1. AddEdge(edges, caller, callee) = Updated(edges, key, new)
  BY DEF AddEdge, CallOf
<1>2. old.calls \in Nat /\ old.errors \in Nat /\ old.durations \in 0..MaxDurations
  BY CallTyped
<1>3. new.calls = old.calls + 1 /\ new.errors = old.errors + (IF callee.err THEN 1 ELSE 0)
      /\ new.calls \in Nat /\ new.errors \in Nat /\ new.durations \in 0..MaxDurations
  BY <1>2, SizesAssumption
<1>. HIDE DEF new
<1>4. EdgesTyped(Updated(edges, key, new))
  BY <1>3 DEF EdgesTyped, Updated
<1>5. ASSUME NEW a, NEW b, ~(a = caller /\ b = callee.service)
      PROVE  CallOf(Updated(edges, key, new), a, b) = CallOf(edges, a, b)
  <2>1. <<a, b>> # key
    BY <1>5
  <2>. HIDE DEF key
  <2>. QED BY <2>1 DEF CallOf, Updated, GetOr
<1>6. CallOf(Updated(edges, key, new), caller, callee.service) = new
  BY DEF CallOf, Updated, GetOr
<1>. QED BY <1>1, <1>3, <1>4, <1>5, <1>6

\* One more delivery that tells a call.
LEMMA CallTold ==
  ASSUME NEW got \in Seq(Spans), NEW N \in SUBSET DOMAIN got, NEW i \in DOMAIN got \ N,
         NEW j \in DOMAIN got, got[j].id = got[i].parent,
         NEW edges, EdgesTyped(edges)
  PROVE  LET later == AddEdge(edges, got[j].service, got[i]) IN
         EdgesTyped(later) /\ Grown(edges, later, got, N, N \cup {i})
<1>. DEFINE caller == got[j].service
            callee == got[i]
            later == AddEdge(edges, caller, callee)
            M == N \cup {i}
<1>0. caller \in Services /\ callee.service \in Services
  <2>1. got[i] \in Spans /\ got[j] \in Spans
    BY LenProperties
  <2>. QED BY <2>1 DEF Services
<1>1. IsFiniteSet(DOMAIN got)
  BY FS_Interval, LenProperties
<1>2. EdgesTyped(later)
  BY <1>0, EdgeAdded DEF AddEdge
<1>3. ASSUME NEW a, NEW b, a # b
      PROVE  LET T == ToldIn(got, a, b) IN
             Grew(CallOf(edges, a, b), CallOf(later, a, b), T \cap N, T \cap M,
                  FailedIn(got, T \cap N), FailedIn(got, T \cap M))
  <2>. DEFINE T == ToldIn(got, a, b)
              e == CallOf(edges, a, b)
              n == CallOf(later, a, b)
  <2>1. /\ IsFiniteSet(T \cap N) /\ IsFiniteSet(FailedIn(got, T \cap N))
        /\ Cardinality(T \cap N) \in Nat /\ Cardinality(FailedIn(got, T \cap N)) \in Nat
    <3>1. T \cap N \subseteq DOMAIN got /\ FailedIn(got, T \cap N) \subseteq DOMAIN got
      BY DEF ToldIn, FailedIn
    <3>. QED BY <1>1, <3>1, FS_Subset, FS_CardinalityType
  <2>2. e.calls \in Nat /\ e.errors \in Nat
    BY CallTyped
  <2>3. CASE a = caller /\ b = callee.service
    <3>1. n.calls = e.calls + 1 /\ n.errors = e.errors + (IF callee.err THEN 1 ELSE 0)
      BY <1>0, <1>3, <2>3, EdgeAdded
    <3>2. i \in T
      BY <2>3 DEF ToldIn
    <3>. HIDE DEF T
    <3>3. T \cap M = (T \cap N) \cup {i} /\ i \notin T \cap N
      BY <3>2
    <3>4. Cardinality(T \cap M) = Cardinality(T \cap N) + 1
      BY <2>1, <3>3, FS_AddElement
    <3>5. CASE callee.err
      <4>1. FailedIn(got, T \cap M) = FailedIn(got, T \cap N) \cup {i} /\ i \notin FailedIn(got, T \cap N)
        BY <3>3, <3>5 DEF FailedIn
      <4>2. Cardinality(FailedIn(got, T \cap M)) = Cardinality(FailedIn(got, T \cap N)) + 1
        BY <2>1, <4>1, FS_AddElement
      <4>3. n.errors = e.errors + 1
        BY <3>1, <3>5
      <4>. HIDE DEF n, e
      <4>. QED BY <3>1, <3>4, <4>2, <4>3 DEF Grew, n, e, T
    <3>6. CASE ~callee.err
      <4>1. FailedIn(got, T \cap M) = FailedIn(got, T \cap N)
        BY <3>3, <3>6 DEF FailedIn
      <4>2. n.errors = e.errors + 0 /\ Cardinality(FailedIn(got, T \cap M)) = Cardinality(FailedIn(got, T \cap N)) + 0
        BY <2>1, <2>2, <3>1, <3>6, <4>1
      <4>. HIDE DEF n, e
      <4>. QED BY <3>1, <3>4, <4>2 DEF Grew, n, e, T
    <3>. QED BY <3>5, <3>6
  <2>4. CASE ~(a = caller /\ b = callee.service)
    <3>1. n = e
      BY <1>0, <2>4, EdgeAdded DEF AddEdge
    <3>2. i \notin T
      <4>. SUFFICES ASSUME i \in T PROVE FALSE
        OBVIOUS
      <4>1. PICK k \in DOMAIN got : got[k].id = got[i].parent /\ got[k].service = a
        BY DEF ToldIn
      <4>2. got[k] = got[j]
        BY <4>1, SpansAssumption
      <4>3. got[i].service = b
        BY DEF ToldIn
      <4>. QED BY <2>4, <4>1, <4>2, <4>3
    <3>. HIDE DEF T
    <3>3. T \cap M = T \cap N
      BY <3>2
    <3>4. /\ n.calls = e.calls + 0 /\ Cardinality(T \cap M) = Cardinality(T \cap N) + 0
          /\ n.errors = e.errors + 0
          /\ Cardinality(FailedIn(got, T \cap M)) = Cardinality(FailedIn(got, T \cap N)) + 0
      <4>1. FailedIn(got, T \cap M) = FailedIn(got, T \cap N)
        BY <3>3
      <4>2. \A x \in Nat : x = x + 0
        OBVIOUS
      <4>. HIDE DEF n, e, M
      <4>. QED BY <2>1, <2>2, <3>1, <3>3, <4>1, <4>2
    <3>. HIDE DEF n, e, M
    <3>. QED BY <3>4 DEF Grew, n, e, T
  <2>. QED BY <2>3, <2>4
<1>. QED BY <1>2, <1>3 DEF Grown

LEMMA GrownTwice ==
  ASSUME NEW got, NEW N, NEW M, NEW L, NEW e, NEW f, NEW g,
         EdgesTyped(e), EdgesTyped(f), EdgesTyped(g), IsFiniteSet(DOMAIN got),
         Grown(e, f, got, N, M), Grown(f, g, got, M, L)
  PROVE  Grown(e, g, got, N, L)
<1>. SUFFICES ASSUME NEW a, NEW b, a # b
              PROVE  LET T == ToldIn(got, a, b) IN
                     Grew(CallOf(e, a, b), CallOf(g, a, b), T \cap N, T \cap L,
                          FailedIn(got, T \cap N), FailedIn(got, T \cap L))
  BY DEF Grown
<1>. DEFINE T == ToldIn(got, a, b)
<1>1. /\ Grew(CallOf(e, a, b), CallOf(f, a, b), T \cap N, T \cap M, FailedIn(got, T \cap N), FailedIn(got, T \cap M))
      /\ Grew(CallOf(f, a, b), CallOf(g, a, b), T \cap M, T \cap L, FailedIn(got, T \cap M), FailedIn(got, T \cap L))
  BY DEF Grown
<1>2. /\ CallOf(e, a, b).calls \in Nat /\ CallOf(e, a, b).errors \in Nat
  BY CallTyped
<1>3. Cardinality(T \cap N) \in Nat /\ Cardinality(FailedIn(got, T \cap N)) \in Nat
  <2>1. T \cap N \subseteq DOMAIN got /\ FailedIn(got, T \cap N) \subseteq DOMAIN got
    BY DEF ToldIn, FailedIn
  <2>. QED BY <2>1, FS_Subset, FS_CardinalityType
<1>. DEFINE x == CallOf(e, a, b).calls
            y == CallOf(e, a, b).errors
            u == Cardinality(T \cap N)
            v == Cardinality(FailedIn(got, T \cap N))
<1>4. PICK d \in Nat, k \in Nat :
        /\ CallOf(f, a, b).calls = x + d /\ Cardinality(T \cap M) = u + d
        /\ CallOf(f, a, b).errors = y + k /\ Cardinality(FailedIn(got, T \cap M)) = v + k
  BY <1>1 DEF Grew
<1>5. PICK d2 \in Nat, k2 \in Nat :
        /\ CallOf(g, a, b).calls = CallOf(f, a, b).calls + d2 /\ Cardinality(T \cap L) = Cardinality(T \cap M) + d2
        /\ CallOf(g, a, b).errors = CallOf(f, a, b).errors + k2
        /\ Cardinality(FailedIn(got, T \cap L)) = Cardinality(FailedIn(got, T \cap M)) + k2
  BY <1>1 DEF Grew
<1>6. /\ CallOf(g, a, b).calls = x + (d + d2) /\ Cardinality(T \cap L) = u + (d + d2)
      /\ CallOf(g, a, b).errors = y + (k + k2) /\ Cardinality(FailedIn(got, T \cap L)) = v + (k + k2)
      /\ d + d2 \in Nat /\ k + k2 \in Nat
  <2>1. x \in Nat /\ y \in Nat /\ u \in Nat /\ v \in Nat
    BY <1>2, <1>3
  <2>. HIDE DEF x, y, u, v, T
  <2>. QED BY <1>4, <1>5, <2>1
<1>. QED BY <1>6 DEF Grew

\* Calls of one service, one after the other.
IsCalls(g, n, edges, service, kids) ==
  g = [i \in 0..n |-> IF i = 0 THEN edges ELSE AddEdge(g[i - 1], service, kids[i])]

LEMMA CallsExist ==
  ASSUME NEW edges, NEW service, NEW kids, NEW n \in Nat
  PROVE  \E g : IsCalls(g, n, edges, service, kids)
<1>. DEFINE Bad == {i \in Nat : ~ \E g : IsCalls(g, i, edges, service, kids)}
<1>1. Bad = {}
  <2>. SUFFICES ASSUME Bad # {} PROVE FALSE
    OBVIOUS
  <2>1. PICK i \in Bad : \A j \in Bad : i <= j
    <3>. HIDE DEF Bad
    <3>1. Bad \in SUBSET Nat
      BY DEF Bad
    <3>. QED BY <3>1, LeastIn
  <2>2. i \in Nat /\ ~ \E g : IsCalls(g, i, edges, service, kids)
    BY <2>1
  <2>3. CASE i = 0
    <3>. DEFINE g == [j \in 0..0 |-> edges]
    <3>1. g = [j \in 0..0 |-> IF j = 0 THEN edges ELSE AddEdge(g[j - 1], service, kids[j])]
      OBVIOUS
    <3>. QED BY <2>2, <2>3, <3>1 DEF IsCalls
  <2>4. CASE i # 0
    <3>. DEFINE p == i - 1
    <3>1. p \in Nat /\ p + 1 = i /\ p \notin Bad
      BY <2>1, <2>2, <2>4
    <3>2. PICK g : IsCalls(g, p, edges, service, kids)
      BY <3>1
    <3>. HIDE DEF p, Bad
    <3>. DEFINE final == AddEdge(g[p], service, kids[i])
                h == [j \in 0..i |-> IF j = i THEN final ELSE g[j]]
    <3>3. \A j \in 0..p : g[j] = IF j = 0 THEN edges ELSE AddEdge(g[j - 1], service, kids[j])
      BY <3>2 DEF IsCalls
    <3>4. ASSUME NEW j \in 0..i
          PROVE  h[j] = IF j = 0 THEN edges ELSE AddEdge(h[j - 1], service, kids[j])
      <4>1. CASE j = i
        <5>1. j # 0 /\ j - 1 = p /\ p \in 0..i /\ p # i
          BY <2>4, <3>1, <4>1
        <5>2. h[p] = g[p] /\ h[j] = final
          BY <4>1, <5>1
        <5>. HIDE DEF h
        <5>. QED BY <4>1, <5>1, <5>2
      <4>2. CASE j # i /\ j # 0
        <5>1. j \in 0..p /\ j - 1 \in 0..i /\ j - 1 # i
          BY <3>1, <4>2
        <5>2. h[j] = g[j] /\ h[j - 1] = g[j - 1]
          BY <4>2, <5>1
        <5>. HIDE DEF h
        <5>. QED BY <3>3, <4>2, <5>1, <5>2
      <4>3. CASE j # i /\ j = 0
        <5>1. j \in 0..p
          BY <3>1, <4>3
        <5>2. h[j] = g[j]
          BY <4>3
        <5>. HIDE DEF h
        <5>. QED BY <3>3, <4>3, <5>1, <5>2
      <4>. QED BY <4>1, <4>2, <4>3
    <3>5. h = [j \in 0..i |-> h[j]]
      OBVIOUS
    <3>. HIDE DEF h
    <3>6. h = [j \in 0..i |-> IF j = 0 THEN edges ELSE AddEdge(h[j - 1], service, kids[j])]
      BY <3>4, <3>5
    <3>. QED BY <2>2, <3>6 DEF IsCalls
  <2>. QED BY <2>3, <2>4
<1>. QED BY <1>1

LEMMA CallsAre ==
  ASSUME NEW edges, NEW service, NEW kids, Len(kids) \in Nat
  PROVE  \E g : IsCalls(g, Len(kids), edges, service, kids) /\ CalledBy(edges, service, kids) = g[Len(kids)]
<1>. DEFINE g == CHOOSE x : IsCalls(x, Len(kids), edges, service, kids)
<1>1. IsCalls(g, Len(kids), edges, service, kids)
  BY CallsExist
<1>2. CalledBy(edges, service, kids) = g[Len(kids)]
  BY DEF CalledBy, IsCalls
<1>. HIDE DEF g
<1>. QED BY <1>1, <1>2

\* Deliveries that wait for the span that delivery j brings: at[k] is the k-th.
AllWaited(got, N, at, n, j) ==
  /\ N \in SUBSET DOMAIN got /\ at \in [1..n -> DOMAIN got \ N]
  /\ \A k, m \in 1..n : at[k] = at[m] => k = m
  /\ j \in DOMAIN got /\ \A k \in 1..n : got[at[k]].parent = got[j].id
UpTo(N, at, m) == N \cup {at[k] : k \in 1..m}

LEMMA KidsTold ==
  ASSUME NEW got \in Seq(Spans), NEW N, NEW at, NEW n \in Nat, NEW j, AllWaited(got, N, at, n, j),
         NEW edges, EdgesTyped(edges), NEW kids, \A k \in 1..n : kids[k] = got[at[k]],
         NEW g, IsCalls(g, n, edges, got[j].service, kids)
  PROVE  EdgesTyped(g[n]) /\ Grown(edges, g[n], got, N, UpTo(N, at, n))
<1>. DEFINE Fine(m) == EdgesTyped(g[m]) /\ Grown(edges, g[m], got, N, UpTo(N, at, m))
            Bad == {m \in 0..n : ~Fine(m)}
<1>0. IsFiniteSet(DOMAIN got)
  BY FS_Interval, LenProperties
<1>1. \A m \in 0..n : g[m] = IF m = 0 THEN edges ELSE AddEdge(g[m - 1], got[j].service, kids[m])
  BY DEF IsCalls
<1>2. Bad = {}
  <2>. SUFFICES ASSUME Bad # {} PROVE FALSE
    OBVIOUS
  <2>1. PICK i \in Bad : \A m \in Bad : i <= m
    <3>. HIDE DEF Bad
    <3>1. Bad \in SUBSET Nat
      BY DEF Bad
    <3>. QED BY <3>1, LeastIn
  <2>2. i \in 0..n /\ ~Fine(i)
    BY <2>1
  <2>3. CASE i = 0
    <3>1. g[i] = edges /\ UpTo(N, at, i) = N
      BY <1>1, <2>2, <2>3 DEF UpTo
    <3>2. Grown(edges, edges, got, N, N)
      <4>. SUFFICES ASSUME NEW a, NEW b, a # b
                    PROVE  LET T == ToldIn(got, a, b) IN
                           Grew(CallOf(edges, a, b), CallOf(edges, a, b), T \cap N, T \cap N,
                                FailedIn(got, T \cap N), FailedIn(got, T \cap N))
        BY DEF Grown
      <4>. DEFINE T == ToldIn(got, a, b)
      <4>1. T \cap N \subseteq DOMAIN got /\ FailedIn(got, T \cap N) \subseteq DOMAIN got
        BY DEF ToldIn, FailedIn
      <4>2. Cardinality(T \cap N) \in Nat /\ Cardinality(FailedIn(got, T \cap N)) \in Nat
        BY <1>0, <4>1, FS_Subset, FS_CardinalityType
      <4>3. CallOf(edges, a, b).calls \in Nat /\ CallOf(edges, a, b).errors \in Nat
        BY CallTyped
      <4>4. /\ CallOf(edges, a, b).calls = CallOf(edges, a, b).calls + 0
            /\ CallOf(edges, a, b).errors = CallOf(edges, a, b).errors + 0
            /\ Cardinality(T \cap N) = Cardinality(T \cap N) + 0
            /\ Cardinality(FailedIn(got, T \cap N)) = Cardinality(FailedIn(got, T \cap N)) + 0
        BY <4>2, <4>3
      <4>. QED BY <4>4 DEF Grew
    <3>. QED BY <2>2, <3>1, <3>2
  <2>4. CASE i # 0
    <3>. DEFINE p == i - 1
    <3>1. p \in 0..n /\ p \notin Bad /\ i \in 1..n /\ p + 1 = i
      BY <2>1, <2>2, <2>4
    <3>2. Fine(p)
      BY <3>1
    <3>3. g[i] = AddEdge(g[p], got[j].service, got[at[i]])
      BY <1>1, <2>4, <3>1
    <3>. HIDE DEF p
    <3>4. at[i] \in DOMAIN got \ UpTo(N, at, p) /\ UpTo(N, at, p) \in SUBSET DOMAIN got
      BY <3>1 DEF AllWaited, UpTo
    <3>5. UpTo(N, at, i) = UpTo(N, at, p) \cup {at[i]}
      <4>1. 1..i = 1..p \cup {i}
        BY <3>1
      <4>. QED BY <4>1 DEF UpTo
    <3>6. j \in DOMAIN got /\ got[j].id = got[at[i]].parent
      BY <3>1 DEF AllWaited
    <3>7. EdgesTyped(g[i]) /\ Grown(g[p], g[i], got, UpTo(N, at, p), UpTo(N, at, i))
      <4>. DEFINE L == UpTo(N, at, p)
                  x == at[i]
                  later == AddEdge(g[p], got[j].service, got[x])
      <4>1. L \in SUBSET DOMAIN got /\ x \in DOMAIN got \ L /\ EdgesTyped(g[p])
            /\ got[j].id = got[x].parent /\ j \in DOMAIN got
        BY <3>2, <3>4, <3>6
      <4>. HIDE DEF L, x
      <4>2. EdgesTyped(later) /\ Grown(g[p], later, got, L, L \cup {x})
        BY <4>1, CallTold
      <4>. QED BY <3>3, <3>5, <4>2 DEF L, x
    <3>. QED BY <1>0, <2>2, <3>2, <3>7, GrownTwice
  <2>. QED BY <2>3, <2>4
<1>. QED BY <1>2

-----------------------------------------------------------------------------
(* The index of spans.                                                     *)

SpanIds == {s.id : s \in Spans}
Indexed(fifo, spans, got) ==
  /\ fifo \in Seq(SpanIds) /\ Len(fifo) <= MaxSpans /\ Len(fifo) <= Len(got)
  /\ \A p \in DOMAIN spans : \E i \in 1..Len(fifo) : fifo[i] = p
  /\ \A i \in 1..Len(fifo) : fifo[i] \in DOMAIN spans
  /\ \A i, j \in 1..Len(fifo) : fifo[i] = fifo[j] => i = j
  /\ \A p \in DOMAIN spans : spans[p].id = p /\ \E j \in DOMAIN got : got[j] = spans[p]

\* The index in which s is found, before the oldest id leaves.
IndexFound(all, known, spans, got, s) ==
  /\ all \in Seq(SpanIds) /\ Len(all) \in 1..MaxSpans + 1 /\ Len(all) <= Len(got) + 1
  /\ \A p \in DOMAIN known : \E i \in 1..Len(all) : all[i] = p
  /\ \A i \in 1..Len(all) : all[i] \in DOMAIN known
  /\ \A i, j \in 1..Len(all) : all[i] = all[j] => i = j
  /\ \A p \in DOMAIN known : /\ known[p].id = p
                             /\ \E j \in DOMAIN Append(got, s) : Append(got, s)[j] = known[p]
  /\ DOMAIN known = DOMAIN spans \cup {s.id}
  /\ Len(all) = MaxSpans + 1 => all[1] # s.id
LEMMA IndexKnows ==
  ASSUME NEW fifo, NEW spans, NEW got \in Seq(Spans), NEW s \in Spans, Indexed(fifo, spans, got),
         NEW all, NEW known,
         all = (IF s.id \in DOMAIN spans THEN fifo ELSE Append(fifo, s.id)),
         known = Updated(spans, s.id, s)
  PROVE  IndexFound(all, known, spans, got, s)
<1>1. /\ fifo \in Seq(SpanIds) /\ Len(fifo) \in Nat /\ Len(fifo) <= MaxSpans /\ Len(fifo) <= Len(got)
      /\ MaxSpans \in Nat \ {0} /\ Len(got) \in Nat /\ s.id \in SpanIds
  BY SizesAssumption, LenProperties DEF Indexed, SpanIds
<1>2. DOMAIN known = DOMAIN spans \cup {s.id}
      /\ \A p \in DOMAIN known : known[p] = IF p = s.id THEN s ELSE spans[p]
  BY DEF Updated
<1>3. /\ Append(got, s) \in Seq(Spans) /\ Len(Append(got, s)) = Len(got) + 1
      /\ \A j \in 1..Len(got) : Append(got, s)[j] = got[j]
      /\ Append(got, s)[Len(got) + 1] = s
      /\ DOMAIN Append(got, s) = 1..Len(got) + 1 /\ DOMAIN got = 1..Len(got)
  <2>1. Append(got, s) \in Seq(Spans) /\ Len(Append(got, s)) = Len(got) + 1
    BY AppendProperties
  <2>. QED BY <2>1, AppendProperties, LenProperties
<1>4. \A p \in DOMAIN known : /\ known[p].id = p
                              /\ \E j \in DOMAIN Append(got, s) : Append(got, s)[j] = known[p]
  <2>. SUFFICES ASSUME NEW p \in DOMAIN known
                PROVE  known[p].id = p /\ \E j \in 1..Len(got) + 1 : Append(got, s)[j] = known[p]
    BY <1>3
  <2>1. CASE p = s.id
    <3>1. Len(got) + 1 \in 1..Len(got) + 1
      BY <1>1
    <3>. QED BY <1>2, <1>3, <2>1, <3>1
  <2>2. CASE p # s.id
    <3>1. p \in DOMAIN spans /\ known[p] = spans[p]
      BY <1>2, <2>2
    <3>2. PICK j \in 1..Len(got) : got[j] = spans[p]
      BY <1>3, <3>1 DEF Indexed
    <3>3. j \in 1..Len(got) + 1 /\ Append(got, s)[j] = known[p]
      BY <1>1, <1>3, <3>1, <3>2
    <3>. QED BY <3>1, <3>3 DEF Indexed
  <2>. QED BY <2>1, <2>2
<1>5. CASE s.id \in DOMAIN spans
  <2>1. all = fifo /\ DOMAIN known = DOMAIN spans
    BY <1>2, <1>5
  <2>2. PICK m \in 1..Len(fifo) : fifo[m] = s.id
    BY <1>5 DEF Indexed
  <2>3. Len(all) \in 1..MaxSpans + 1 /\ Len(all) <= Len(got) + 1 /\ Len(all) # MaxSpans + 1
    BY <1>1, <2>1, <2>2
  <2>4. /\ \A p \in DOMAIN known : \E i \in 1..Len(all) : all[i] = p
        /\ \A i \in 1..Len(all) : all[i] \in DOMAIN known
        /\ \A i, j \in 1..Len(all) : all[i] = all[j] => i = j
    BY <2>1 DEF Indexed
  <2>. QED BY <1>1, <1>2, <1>4, <2>1, <2>3, <2>4 DEF IndexFound
<1>6. CASE s.id \notin DOMAIN spans
  <2>1. /\ all \in Seq(SpanIds) /\ Len(all) = Len(fifo) + 1
        /\ \A i \in 1..Len(fifo) : all[i] = fifo[i]
        /\ all[Len(fifo) + 1] = s.id
    BY <1>1, <1>6, AppendProperties
  <2>2. \A p \in DOMAIN known : \E i \in 1..Len(all) : all[i] = p
    <3>. SUFFICES ASSUME NEW p \in DOMAIN known PROVE \E i \in 1..Len(all) : all[i] = p
      OBVIOUS
    <3>1. CASE p = s.id
      <4>1. Len(fifo) + 1 \in 1..Len(all)
        BY <1>1, <2>1
      <4>. QED BY <2>1, <3>1, <4>1
    <3>2. CASE p # s.id
      <4>1. PICK i \in 1..Len(fifo) : fifo[i] = p
        BY <1>2, <3>2 DEF Indexed
      <4>. QED BY <1>1, <2>1, <4>1
    <3>. QED BY <3>1, <3>2
  <2>3. \A i \in 1..Len(all) : \/ i \in 1..Len(fifo) /\ all[i] = fifo[i] /\ fifo[i] \in DOMAIN spans
                               \/ i = Len(fifo) + 1 /\ all[i] = s.id
    BY <1>1, <2>1 DEF Indexed
  <2>4. \A i \in 1..Len(all) : all[i] \in DOMAIN known
    BY <1>2, <2>3
  <2>5. \A i, j \in 1..Len(all) : all[i] = all[j] => i = j
    BY <1>6, <2>3 DEF Indexed
  <2>6. Len(all) \in 1..MaxSpans + 1 /\ Len(all) <= Len(got) + 1
    BY <1>1, <2>1
  <2>7. Len(all) = MaxSpans + 1 => all[1] # s.id
    <3>1. Len(all) = MaxSpans + 1 => 1 \in 1..Len(fifo)
      BY <1>1, <2>1
    <3>2. 1 \in 1..Len(fifo) => all[1] \in DOMAIN spans
      BY <2>1 DEF Indexed
    <3>. QED BY <1>6, <3>1, <3>2
  <2>. QED BY <1>2, <1>4, <2>1, <2>2, <2>4, <2>5, <2>6, <2>7 DEF IndexFound
<1>. QED BY <1>5, <1>6

GraphFields == {"nodes", "edges", "spans", "fifo", "orphans", "orphanCount"}
LEMMA SpanIndexed ==
  ASSUME NEW g, DOMAIN g = GraphFields, NEW got \in Seq(Spans), NEW s \in Spans,
         Indexed(g.fifo, g.spans, got)
  PROVE  LET h == IndexSpan(g, s) IN
         /\ DOMAIN h = GraphFields /\ h.edges = g.edges /\ h.orphans = g.orphans
         /\ h.orphanCount = g.orphanCount
         /\ Indexed(h.fifo, h.spans, Append(got, s)) /\ s.id \in DOMAIN h.spans
         /\ DOMAIN h.spans \subseteq DOMAIN g.spans \cup {s.id}
         /\ Len(got) + 1 <= MaxSpans => DOMAIN h.spans = DOMAIN g.spans \cup {s.id}
<1>. DEFINE h == IndexSpan(g, s)
            known == Updated(g.spans, s.id, s)
            all == IF s.id \in DOMAIN g.spans THEN g.fifo ELSE Append(g.fifo, s.id)
            drop == IF Len(all) > MaxSpans THEN Len(all) - MaxSpans ELSE 0
            gone == {all[i] : i \in 1..drop}
            kept == SubSeq(all, drop + 1, Len(all))
<1>1. h = [g EXCEPT !.fifo = kept, !.spans = Without(known, gone)]
  BY DEF IndexSpan
<1>2. /\ DOMAIN h = GraphFields /\ h.edges = g.edges /\ h.orphans = g.orphans
      /\ h.orphanCount = g.orphanCount /\ h.fifo = kept /\ h.spans = Without(known, gone)
  <2>. HIDE DEF kept, known, gone
  <2>. QED BY <1>1 DEF GraphFields
<1>3. /\ all \in Seq(SpanIds) /\ Len(all) \in 1..MaxSpans + 1 /\ Len(all) <= Len(got) + 1
      /\ \A p \in DOMAIN known : \E i \in 1..Len(all) : all[i] = p
      /\ \A i \in 1..Len(all) : all[i] \in DOMAIN known
      /\ \A i, j \in 1..Len(all) : all[i] = all[j] => i = j
      /\ \A p \in DOMAIN known : /\ known[p].id = p
                                 /\ \E j \in DOMAIN Append(got, s) : Append(got, s)[j] = known[p]
      /\ DOMAIN known = DOMAIN g.spans \cup {s.id}
      /\ Len(all) = MaxSpans + 1 => all[1] # s.id
  <2>1. PICK f, p : f = g.fifo /\ p = g.spans
    OBVIOUS
  <2>. DEFINE x == IF s.id \in DOMAIN p THEN f ELSE Append(f, s.id)
              y == Updated(p, s.id, s)
  <2>2. x = all /\ y = known
    BY <2>1
  <2>3. Indexed(f, p, got)
    BY <2>1
  <2>. HIDE DEF all, known
  <2>4. PICK x1, y1 : x1 = x /\ y1 = y
    OBVIOUS
  <2>5. IndexFound(x1, y1, p, got, s)
    BY <2>3, <2>4, IndexKnows
  <2>. HIDE DEF x, y
  <2>. QED BY <2>1, <2>2, <2>4, <2>5 DEF IndexFound
<1>4. MaxSpans \in Nat \ {0} /\ Len(got) \in Nat /\ Len(Append(got, s)) = Len(got) + 1
  BY SizesAssumption, LenProperties, AppendProperties
<1>. HIDE DEF all, known, h
<1>5. drop \in 0..1 /\ Len(all) - drop \in 1..MaxSpans /\ (drop = 1 => Len(all) = MaxSpans + 1)
      /\ (Len(got) + 1 <= MaxSpans => drop = 0)
  BY <1>3, <1>4
<1>. HIDE DEF drop
<1>6. /\ kept \in Seq(SpanIds) /\ Len(kept) = Len(all) - drop
      /\ \A i \in 1..Len(kept) : kept[i] = all[drop + i] /\ drop + i \in 1..Len(all)
  <2>1. \A i \in drop + 1..Len(all) : all[i] \in SpanIds
    BY <1>3, <1>5, ElementOfSeq
  <2>2. drop + 1 \in Int /\ Len(all) \in Int /\ Len(all) - (drop + 1) + 1 = Len(all) - drop
        /\ drop + 1 <= Len(all)
    BY <1>3, <1>5
  <2>3. /\ kept \in Seq(SpanIds) /\ Len(kept) = Len(all) - drop
        /\ \A i \in 1..Len(all) - drop : kept[i] = all[(drop + 1) + i - 1]
    BY <2>1, <2>2, SubSeqProperties
  <2>4. \A i \in 1..Len(all) - drop : (drop + 1) + i - 1 = drop + i /\ drop + i \in 1..Len(all)
    BY <1>3, <1>5
  <2>. QED BY <2>3, <2>4
<1>. HIDE DEF kept
<1>7. gone = (IF drop = 1 THEN {all[1]} ELSE {}) /\ s.id \notin gone
  <2>1. CASE drop = 1
    <3>1. 1..drop = {1}
      BY <2>1
    <3>. QED BY <1>3, <1>5, <2>1, <3>1
  <2>2. CASE drop = 0
    <3>1. 1..drop = {}
      BY <2>2
    <3>. QED BY <2>2, <3>1
  <2>. QED BY <1>5, <2>1, <2>2
<1>8. DOMAIN h.spans = DOMAIN known \ gone /\ \A p \in DOMAIN h.spans : h.spans[p] = known[p]
  BY <1>2 DEF Without
<1>9. \A p \in DOMAIN h.spans : \E i \in 1..Len(kept) : kept[i] = p
  <2>. SUFFICES ASSUME NEW p \in DOMAIN h.spans PROVE \E i \in 1..Len(kept) : kept[i] = p
    OBVIOUS
  <2>1. PICK i \in 1..Len(all) : all[i] = p
    BY <1>3, <1>8
  <2>2. ~(drop = 1 /\ i = 1)
    BY <1>7, <1>8, <2>1
  <2>3. i - drop \in 1..Len(kept) /\ drop + (i - drop) = i
    BY <1>3, <1>5, <1>6, <2>2
  <2>4. kept[i - drop] = p
    BY <1>6, <2>1, <2>3
  <2>. QED BY <2>3, <2>4
<1>10. \A i \in 1..Len(kept) : kept[i] \in DOMAIN h.spans
  <2>. SUFFICES ASSUME NEW i \in 1..Len(kept) PROVE kept[i] \in DOMAIN h.spans
    OBVIOUS
  <2>1. kept[i] = all[drop + i] /\ drop + i \in 1..Len(all)
    BY <1>6
  <2>2. drop = 1 => drop + i # 1 /\ 1 \in 1..Len(all)
    BY <1>3, <1>5, <1>6
  <2>3. kept[i] \notin gone
    <3>1. CASE drop = 1
      <4>1. all[drop + i] # all[1]
        BY <1>3, <2>1, <2>2, <3>1
      <4>. QED BY <1>7, <2>1, <3>1, <4>1
    <3>2. CASE drop # 1
      BY <1>7, <3>2
    <3>. QED BY <3>1, <3>2
  <2>. QED BY <1>3, <1>8, <2>1, <2>3
<1>11. \A i, j \in 1..Len(kept) : kept[i] = kept[j] => i = j
  <2>. SUFFICES ASSUME NEW i \in 1..Len(kept), NEW j \in 1..Len(kept), kept[i] = kept[j] PROVE i = j
    OBVIOUS
  <2>1. drop + i = drop + j
    BY <1>3, <1>6
  <2>. QED BY <1>5, <2>1
<1>12. Indexed(h.fifo, h.spans, Append(got, s))
  <2>1. Len(kept) <= MaxSpans /\ Len(kept) <= Len(Append(got, s))
    BY <1>3, <1>4, <1>5, <1>6
  <2>2. \A p \in DOMAIN h.spans : /\ h.spans[p].id = p
                                  /\ \E j \in DOMAIN Append(got, s) : Append(got, s)[j] = h.spans[p]
    BY <1>3, <1>8
  <2>. HIDE DEF gone
  <2>. QED BY <1>2, <1>6, <1>9, <1>10, <1>11, <2>1, <2>2 DEF Indexed
<1>13. Len(got) + 1 <= MaxSpans => gone = {}
  BY <1>5, <1>7
<1>. QED BY <1>2, <1>3, <1>7, <1>8, <1>12, <1>13 DEF h
-----------------------------------------------------------------------------
(* The spans that wait: w says which delivery each of them is.             *)
WaitsOn(orphans, count, got, w) ==
  /\ NoSpan \notin DOMAIN orphans
  /\ \A p \in DOMAIN orphans : orphans[p] \in Seq(Spans)
  /\ w \in [WaitingFor(orphans, DOMAIN orphans) -> DOMAIN got]
  /\ \A x, y \in DOMAIN w : w[x] = w[y] => x = y
  /\ \A x \in DOMAIN w : got[w[x]] = orphans[x[1]][x[2]] /\ got[w[x]].parent = x[1]
  /\ IsFiniteSet(DOMAIN w) /\ count = Cardinality(DOMAIN w)
Places(w, S) == {w[x] : x \in S}
Settled(got, w) == DOMAIN got \ Places(w, DOMAIN w)

LEMMA WaitingAre ==
  ASSUME NEW orphans, NEW parents
  PROVE  \A x : x \in WaitingFor(orphans, parents) <=>
                  \E p \in parents : \E k \in DOMAIN orphans[p] : x = <<p, k>>
BY DEF WaitingFor

Release(orphans, count, got, w, gone) ==
  LET W == WaitingFor(orphans, gone \cap DOMAIN orphans) IN
  /\ WaitsOn(Without(orphans, gone), count - Cardinality(W), got, Without(w, W))
  /\ Settled(got, Without(w, W)) = Settled(got, w) \cup Places(w, W)
  /\ W \subseteq DOMAIN w
  /\ IsFiniteSet(W) /\ Cardinality(W) \in Nat /\ count - Cardinality(W) \in Nat
LEMMA Released ==
  ASSUME NEW orphans, NEW count, NEW got, NEW w, WaitsOn(orphans, count, got, w), NEW gone
  PROVE  Release(orphans, count, got, w, gone)
<1>. DEFINE W == WaitingFor(orphans, gone \cap DOMAIN orphans)
<1>. DEFINE kept == Without(orphans, gone)
            v == Without(w, W)
<1>1. /\ DOMAIN w = WaitingFor(orphans, DOMAIN orphans) /\ IsFiniteSet(DOMAIN w)
      /\ count = Cardinality(DOMAIN w)
  BY DEF WaitsOn
<1>2. W \subseteq DOMAIN w
  BY <1>1, WaitingAre
<1>3. DOMAIN kept = DOMAIN orphans \ gone /\ \A p \in DOMAIN kept : kept[p] = orphans[p]
  BY DEF Without
<1>4. DOMAIN v = DOMAIN w \ W /\ \A x \in DOMAIN v : v[x] = w[x] /\ x \in DOMAIN w
  BY DEF Without
<1>. HIDE DEF kept
<1>5. DOMAIN v = WaitingFor(kept, DOMAIN kept)
  <2>1. ASSUME NEW x \in DOMAIN w \ W PROVE x \in WaitingFor(kept, DOMAIN kept)
    <3>1. PICK p \in DOMAIN orphans : \E k \in DOMAIN orphans[p] : x = <<p, k>>
      BY <1>1, WaitingAre
    <3>2. p \notin gone
      BY <2>1, <3>1, WaitingAre
    <3>. QED BY <1>3, <3>1, <3>2, WaitingAre
  <2>2. ASSUME NEW x \in WaitingFor(kept, DOMAIN kept) PROVE x \in DOMAIN w \ W
    <3>1. PICK p \in DOMAIN kept : \E k \in DOMAIN kept[p] : x = <<p, k>>
      BY WaitingAre
    <3>2. p \in DOMAIN orphans /\ p \notin gone /\ \E k \in DOMAIN orphans[p] : x = <<p, k>>
      BY <1>3, <3>1
    <3>3. x \in DOMAIN w
      BY <1>1, <3>1, <3>2, WaitingAre
    <3>4. x \notin W
      <4>. SUFFICES ASSUME x \in W PROVE FALSE
        OBVIOUS
      <4>1. PICK q \in gone \cap DOMAIN orphans : \E m \in DOMAIN orphans[q] : x = <<q, m>>
        BY WaitingAre
      <4>2. p = q
        BY <3>1, <4>1
      <4>. QED BY <3>2, <4>1, <4>2
    <3>. QED BY <3>3, <3>4
  <2>. QED BY <1>4, <2>1, <2>2
<1>6. IsFiniteSet(W) /\ Cardinality(W) \in Nat /\ Cardinality(DOMAIN w) \in Nat
      /\ Cardinality(W) <= Cardinality(DOMAIN w)
  BY <1>1, <1>2, FS_Subset, FS_CardinalityType
<1>7. IsFiniteSet(DOMAIN v) /\ Cardinality(DOMAIN v) = count - Cardinality(W)
  <2>1. DOMAIN w \cap W = W
    BY <1>2
  <2>. QED BY <1>1, <1>4, <2>1, FS_Difference
<1>8. v \in [WaitingFor(kept, DOMAIN kept) -> DOMAIN got]
  <2>1. v = [x \in DOMAIN v |-> v[x]]
    BY DEF Without
  <2>2. \A x \in DOMAIN v : v[x] \in DOMAIN got
    BY <1>1, <1>4 DEF WaitsOn
  <2>. HIDE DEF v
  <2>. QED BY <1>5, <2>1, <2>2
<1>. HIDE DEF v
<1>9. \A x \in DOMAIN v : got[v[x]] = kept[x[1]][x[2]] /\ got[v[x]].parent = x[1]
  <2>. SUFFICES ASSUME NEW x \in DOMAIN v
                PROVE  got[v[x]] = kept[x[1]][x[2]] /\ got[v[x]].parent = x[1]
    OBVIOUS
  <2>1. PICK p \in DOMAIN kept : \E k \in DOMAIN kept[p] : x = <<p, k>>
    BY <1>5, WaitingAre
  <2>2. x[1] \in DOMAIN kept /\ kept[x[1]] = orphans[x[1]]
    BY <1>3, <2>1
  <2>. QED BY <1>4, <2>2 DEF WaitsOn
<1>10. WaitsOn(kept, count - Cardinality(W), got, v)
  <2>1. NoSpan \notin DOMAIN kept /\ \A p \in DOMAIN kept : kept[p] \in Seq(Spans)
    BY <1>3 DEF WaitsOn
  <2>2. \A x, y \in DOMAIN v : v[x] = v[y] => x = y
    BY <1>4 DEF WaitsOn
  <2>. QED BY <1>7, <1>8, <1>9, <2>1, <2>2 DEF WaitsOn
<1>11. Settled(got, v) = Settled(got, w) \cup Places(w, W)
  <2>1. \A x, y \in DOMAIN w : w[x] = w[y] => x = y
    BY DEF WaitsOn
  <2>2. \A x \in DOMAIN w : w[x] \in DOMAIN got
    BY <1>1 DEF WaitsOn
  <2>3. Places(w, DOMAIN w) = Places(v, DOMAIN v) \cup Places(w, W)
    BY <1>2, <1>4 DEF Places
  <2>4. Places(v, DOMAIN v) \cap Places(w, W) = {}
    BY <1>2, <1>4, <2>1 DEF Places
  <2>5. Places(w, W) \subseteq DOMAIN got
    BY <1>2, <2>2 DEF Places
  <2>. QED BY <2>3, <2>4, <2>5 DEF Settled
<1>12. count - Cardinality(W) \in Nat
  BY <1>1, <1>6
<1>. QED BY <1>2, <1>6, <1>10, <1>11, <1>12 DEF kept, v, Release

\* The deliveries go on, and those that wait keep their place.
LEMMA WaitsLater ==
  ASSUME NEW orphans, NEW count, NEW got \in Seq(Spans), NEW w, WaitsOn(orphans, count, got, w),
         NEW s \in Spans
  PROVE  /\ WaitsOn(orphans, count, Append(got, s), w)
         /\ Settled(Append(got, s), w) = Settled(got, w) \cup {Len(got) + 1}
         /\ Len(got) + 1 \notin Settled(got, w)
<1>. DEFINE later == Append(got, s)
<1>1. /\ later \in Seq(Spans) /\ Len(later) = Len(got) + 1 /\ Len(got) \in Nat
      /\ \A i \in 1..Len(got) : later[i] = got[i]
      /\ DOMAIN later = 1..Len(got) + 1 /\ DOMAIN got = 1..Len(got)
  BY AppendProperties, LenProperties
<1>. HIDE DEF later
<1>2. /\ w \in [WaitingFor(orphans, DOMAIN orphans) -> DOMAIN got]
      /\ DOMAIN w = WaitingFor(orphans, DOMAIN orphans) /\ \A x \in DOMAIN w : w[x] \in 1..Len(got)
  BY <1>1 DEF WaitsOn
<1>3. w \in [WaitingFor(orphans, DOMAIN orphans) -> DOMAIN later]
  <2>1. DOMAIN got \subseteq DOMAIN later
    BY <1>1
  <2>. QED BY <1>2, <2>1
<1>4. \A x \in DOMAIN w : later[w[x]] = orphans[x[1]][x[2]] /\ later[w[x]].parent = x[1]
  BY <1>1, <1>2 DEF WaitsOn
<1>5. WaitsOn(orphans, count, later, w)
  BY <1>3, <1>4 DEF WaitsOn
<1>6. /\ Settled(later, w) = Settled(got, w) \cup {Len(got) + 1}
      /\ Len(got) + 1 \notin Settled(got, w)
  <2>1. DOMAIN later = DOMAIN got \cup {Len(got) + 1} /\ Len(got) + 1 \notin DOMAIN got
    BY <1>1
  <2>2. \A x \in DOMAIN w : w[x] # Len(got) + 1
    BY <1>1, <1>2
  <2>. QED BY <2>1, <2>2 DEF Settled, Places
<1>. QED BY <1>5, <1>6 DEF later
-----------------------------------------------------------------------------
LEMMA UpToCount ==
  ASSUME NEW n \in Nat
  PROVE  IsFiniteSet(1..n) /\ Cardinality(1..n) = n
BY FS_Interval

LEMMA PairsCount ==
  ASSUME NEW p, NEW n \in Nat
  PROVE  Cardinality({<<p, k>> : k \in 1..n}) = n
<1>. DEFINE W == {<<p, k>> : k \in 1..n}
<1>. DEFINE f == [k \in 1..n |-> <<p, k>>]
<1>1. f \in Bijection(1..n, W)
  <2>1. f \in [1..n -> W]
    OBVIOUS
  <2>2. \A a, b \in 1..n : f[a] = f[b] => a = b
    OBVIOUS
  <2>3. \A t \in W : \E k \in 1..n : f[k] = t
    OBVIOUS
  <2>. QED BY <2>1, <2>2, <2>3, Fun_IsBij
<1>2. IsFiniteSet(1..n) /\ Cardinality(1..n) = n
  BY UpToCount
<1>3. ExistsBijection(1..n, W)
  BY <1>1 DEF ExistsBijection
<1>. QED BY <1>2, <1>3, FS_Bijection

\* The spans that waited for s are adopted: their calls are counted, and they are settled.
Adopted(got, free, edges, after, orphans, count, s) ==
  /\ EdgesTyped(after) /\ count \in Nat
  /\ \E v : /\ WaitsOn(orphans, count, Append(got, s), v)
            /\ Len(got) + 1 \in Settled(Append(got, s), v)
            /\ free \subseteq Settled(Append(got, s), v)
            /\ \A i \in Settled(Append(got, s), v) :
                 i \in free \/ i = Len(got) + 1 \/ Append(got, s)[i].parent = s.id
            /\ Grown(edges, after, Append(got, s), free, Settled(Append(got, s), v) \ {Len(got) + 1})
LEMMA WaitingAdopted ==
  ASSUME NEW orphans, NEW count, NEW got \in Seq(Spans), NEW w, WaitsOn(orphans, count, got, w),
         NEW s \in Spans, NEW edges, EdgesTyped(edges), NEW kids, kids = GetOr(orphans, s.id, <<>>)
  PROVE  /\ Adopted(got, Settled(got, w), edges, CalledBy(edges, s.service, kids),
                    Without(orphans, {s.id}), count - Len(kids), s)
         /\ Len(kids) \in Nat
<1>. DEFINE later == Append(got, s)
            last == Len(got) + 1
            W == WaitingFor(orphans, {s.id} \cap DOMAIN orphans)
            n == Len(kids)
            at == [k \in 1..n |-> w[<<s.id, k>>]]
            N == Settled(got, w)
            v == Without(w, W)
<1>1. /\ later \in Seq(Spans) /\ Len(later) = last /\ Len(got) \in Nat
      /\ \A i \in 1..Len(got) : later[i] = got[i]
      /\ later[last] = s /\ last \in DOMAIN later
      /\ DOMAIN later = 1..last /\ DOMAIN got = 1..Len(got)
  <2>1. Len(got) \in Nat /\ DOMAIN got = 1..Len(got)
    BY LenProperties
  <2>2. Len(got) + 1 \in 1..Len(got) + 1
    BY <2>1
  <2>. QED BY <2>1, <2>2, AppendProperties, LenProperties
<1>2. kids \in Seq(Spans) /\ n \in Nat /\ DOMAIN kids = 1..n
  <2>1. kids \in Seq(Spans)
    BY DEF GetOr, WaitsOn
  <2>. QED BY <2>1, LenProperties
<1>0. W = WaitingFor(orphans, {s.id} \cap DOMAIN orphans)
  OBVIOUS
<1>. HIDE DEF later, n, W, v
<1>3. W = {<<s.id, k>> : k \in 1..n}
  <2>1. CASE s.id \in DOMAIN orphans
    <3>1. kids = orphans[s.id] /\ {s.id} \cap DOMAIN orphans = {s.id}
      BY <2>1 DEF GetOr
    <3>2. \A x : x \in W <=> \E k \in 1..n : x = <<s.id, k>>
      BY <1>0, <1>2, <3>1, WaitingAre
    <3>. QED BY <3>2
  <2>2. CASE s.id \notin DOMAIN orphans
    <3>1. kids = <<>> /\ {s.id} \cap DOMAIN orphans = {}
      BY <2>2 DEF GetOr
    <3>2. n = 0
      BY <3>1 DEF n
    <3>3. W = {}
      BY <1>0, <3>1 DEF WaitingFor
    <3>4. {<<s.id, k>> : k \in 1..0} = {}
      OBVIOUS
    <3>. QED BY <3>2, <3>3, <3>4
  <2>. QED BY <2>1, <2>2
<1>4. Cardinality(W) = n
  <2>1. Cardinality({<<s.id, k>> : k \in 1..n}) = n
    BY <1>2, PairsCount
  <2>. QED BY <1>3, <2>1
<1>5. /\ WaitsOn(orphans, count, later, w) /\ Settled(later, w) = N \cup {last} /\ last \notin N
  <2>1. /\ WaitsOn(orphans, count, Append(got, s), w)
        /\ Settled(Append(got, s), w) = Settled(got, w) \cup {Len(got) + 1}
        /\ Len(got) + 1 \notin Settled(got, w)
    <3>. HIDE DEF last, N, at
    <3>. QED BY WaitsLater
  <2>. QED BY <2>1 DEF later
<1>6. /\ WaitsOn(Without(orphans, {s.id}), count - n, later, v)
      /\ Settled(later, v) = N \cup {last} \cup Places(w, W)
      /\ W \subseteq DOMAIN w /\ count - n \in Nat
  <2>. HIDE DEF N, last, at
  <2>1. Release(orphans, count, later, w, {s.id})
    BY <1>5, Released
  <2>. QED BY <1>0, <1>4, <1>5, <2>1 DEF v, Release
<1>7. \A k \in 1..n : <<s.id, k>> \in DOMAIN w
  BY <1>3, <1>6
<1>8. Places(w, W) = {at[k] : k \in 1..n}
  BY <1>3 DEF Places
<1>8a. \A k \in 1..n : at[k] \in 1..Len(got) /\ at[k] # last
  BY <1>1, <1>7 DEF WaitsOn
<1>9. AllWaited(later, N, at, n, last)
  <2>1. N \in SUBSET DOMAIN later
    BY <1>1 DEF Settled
  <2>2. \A k \in 1..n : at[k] \in DOMAIN got /\ at[k] \notin N
    BY <1>7 DEF WaitsOn, Settled, Places
  <2>3. at \in [1..n -> DOMAIN later \ N]
    BY <1>1, <2>2
  <2>4. \A k, m \in 1..n : at[k] = at[m] => k = m
    <3>1. \A k, m \in 1..n : at[k] = at[m] => <<s.id, k>> = <<s.id, m>>
      BY <1>7 DEF WaitsOn
    <3>. QED BY <3>1
  <2>5. \A k \in 1..n : later[at[k]].parent = later[last].id
    <3>1. \A k \in 1..n : later[w[<<s.id, k>>]].parent = <<s.id, k>>[1]
      BY <1>5, <1>7 DEF WaitsOn
    <3>. QED BY <1>1, <3>1
  <2>. HIDE DEF at, N
  <2>. QED BY <1>1, <2>1, <2>3, <2>4, <2>5 DEF AllWaited
<1>10. \A k \in 1..n : kids[k] = later[at[k]]
  <2>. SUFFICES ASSUME NEW k \in 1..n PROVE kids[k] = later[at[k]]
    OBVIOUS
  <2>1. later[w[<<s.id, k>>]] = orphans[s.id][k]
    BY <1>5, <1>7 DEF WaitsOn
  <2>2. s.id \in DOMAIN orphans
    <3>1. <<s.id, k>> \in WaitingFor(orphans, DOMAIN orphans)
      BY <1>7 DEF WaitsOn
    <3>. QED BY <3>1, WaitingAre
  <2>. QED BY <2>1, <2>2 DEF GetOr
<1>11. \A k \in 1..n : later[at[k]].parent = s.id
  BY <1>1, <1>9 DEF AllWaited
<1>. HIDE DEF at, N
<1>12. PICK g : IsCalls(g, n, edges, s.service, kids) /\ CalledBy(edges, s.service, kids) = g[n]
  BY <1>2, CallsAre DEF n
<1>13. EdgesTyped(g[n]) /\ Grown(edges, g[n], later, N, UpTo(N, at, n))
  <2>1. later[last].service = s.service
    BY <1>1
  <2>. HIDE DEF last
  <2>2. IsCalls(g, n, edges, later[last].service, kids)
    BY <1>12, <2>1
  <2>. QED BY <1>1, <1>2, <1>9, <1>10, <2>2, KidsTold
<1>14. UpTo(N, at, n) = Settled(later, v) \ {last}
  <2>. HIDE DEF last
  <2>. QED BY <1>5, <1>6, <1>8, <1>8a DEF UpTo
<1>15. \A i \in Settled(later, v) : i \in N \/ i = last \/ later[i].parent = s.id
  BY <1>6, <1>8, <1>11
<1>16. Adopted(got, N, edges, g[n], Without(orphans, {s.id}), count - n, s)
  BY <1>6, <1>13, <1>14, <1>15 DEF Adopted, later
<1>. QED BY <1>2, <1>12, <1>16 DEF N, n
-----------------------------------------------------------------------------
\* The edges count calls that deliveries of N tell, and all of them in a whole graph.
Counts(e, T, F, whole) ==
  /\ e.calls <= Cardinality(T) /\ e.errors <= Cardinality(F)
  /\ whole => e.calls = Cardinality(T) /\ e.errors = Cardinality(F)
EdgesCount(edges, got, N, whole) ==
  \A a, b : a # b => LET T == ToldIn(got, a, b) \cap N IN
                     Counts(CallOf(edges, a, b), T, FailedIn(got, T), whole)

LEMMA ToldFinite ==
  ASSUME NEW got, IsFiniteSet(DOMAIN got), NEW a, NEW b, NEW N
  PROVE  LET T == ToldIn(got, a, b) \cap N IN
         /\ IsFiniteSet(T) /\ Cardinality(T) \in Nat
         /\ IsFiniteSet(FailedIn(got, T)) /\ Cardinality(FailedIn(got, T)) \in Nat
<1>. DEFINE T == ToldIn(got, a, b) \cap N
<1>1. T \subseteq DOMAIN got /\ FailedIn(got, T) \subseteq DOMAIN got
  BY DEF ToldIn, FailedIn
<1>. QED BY <1>1, FS_Subset, FS_CardinalityType

LEMMA CountGrows ==
  ASSUME NEW got, IsFiniteSet(DOMAIN got), NEW N, NEW M, NEW whole \in BOOLEAN,
         NEW e, NEW f, EdgesTyped(e), EdgesCount(e, got, N, whole), Grown(e, f, got, N, M)
  PROVE  EdgesCount(f, got, M, whole)
<1>. SUFFICES ASSUME NEW a, NEW b, a # b
              PROVE  LET T == ToldIn(got, a, b) \cap M IN
                     Counts(CallOf(f, a, b), T, FailedIn(got, T), whole)
  BY DEF EdgesCount
<1>. DEFINE S == ToldIn(got, a, b) \cap N
            T == ToldIn(got, a, b) \cap M
<1>1. Counts(CallOf(e, a, b), S, FailedIn(got, S), whole)
  BY DEF EdgesCount
<1>2. Grew(CallOf(e, a, b), CallOf(f, a, b), S, T, FailedIn(got, S), FailedIn(got, T))
  BY DEF Grown
<1>3. /\ Cardinality(S) \in Nat /\ Cardinality(FailedIn(got, S)) \in Nat
      /\ CallOf(e, a, b).calls \in Nat /\ CallOf(e, a, b).errors \in Nat
  BY ToldFinite, CallTyped
<1>. HIDE DEF S, T
<1>4. PICK d \in Nat, k \in Nat :
        /\ CallOf(f, a, b).calls = CallOf(e, a, b).calls + d /\ Cardinality(T) = Cardinality(S) + d
        /\ CallOf(f, a, b).errors = CallOf(e, a, b).errors + k
        /\ Cardinality(FailedIn(got, T)) = Cardinality(FailedIn(got, S)) + k
  BY <1>2 DEF Grew
<1>. QED BY <1>1, <1>3, <1>4 DEF Counts, T

LEMMA CountMore ==
  ASSUME NEW got, NEW later, IsFiniteSet(DOMAIN later), NEW N, NEW M, NEW e, EdgesTyped(e),
         NEW whole \in BOOLEAN, NEW weaker \in BOOLEAN, EdgesCount(e, got, N, whole),
         weaker => whole,
         \A a, b : a # b => LET S == ToldIn(got, a, b) \cap N
                                T == ToldIn(later, a, b) \cap M IN
                            S \subseteq T /\ (weaker => S = T),
         \A i \in N : later[i] = got[i]
  PROVE  EdgesCount(e, later, M, weaker)
<1>. SUFFICES ASSUME NEW a, NEW b, a # b
              PROVE  LET T == ToldIn(later, a, b) \cap M IN
                     Counts(CallOf(e, a, b), T, FailedIn(later, T), weaker)
  BY DEF EdgesCount
<1>. DEFINE S == ToldIn(got, a, b) \cap N
            T == ToldIn(later, a, b) \cap M
<1>1. Counts(CallOf(e, a, b), S, FailedIn(got, S), whole)
  BY DEF EdgesCount
<1>2. S \subseteq T /\ (weaker => S = T)
  OBVIOUS
<1>3. S \subseteq N
  OBVIOUS
<1>4. IsFiniteSet(T) /\ IsFiniteSet(FailedIn(later, T))
      /\ Cardinality(T) \in Nat /\ Cardinality(FailedIn(later, T)) \in Nat
  BY ToldFinite
<1>. HIDE DEF S, T
<1>5. FailedIn(got, S) \subseteq FailedIn(later, T) /\ (weaker => FailedIn(got, S) = FailedIn(later, T))
  BY <1>2, <1>3 DEF FailedIn
<1>6. /\ Cardinality(S) <= Cardinality(T) /\ Cardinality(FailedIn(got, S)) <= Cardinality(FailedIn(later, T))
      /\ IsFiniteSet(S) /\ IsFiniteSet(FailedIn(got, S))
  BY <1>2, <1>4, <1>5, FS_Subset
<1>7. Cardinality(S) \in Nat /\ Cardinality(FailedIn(got, S)) \in Nat
  BY <1>6, FS_CardinalityType
<1>8. CallOf(e, a, b).calls \in Nat /\ CallOf(e, a, b).errors \in Nat
  BY CallTyped
<1>. QED BY <1>1, <1>2, <1>4, <1>5, <1>6, <1>7, <1>8 DEF Counts, T

\* One more delivery tells no call of the settled ones whose parent was there.
LEMMA CountLater ==
  ASSUME NEW got \in Seq(Spans), NEW s \in Spans, NEW N \in SUBSET DOMAIN got, NEW e, EdgesTyped(e),
         NEW whole \in BOOLEAN, NEW weaker \in BOOLEAN, EdgesCount(e, got, N, whole), weaker => whole,
         weaker => \A i \in N : got[i].parent = NoSpan \/ \E j \in DOMAIN got : got[j].id = got[i].parent
  PROVE  EdgesCount(e, Append(got, s), N, weaker)
<1>. DEFINE later == Append(got, s)
<1>1. /\ later \in Seq(Spans) /\ Len(later) = Len(got) + 1 /\ Len(got) \in Nat
      /\ \A i \in 1..Len(got) : later[i] = got[i]
      /\ DOMAIN later = 1..Len(got) + 1 /\ DOMAIN got = 1..Len(got)
  BY AppendProperties, LenProperties
<1>2. IsFiniteSet(DOMAIN later)
  <2>1. 1 \in Int /\ Len(got) + 1 \in Int
    BY <1>1
  <2>2. IsFiniteSet(1..Len(got) + 1)
    BY <2>1, FS_Interval
  <2>. QED BY <1>1, <2>2
<1>3. ASSUME NEW a, NEW b
      PROVE  LET S == ToldIn(got, a, b) \cap N
                 T == ToldIn(later, a, b) \cap N IN
             S \subseteq T /\ (weaker => S = T)
  <2>. DEFINE S == ToldIn(got, a, b) \cap N
              T == ToldIn(later, a, b) \cap N
  <2>. HIDE DEF later
  <2>1. S \subseteq T
    <3>. SUFFICES ASSUME NEW i \in S PROVE i \in T
      OBVIOUS
    <3>1. PICK j \in DOMAIN got : got[j].id = got[i].parent /\ got[j].service = a
      BY DEF ToldIn
    <3>2. i \in DOMAIN got /\ got[i].service = b
      BY DEF ToldIn
    <3>. QED BY <1>1, <3>1, <3>2 DEF ToldIn
  <2>2. ASSUME weaker, NEW i \in T PROVE i \in S
    <3>1. PICK j \in DOMAIN later : later[j].id = later[i].parent /\ later[j].service = a
      BY DEF ToldIn
    <3>2. i \in DOMAIN got /\ got[i].service = b /\ later[i] = got[i]
      BY <1>1 DEF ToldIn
    <3>3. \A k \in DOMAIN later : later[k] \in Spans
      BY <1>1
    <3>4. later[j].id # NoSpan
      BY <3>3, SpansAssumption
    <3>5. PICK k \in DOMAIN got : got[k].id = got[i].parent
      BY <2>2, <3>1, <3>2, <3>4
    <3>6. later[k] = got[k] /\ k \in DOMAIN later
      BY <1>1
    <3>7. later[k] = later[j]
      BY <3>1, <3>2, <3>3, <3>5, <3>6, SpansAssumption
    <3>. QED BY <3>1, <3>2, <3>5, <3>6, <3>7 DEF ToldIn
  <2>. QED BY <2>1, <2>2
<1>4. \A i \in N : later[i] = got[i]
  BY <1>1
<1>. HIDE DEF later
<1>5. EdgesCount(e, later, N, weaker)
  BY <1>2, <1>3, <1>4, CountMore
<1>. QED BY <1>5 DEF later
-----------------------------------------------------------------------------
\* The graph between two spans; N are the deliveries whose calls it counts.
Standing(g, got, w, N, whole) ==
  /\ DOMAIN g = GraphFields /\ EdgesTyped(g.edges) /\ Indexed(g.fifo, g.spans, got)
  /\ WaitsOn(g.orphans, g.orphanCount, got, w) /\ g.orphanCount <= MaxSpans
  /\ DOMAIN g.orphans \cap DOMAIN g.spans = {}
  /\ EdgesCount(g.edges, got, N, whole)
  /\ whole => /\ Len(got) <= MaxSpans
              /\ \A j \in DOMAIN got : got[j].id \in DOMAIN g.spans
              /\ \A i \in N : got[i].parent = NoSpan \/ got[i].parent \in DOMAIN g.spans

LEMMA IndexTells ==
  ASSUME NEW fifo, NEW spans, NEW got, Indexed(fifo, spans, got)
  PROVE  \A p \in DOMAIN spans : \E j \in DOMAIN got : got[j].id = p /\ got[j] = spans[p]
<1>. SUFFICES ASSUME NEW p \in DOMAIN spans
              PROVE  \E j \in DOMAIN got : got[j].id = p /\ got[j] = spans[p]
  OBVIOUS
<1>1. spans[p].id = p /\ \E j \in DOMAIN got : got[j] = spans[p]
  BY DEF Indexed
<1>2. PICK j \in DOMAIN got : got[j] = spans[p]
  BY <1>1
<1>. QED BY <1>1, <1>2

LEMMA SpanAdopted ==
  ASSUME NEW got \in Seq(Spans), NEW s \in Spans, NEW g, NEW w, NEW whole \in BOOLEAN,
         Standing(g, got, w, Settled(got, w), whole),
         NEW weaker \in BOOLEAN, weaker => whole /\ Len(got) + 1 <= MaxSpans
  PROVE  LET h == Adopt(IndexSpan(CountSpan(g, s), s), s)
             later == Append(got, s) IN
         /\ s.id \in DOMAIN h.spans
         /\ \E v : /\ Len(got) + 1 \in Settled(later, v)
                   /\ Standing(h, later, v, Settled(later, v) \ {Len(got) + 1}, weaker)
<1>. DEFINE h0 == CountSpan(g, s)
            h1 == IndexSpan(h0, s)
            h == Adopt(h1, s)
            later == Append(got, s)
            last == Len(got) + 1
            F == Settled(got, w)
<1>1. /\ later \in Seq(Spans) /\ Len(later) = last /\ Len(got) \in Nat
      /\ \A i \in 1..Len(got) : later[i] = got[i]
      /\ later[last] = s /\ DOMAIN later = 1..last /\ DOMAIN got = 1..Len(got)
  BY AppendProperties, LenProperties
<1>2. /\ DOMAIN h0 = GraphFields /\ h0.edges = g.edges /\ h0.orphans = g.orphans
      /\ h0.orphanCount = g.orphanCount /\ h0.fifo = g.fifo /\ h0.spans = g.spans
  BY DEF CountSpan, Standing, GraphFields
<1>. HIDE DEF h0
<1>3. /\ DOMAIN h1 = GraphFields /\ h1.edges = g.edges /\ h1.orphans = g.orphans
      /\ h1.orphanCount = g.orphanCount
      /\ Indexed(h1.fifo, h1.spans, later) /\ s.id \in DOMAIN h1.spans
      /\ DOMAIN h1.spans \subseteq DOMAIN g.spans \cup {s.id}
      /\ Len(got) + 1 <= MaxSpans => DOMAIN h1.spans = DOMAIN g.spans \cup {s.id}
  <2>1. Indexed(h0.fifo, h0.spans, got)
    BY <1>2 DEF Standing
  <2>2. LET k == IndexSpan(h0, s) IN
        /\ DOMAIN k = GraphFields /\ k.edges = h0.edges /\ k.orphans = h0.orphans
        /\ k.orphanCount = h0.orphanCount
        /\ Indexed(k.fifo, k.spans, Append(got, s)) /\ s.id \in DOMAIN k.spans
        /\ DOMAIN k.spans \subseteq DOMAIN h0.spans \cup {s.id}
        /\ Len(got) + 1 <= MaxSpans => DOMAIN k.spans = DOMAIN h0.spans \cup {s.id}
    BY <1>2, <2>1, SpanIndexed
  <2>. HIDE DEF h1
  <2>. QED BY <1>2, <2>2 DEF h1, later
<1>. HIDE DEF h1
<1>. DEFINE kids == GetOr(g.orphans, s.id, <<>>)
            after == CalledBy(g.edges, s.service, kids)
<1>4. /\ DOMAIN h = GraphFields /\ h.edges = after /\ h.orphans = Without(g.orphans, {s.id})
      /\ h.orphanCount = g.orphanCount - Len(kids) /\ h.fifo = h1.fifo /\ h.spans = h1.spans
  <2>. DEFINE kids1 == GetOr(h1.orphans, s.id, <<>>)
              e1 == CalledBy(h1.edges, s.service, kids1)
              o1 == Without(h1.orphans, {s.id})
              c1 == h1.orphanCount - Len(kids1)
  <2>1. h = [h1 EXCEPT !.edges = e1, !.orphans = o1, !.orphanCount = c1]
    BY DEF Adopt
  <2>2. kids1 = kids /\ e1 = after /\ o1 = Without(g.orphans, {s.id}) /\ c1 = g.orphanCount - Len(kids)
    BY <1>3
  <2>. HIDE DEF h, kids1, e1, o1, c1, kids, after
  <2>. QED BY <1>3, <2>1, <2>2 DEF GraphFields
<1>. HIDE DEF h
<1>5. /\ Adopted(got, F, g.edges, after, Without(g.orphans, {s.id}), g.orphanCount - Len(kids), s)
      /\ Len(kids) \in Nat
  <2>1. PICK k : k = kids
    OBVIOUS
  <2>2. PICK o, c, e : o = g.orphans /\ c = g.orphanCount /\ e = g.edges
    OBVIOUS
  <2>3. WaitsOn(o, c, got, w) /\ EdgesTyped(e) /\ k = GetOr(o, s.id, <<>>)
    BY <2>1, <2>2 DEF Standing
  <2>4. /\ Adopted(got, Settled(got, w), e, CalledBy(e, s.service, k), Without(o, {s.id}), c - Len(k), s)
        /\ Len(k) \in Nat
    BY <2>3, WaitingAdopted
  <2>. QED BY <2>1, <2>2, <2>4
<1>. HIDE DEF kids, after
<1>6. PICK v : /\ WaitsOn(h.orphans, h.orphanCount, later, v)
               /\ last \in Settled(later, v) /\ F \subseteq Settled(later, v)
               /\ \A i \in Settled(later, v) : i \in F \/ i = last \/ later[i].parent = s.id
               /\ Grown(g.edges, after, later, F, Settled(later, v) \ {last})
  BY <1>4, <1>5 DEF Adopted
<1>7. EdgesTyped(after) /\ h.orphanCount \in Nat
  BY <1>4, <1>5 DEF Adopted
<1>8. h.orphanCount <= MaxSpans
  <2>1. g.orphanCount \in Nat
    BY FS_CardinalityType DEF Standing, WaitsOn
  <2>. QED BY <1>4, <1>5, <2>1, SizesAssumption DEF Standing
<1>9. DOMAIN h.orphans \cap DOMAIN h.spans = {}
  BY <1>3, <1>4 DEF Standing, Without
<1>. HIDE DEF later
<1>10. F \subseteq DOMAIN got
  BY DEF Settled
<1>11. weaker => \A i \in F : got[i].parent = NoSpan \/ got[i].parent \in DOMAIN g.spans
  BY DEF Standing
<1>12. EdgesCount(g.edges, later, F, weaker)
  <2>1. weaker => \A i \in F : got[i].parent = NoSpan \/ \E j \in DOMAIN got : got[j].id = got[i].parent
    <3>1. Indexed(g.fifo, g.spans, got)
      BY DEF Standing
    <3>2. \A p \in DOMAIN g.spans : \E j \in DOMAIN got : got[j].id = p
      BY <3>1, IndexTells
    <3>. HIDE DEF F
    <3>. QED BY <1>11, <3>2
  <2>2. EdgesTyped(g.edges) /\ EdgesCount(g.edges, got, F, whole)
    BY DEF Standing
  <2>. HIDE DEF F, last
  <2>. QED BY <1>10, <2>1, <2>2, CountLater DEF later
<1>13. IsFiniteSet(DOMAIN later)
  <2>1. 1 \in Int /\ Len(got) + 1 \in Int
    BY <1>1
  <2>2. IsFiniteSet(1..Len(got) + 1)
    BY <2>1, FS_Interval
  <2>. QED BY <1>1, <2>2
<1>. DEFINE M == Settled(later, v) \ {last}
<1>14. EdgesCount(h.edges, later, M, weaker)
  <2>1. EdgesTyped(g.edges) /\ Grown(g.edges, after, later, F, M)
    BY <1>6 DEF Standing
  <2>. HIDE DEF F, M
  <2>. QED BY <1>4, <1>12, <1>13, <2>1, CountGrows
<1>15. weaker => /\ Len(later) <= MaxSpans
                 /\ \A j \in DOMAIN later : later[j].id \in DOMAIN h.spans
                 /\ \A i \in M : later[i].parent = NoSpan \/ later[i].parent \in DOMAIN h.spans
  <2>. SUFFICES ASSUME weaker
                PROVE  /\ Len(later) <= MaxSpans
                       /\ \A j \in DOMAIN later : later[j].id \in DOMAIN h.spans
                       /\ \A i \in M : later[i].parent = NoSpan \/ later[i].parent \in DOMAIN h.spans
    OBVIOUS
  <2>1. DOMAIN h.spans = DOMAIN g.spans \cup {s.id}
    BY <1>3, <1>4
  <2>2. \A j \in DOMAIN got : got[j].id \in DOMAIN g.spans
    BY DEF Standing
  <2>3. \A j \in DOMAIN later : later[j].id \in DOMAIN h.spans
    <3>1. \A j \in 1..last : j \in 1..Len(got) \/ j = last
      BY <1>1
    <3>. HIDE DEF last
    <3>. QED BY <1>1, <2>1, <2>2, <3>1
  <2>4. \A i \in M : later[i].parent = NoSpan \/ later[i].parent \in DOMAIN h.spans
    <3>1. \A i \in F : later[i] = got[i]
      BY <1>1, <1>10
    <3>. HIDE DEF F, last
    <3>. QED BY <1>6, <1>11, <2>1, <3>1
  <2>. QED BY <1>1, <2>3, <2>4
<1>16. Standing(h, later, v, M, weaker)
  <2>. HIDE DEF M
  <2>. QED BY <1>3, <1>4, <1>6, <1>7, <1>8, <1>9, <1>14, <1>15 DEF Standing
<1>. QED BY <1>3, <1>4, <1>6, <1>16 DEF h, h1, h0, later
-----------------------------------------------------------------------------
\* A span whose parent is not known joins those that wait for it.
LEMMA SpanParked ==
  ASSUME NEW orphans, NEW count, NEW got, NEW v, WaitsOn(orphans, count, got, v),
         NEW i \in Settled(got, v), got[i] \in Spans, NEW p, got[i].parent = p, p # NoSpan,
         NEW list, list = GetOr(orphans, p, <<>>)
  PROVE  \E u : /\ WaitsOn(Updated(orphans, p, Append(list, got[i])), count + 1, got, u)
                /\ Settled(got, u) = Settled(got, v) \ {i}
<1>. DEFINE s == got[i]
            all == Append(list, s)
            later == Updated(orphans, p, all)
            n == Len(list)
            x == <<p, n + 1>>
            u == Updated(v, x, i)
<1>1. list \in Seq(Spans)
  BY DEF GetOr, WaitsOn
<1>2. /\ all \in Seq(Spans) /\ n \in Nat /\ DOMAIN list = 1..n /\ DOMAIN all = 1..n + 1
      /\ \A k \in 1..n : all[k] = list[k]
      /\ all[n + 1] = s
  BY <1>1, AppendProperties, LenProperties
<1>. HIDE DEF all
<1>3. DOMAIN later = DOMAIN orphans \cup {p} /\ later[p] = all
      /\ \A q \in DOMAIN orphans : q # p => later[q] = orphans[q]
  BY DEF Updated
<1>. HIDE DEF later
<1>4. DOMAIN v = WaitingFor(orphans, DOMAIN orphans) /\ v \in [DOMAIN v -> DOMAIN got]
      /\ IsFiniteSet(DOMAIN v) /\ count = Cardinality(DOMAIN v)
  BY DEF WaitsOn
<1>5. \A k : (p \in DOMAIN orphans /\ k \in DOMAIN orphans[p]) <=> k \in 1..n /\ p \in DOMAIN orphans
  BY <1>2 DEF GetOr
<1>6. p \notin DOMAIN orphans => n = 0
  BY DEF GetOr
<1>. HIDE DEF n
<1>7. x \notin DOMAIN v
  <2>. SUFFICES ASSUME x \in DOMAIN v PROVE FALSE
    OBVIOUS
  <2>1. PICK q \in DOMAIN orphans : \E k \in DOMAIN orphans[q] : x = <<q, k>>
    BY <1>4, WaitingAre
  <2>2. q = p /\ n + 1 \in DOMAIN orphans[p]
    BY <2>1
  <2>. QED BY <1>2, <1>5, <2>1, <2>2
<1>8. WaitingFor(later, DOMAIN later) = DOMAIN v \cup {x}
  <2>1. ASSUME NEW y \in WaitingFor(later, DOMAIN later) PROVE y \in DOMAIN v \cup {x}
    <3>1. PICK q \in DOMAIN later : \E k \in DOMAIN later[q] : y = <<q, k>>
      BY WaitingAre
    <3>2. PICK k \in DOMAIN later[q] : y = <<q, k>>
      BY <3>1
    <3>3. CASE q # p
      <4>1. q \in DOMAIN orphans /\ k \in DOMAIN orphans[q]
        BY <1>3, <3>2, <3>3
      <4>. QED BY <1>4, <3>2, <4>1, WaitingAre
    <3>4. CASE q = p /\ k = n + 1
      BY <3>2, <3>4
    <3>5. CASE q = p /\ k # n + 1
      <4>1. k \in 1..n
        BY <1>2, <1>3, <3>2, <3>5
      <4>2. p \in DOMAIN orphans
        BY <1>6, <4>1
      <4>3. k \in DOMAIN orphans[p]
        BY <1>5, <4>1, <4>2
      <4>. QED BY <1>4, <3>2, <3>5, <4>2, <4>3, WaitingAre
    <3>. QED BY <3>3, <3>4, <3>5
  <2>2. ASSUME NEW y \in DOMAIN v PROVE y \in WaitingFor(later, DOMAIN later)
    <3>1. PICK q \in DOMAIN orphans : \E k \in DOMAIN orphans[q] : y = <<q, k>>
      BY <1>4, WaitingAre
    <3>2. PICK k \in DOMAIN orphans[q] : y = <<q, k>>
      BY <3>1
    <3>3. q \in DOMAIN later /\ k \in DOMAIN later[q]
      <4>1. CASE q # p
        BY <1>3, <3>2, <4>1
      <4>2. CASE q = p
        <5>1. k \in 1..n
          BY <1>5, <3>2, <4>2
        <5>. QED BY <1>2, <1>3, <4>2, <5>1
      <4>. QED BY <4>1, <4>2
    <3>. QED BY <3>2, <3>3, WaitingAre
  <2>3. x \in WaitingFor(later, DOMAIN later)
    <3>1. p \in DOMAIN later /\ n + 1 \in DOMAIN later[p]
      BY <1>2, <1>3
    <3>. QED BY <3>1, WaitingAre
  <2>. QED BY <2>1, <2>2, <2>3
<1>9. /\ DOMAIN u = DOMAIN v \cup {x} /\ u[x] = i /\ \A y \in DOMAIN v : u[y] = v[y]
      /\ u = [y \in DOMAIN u |-> u[y]]
  BY <1>7 DEF Updated
<1>. HIDE DEF u, x
<1>10. i \in DOMAIN got /\ \A y \in DOMAIN v : v[y] # i
  BY DEF Settled, Places
<1>11. u \in [WaitingFor(later, DOMAIN later) -> DOMAIN got]
  BY <1>4, <1>8, <1>9, <1>10
<1>12. \A y, z \in DOMAIN u : u[y] = u[z] => y = z
  <2>1. \A y, z \in DOMAIN v : v[y] = v[z] => y = z
    BY DEF WaitsOn
  <2>. QED BY <1>9, <1>10, <2>1
<1>13. \A y \in DOMAIN u : got[u[y]] = later[y[1]][y[2]] /\ got[u[y]].parent = y[1]
  <2>. SUFFICES ASSUME NEW y \in DOMAIN u
                PROVE  got[u[y]] = later[y[1]][y[2]] /\ got[u[y]].parent = y[1]
    OBVIOUS
  <2>1. CASE y = x
    <3>1. y[1] = p /\ y[2] = n + 1
      BY <2>1 DEF x
    <3>. QED BY <1>2, <1>3, <1>9, <2>1, <3>1
  <2>2. CASE y # x
    <3>1. y \in DOMAIN v /\ u[y] = v[y] /\ got[v[y]] = orphans[y[1]][y[2]] /\ got[v[y]].parent = y[1]
      BY <1>9, <2>2 DEF WaitsOn
    <3>2. PICK q \in DOMAIN orphans : \E k \in DOMAIN orphans[q] : y = <<q, k>>
      BY <1>4, <3>1, WaitingAre
    <3>3. PICK k \in DOMAIN orphans[q] : y = <<q, k>>
      BY <3>2
    <3>4. y[1] = q /\ y[2] = k
      BY <3>3
    <3>5. orphans[q][k] = later[q][k]
      <4>1. CASE q # p
        BY <1>3, <4>1
      <4>2. CASE q = p
        <5>1. k \in 1..n /\ list = orphans[p]
          BY <1>5, <3>3, <4>2 DEF GetOr
        <5>. QED BY <1>2, <1>3, <4>2, <5>1
      <4>. QED BY <4>1, <4>2
    <3>. QED BY <3>1, <3>4, <3>5
  <2>. QED BY <2>1, <2>2
<1>14. IsFiniteSet(DOMAIN u) /\ Cardinality(DOMAIN u) = count + 1
  BY <1>4, <1>7, <1>9, FS_AddElement
<1>15. Settled(got, u) = Settled(got, v) \ {i}
  BY <1>9 DEF Settled, Places
<1>16. NoSpan \notin DOMAIN later /\ \A q \in DOMAIN later : later[q] \in Seq(Spans)
  BY <1>2, <1>3 DEF WaitsOn
<1>17. WaitsOn(later, count + 1, got, u)
  BY <1>11, <1>12, <1>13, <1>14, <1>16 DEF WaitsOn
<1>. QED BY <1>15, <1>17 DEF later, all
-----------------------------------------------------------------------------
\* The span is linked to its parent, or waits for it.
LEMMA RootLinked ==
  ASSUME NEW got \in Seq(Spans), NEW h, NEW v, NEW weaker \in BOOLEAN, NEW last \in Settled(got, v),
         Standing(h, got, v, Settled(got, v) \ {last}, weaker), got[last].parent = NoSpan
  PROVE  Standing(h, got, v, Settled(got, v), weaker)
<1>. DEFINE F == Settled(got, v)
            N == F \ {last}
<1>1. IsFiniteSet(DOMAIN got) /\ F \subseteq DOMAIN got
  BY FS_Interval, LenProperties DEF Settled
<1>2. \A a, b : ToldIn(got, a, b) \cap N = ToldIn(got, a, b) \cap F
  <2>1. \A a, b : last \notin ToldIn(got, a, b)
    BY SpansAssumption DEF ToldIn
  <2>. HIDE DEF F
  <2>. QED BY <2>1
<1>3. EdgesTyped(h.edges) /\ EdgesCount(h.edges, got, N, weaker)
  BY DEF Standing
<1>. HIDE DEF F
<1>4. EdgesCount(h.edges, got, F, weaker)
  <2>. HIDE DEF N
  <2>. QED BY <1>2, <1>3 DEF EdgesCount
<1>. QED BY <1>4 DEF Standing, F

LEMMA CallLinked ==
  ASSUME NEW got \in Seq(Spans), NEW h, NEW v, NEW weaker \in BOOLEAN, NEW last \in Settled(got, v),
         Standing(h, got, v, Settled(got, v) \ {last}, weaker),
         NEW p, p = got[last].parent, p \in DOMAIN h.spans
  PROVE  LET k == [h EXCEPT !.edges = AddEdge(@, h.spans[p].service, got[last])] IN
         Standing(k, got, v, Settled(got, v), weaker)
<1>. DEFINE F == Settled(got, v)
            N == F \ {last}
            after == AddEdge(h.edges, h.spans[p].service, got[last])
            k == [h EXCEPT !.edges = after]
<1>1. IsFiniteSet(DOMAIN got) /\ F \subseteq DOMAIN got
  BY FS_Interval, LenProperties DEF Settled
<1>2. EdgesTyped(h.edges) /\ EdgesCount(h.edges, got, N, weaker) /\ DOMAIN h = GraphFields
      /\ Indexed(h.fifo, h.spans, got)
  BY DEF Standing
<1>3. PICK j \in DOMAIN got : got[j].id = p /\ got[j] = h.spans[p]
  BY <1>2, IndexTells
<1>. HIDE DEF F
<1>4. EdgesTyped(after) /\ Grown(h.edges, after, got, N, F)
  <2>1. N \in SUBSET DOMAIN got /\ last \in DOMAIN got \ N /\ N \cup {last} = F /\ got[j].id = got[last].parent
    BY <1>1, <1>3 DEF F
  <2>2. PICK e : e = h.edges
    OBVIOUS
  <2>3. EdgesTyped(e)
    BY <1>2, <2>2
  <2>. HIDE DEF N
  <2>4. LET later == AddEdge(e, got[j].service, got[last]) IN
        EdgesTyped(later) /\ Grown(e, later, got, N, N \cup {last})
    BY <2>1, <2>3, CallTold
  <2>. QED BY <1>3, <2>1, <2>2, <2>4
<1>5. EdgesCount(after, got, F, weaker)
  <2>. HIDE DEF N, after
  <2>. QED BY <1>1, <1>2, <1>4, CountGrows
<1>. HIDE DEF after
<1>6. /\ DOMAIN k = GraphFields /\ k.edges = after /\ k.fifo = h.fifo /\ k.spans = h.spans
      /\ k.orphans = h.orphans /\ k.orphanCount = h.orphanCount
  BY <1>2 DEF GraphFields
<1>. HIDE DEF k
<1>7. weaker => \A i \in F : got[i].parent = NoSpan \/ got[i].parent \in DOMAIN k.spans
  <2>1. weaker => \A i \in N : got[i].parent = NoSpan \/ got[i].parent \in DOMAIN h.spans
    BY DEF Standing, F
  <2>2. \A i \in F : i \in N \/ i = last
    OBVIOUS
  <2>. HIDE DEF N
  <2>. QED BY <1>6, <2>1, <2>2
<1>8. Standing(k, got, v, F, weaker)
  <2>. HIDE DEF N
  <2>. QED BY <1>4, <1>5, <1>6, <1>7 DEF Standing
<1>. QED BY <1>8 DEF k, F, after

LEMMA SpanWaits ==
  ASSUME NEW got \in Seq(Spans), NEW h, NEW v, NEW weaker \in BOOLEAN, NEW last \in Settled(got, v),
         Standing(h, got, v, Settled(got, v) \ {last}, weaker),
         NEW p, p = got[last].parent, p # NoSpan, p \notin DOMAIN h.spans,
         NEW t, t \in Trimmings([h EXCEPT
                        !.orphans = Updated(@, p, Append(GetOr(@, p, <<>>), got[last])),
                        !.orphanCount = @ + 1])
  PROVE  \E w : Standing(t, got, w, Settled(got, w), weaker)
<1>. DEFINE N == Settled(got, v) \ {last}
            later == Updated(h.orphans, p, Append(GetOr(h.orphans, p, <<>>), got[last]))
            n == h.orphanCount + 1
            k == [h EXCEPT !.orphans = later, !.orphanCount = n]
            D == DOMAIN later
<1>1. Len(got) \in Nat /\ DOMAIN got = 1..Len(got) /\ IsFiniteSet(DOMAIN got)
      /\ Cardinality(DOMAIN got) = Len(got)
  <2>1. Len(got) \in Nat /\ DOMAIN got = 1..Len(got)
    BY LenProperties
  <2>2. PICK m \in Nat : m = Len(got)
    BY <2>1
  <2>3. IsFiniteSet(1..m) /\ Cardinality(1..m) = m
    BY UpToCount
  <2>. QED BY <2>1, <2>2, <2>3
<1>2. /\ EdgesTyped(h.edges) /\ EdgesCount(h.edges, got, N, weaker) /\ DOMAIN h = GraphFields
      /\ Indexed(h.fifo, h.spans, got) /\ WaitsOn(h.orphans, h.orphanCount, got, v)
      /\ h.orphanCount <= MaxSpans /\ DOMAIN h.orphans \cap DOMAIN h.spans = {}
  BY DEF Standing
<1>3. PICK u : WaitsOn(later, n, got, u) /\ Settled(got, u) = N
  <2>1. PICK o, c, list : o = h.orphans /\ c = h.orphanCount /\ list = GetOr(o, p, <<>>)
    OBVIOUS
  <2>2. WaitsOn(o, c, got, v) /\ got[last] \in Spans
    BY <1>1, <1>2, <2>1 DEF Settled
  <2>3. \E u : /\ WaitsOn(Updated(o, p, Append(list, got[last])), c + 1, got, u)
               /\ Settled(got, u) = Settled(got, v) \ {last}
    BY <2>1, <2>2, SpanParked
  <2>. QED BY <2>1, <2>3
<1>4. D = DOMAIN h.orphans \cup {p}
  BY DEF Updated
<1>. HIDE DEF later, n
<1>5. /\ DOMAIN k = GraphFields /\ k.edges = h.edges /\ k.fifo = h.fifo /\ k.spans = h.spans
      /\ k.orphans = later /\ k.orphanCount = n
  BY <1>2 DEF GraphFields
<1>. DEFINE left(gone) == n - Cardinality(WaitingFor(later, gone))
<1>6. PICK gone \in SUBSET D :
        /\ left(gone) <= MaxSpans \/ gone = D
        /\ gone # {} => \E q \in gone : left(gone \ {q}) > MaxSpans
        /\ t = [k EXCEPT !.orphans = Without(later, gone), !.orphanCount = left(gone)]
  <2>1. t \in Trimmings(k)
    BY DEF later, n
  <2>. HIDE DEF k
  <2>. QED BY <1>5, <2>1 DEF Trimmings
<1>7. /\ DOMAIN t = GraphFields /\ t.edges = h.edges /\ t.fifo = h.fifo /\ t.spans = h.spans
      /\ t.orphans = Without(later, gone) /\ t.orphanCount = left(gone)
  <2>. HIDE DEF k
  <2>. QED BY <1>5, <1>6 DEF GraphFields
<1>. DEFINE W == WaitingFor(later, gone)
            w == Without(u, W)
<1>8. /\ WaitsOn(Without(later, gone), n - Cardinality(W), got, w)
      /\ Settled(got, w) = N \cup Places(u, W) /\ W \subseteq DOMAIN u
      /\ n - Cardinality(W) \in Nat
  <2>1. Release(later, n, got, u, gone)
    BY <1>3, Released
  <2>2. gone \cap D = gone
    OBVIOUS
  <2>. QED BY <1>3, <2>1, <2>2 DEF Release
<1>9. n \in Nat /\ n <= Len(got)
  <2>1. u \in Injection(DOMAIN u, DOMAIN got) /\ IsFiniteSet(DOMAIN u) /\ n = Cardinality(DOMAIN u)
    BY <1>3 DEF WaitsOn, Injection, IsInjective
  <2>2. Cardinality(DOMAIN u) <= Cardinality(DOMAIN got)
    BY <1>1, <2>1, FS_Injection
  <2>. QED BY <1>1, <2>1, <2>2, FS_CardinalityType
<1>10. left(gone) <= MaxSpans
  <2>1. CASE gone = D
    <3>1. W = DOMAIN u
      BY <1>3, <2>1 DEF WaitsOn
    <3>2. n = Cardinality(W)
      BY <1>3, <3>1 DEF WaitsOn
    <3>. QED BY <1>9, <3>2, SizesAssumption
  <2>. QED BY <1>6, <2>1
<1>11. weaker => gone = {}
  <2>. SUFFICES ASSUME weaker, gone # {} PROVE FALSE
    OBVIOUS
  <2>1. Len(got) <= MaxSpans
    BY DEF Standing
  <2>2. PICK q \in gone : left(gone \ {q}) > MaxSpans
    BY <1>6
  <2>3. Cardinality(WaitingFor(later, gone \ {q})) \in Nat
    <3>1. WaitingFor(later, gone \ {q}) \subseteq W
      BY WaitingAre
    <3>2. IsFiniteSet(DOMAIN u)
      BY <1>3 DEF WaitsOn
    <3>. HIDE DEF W
    <3>. QED BY <1>8, <3>1, <3>2, FS_Subset, FS_CardinalityType
  <2>. QED BY <1>1, <1>9, <2>1, <2>2, <2>3, SizesAssumption
<1>12. weaker => Settled(got, w) = N
  <2>1. gone = {} => W = {}
    BY DEF WaitingFor
  <2>2. W = {} => Places(u, W) = {}
    BY DEF Places
  <2>. QED BY <1>8, <1>11, <2>1, <2>2
<1>13. EdgesCount(h.edges, got, Settled(got, w), weaker)
  <2>1. N \subseteq Settled(got, w)
    BY <1>8
  <2>2. \A a, b : a # b => LET S == ToldIn(got, a, b) \cap N
                               T == ToldIn(got, a, b) \cap Settled(got, w) IN
                           S \subseteq T /\ (weaker => S = T)
    <3>. HIDE DEF N, w
    <3>. QED BY <1>12, <2>1
  <2>. HIDE DEF N, w
  <2>. QED BY <1>1, <1>2, <2>2, CountMore
<1>14. DOMAIN t.orphans \cap DOMAIN t.spans = {}
  BY <1>2, <1>4, <1>7 DEF Without
<1>15. weaker => /\ Len(got) <= MaxSpans /\ \A j \in DOMAIN got : got[j].id \in DOMAIN t.spans
                 /\ \A i \in Settled(got, w) : got[i].parent = NoSpan \/ got[i].parent \in DOMAIN t.spans
  <2>1. weaker => /\ Len(got) <= MaxSpans /\ \A j \in DOMAIN got : got[j].id \in DOMAIN h.spans
                  /\ \A i \in N : got[i].parent = NoSpan \/ got[i].parent \in DOMAIN h.spans
    BY DEF Standing
  <2>. HIDE DEF N, w
  <2>. QED BY <1>7, <1>12, <2>1
<1>16. Standing(t, got, w, Settled(got, w), weaker)
  <2>1. WaitsOn(t.orphans, t.orphanCount, got, w) /\ t.orphanCount <= MaxSpans
    BY <1>7, <1>8, <1>10
  <2>. HIDE DEF w, N, D, W
  <2>. QED BY <1>2, <1>7, <1>13, <1>14, <1>15, <2>1 DEF Standing
<1>. QED BY <1>16
-----------------------------------------------------------------------------
LEMMA SpanObserved ==
  ASSUME NEW got \in Seq(Spans), NEW s \in Spans, NEW g, NEW w, NEW whole \in BOOLEAN,
         Standing(g, got, w, Settled(got, w), whole),
         NEW weaker \in BOOLEAN, weaker => whole /\ Len(got) + 1 <= MaxSpans,
         NEW t \in Observed(g, s)
  PROVE  \E v : Standing(t, Append(got, s), v, Settled(Append(got, s), v), weaker)
<1>. DEFINE h == Adopt(IndexSpan(CountSpan(g, s), s), s)
            later == Append(got, s)
            last == Len(got) + 1
<1>1. later \in Seq(Spans) /\ later[last] = s
  BY AppendProperties
<1>2. PICK v : /\ s.id \in DOMAIN h.spans /\ last \in Settled(later, v)
               /\ Standing(h, later, v, Settled(later, v) \ {last}, weaker)
  BY SpanAdopted
<1>3. \/ s.parent = NoSpan /\ t = h
      \/ /\ s.parent # NoSpan /\ s.parent \in DOMAIN h.spans
         /\ t = [h EXCEPT !.edges = AddEdge(@, h.spans[s.parent].service, s)]
      \/ /\ s.parent # NoSpan /\ s.parent \notin DOMAIN h.spans
         /\ t \in Trimmings([h EXCEPT !.orphans = Updated(@, s.parent, Append(GetOr(@, s.parent, <<>>), s)),
                                      !.orphanCount = @ + 1])
  BY Zenon DEF Observed
<1>. HIDE DEF h, later, last
<1>4. CASE s.parent = NoSpan /\ t = h
  BY <1>1, <1>2, <1>4, RootLinked DEF later
<1>5. CASE s.parent # NoSpan /\ s.parent \in DOMAIN h.spans
           /\ t = [h EXCEPT !.edges = AddEdge(@, h.spans[s.parent].service, s)]
  <2>1. PICK p : p = later[last].parent
    OBVIOUS
  <2>2. p \in DOMAIN h.spans /\ t = [h EXCEPT !.edges = AddEdge(@, h.spans[p].service, later[last])]
    BY <1>1, <1>5, <2>1
  <2>3. LET k == [h EXCEPT !.edges = AddEdge(@, h.spans[p].service, later[last])] IN
        Standing(k, later, v, Settled(later, v), weaker)
    BY <1>1, <1>2, <2>1, <2>2, CallLinked
  <2>. QED BY <2>2, <2>3 DEF later
<1>6. CASE /\ s.parent # NoSpan /\ s.parent \notin DOMAIN h.spans
           /\ t \in Trimmings([h EXCEPT !.orphans = Updated(@, s.parent, Append(GetOr(@, s.parent, <<>>), s)),
                                        !.orphanCount = @ + 1])
  <2>1. PICK p : p = later[last].parent
    OBVIOUS
  <2>2. /\ p # NoSpan /\ p \notin DOMAIN h.spans
        /\ t \in Trimmings([h EXCEPT !.orphans = Updated(@, p, Append(GetOr(@, p, <<>>), later[last])),
                                     !.orphanCount = @ + 1])
    BY <1>1, <1>6, <2>1
  <2>3. \E u : Standing(t, later, u, Settled(later, u), weaker)
    BY <1>1, <1>2, <2>1, <2>2, SpanWaits
  <2>. QED BY <2>3 DEF later
<1>. QED BY <1>3, <1>4, <1>5, <1>6

\* A graph that no span waits in.
LEMMA NoneWaits ==
  ASSUME NEW got \in Seq(Spans), NEW g, DOMAIN g = GraphFields, EdgesTyped(g.edges),
         g.spans = <<>>, g.fifo = <<>>, g.orphans = <<>>, g.orphanCount = 0,
         NEW whole \in BOOLEAN, EdgesCount(g.edges, got, DOMAIN got, whole), whole => got = <<>>
  PROVE  \E w : Standing(g, got, w, Settled(got, w), whole)
<1>. DEFINE w == [x \in {} |-> 1]
<1>1. DOMAIN <<>> = {} /\ Len(<<>>) = 0 /\ <<>> \in Seq(SpanIds)
  OBVIOUS
<1>2. WaitingFor(g.orphans, DOMAIN g.orphans) = {}
  BY <1>1 DEF WaitingFor
<1>3. WaitsOn(g.orphans, g.orphanCount, got, w)
  <2>1. IsFiniteSet({}) /\ Cardinality({}) = 0
    BY FS_EmptySet
  <2>. QED BY <1>1, <1>2, <2>1 DEF WaitsOn
<1>4. Indexed(g.fifo, g.spans, got)
  <2>1. Len(got) \in Nat
    BY LenProperties
  <2>. QED BY <1>1, <2>1, SizesAssumption DEF Indexed
<1>5. Settled(got, w) = DOMAIN got
  BY DEF Settled, Places
<1>6. g.orphanCount <= MaxSpans /\ DOMAIN g.orphans \cap DOMAIN g.spans = {}
  BY <1>1, SizesAssumption
<1>7. whole => /\ Len(got) <= MaxSpans
               /\ \A j \in DOMAIN got : got[j].id \in DOMAIN g.spans
               /\ \A i \in DOMAIN got : got[i].parent = NoSpan \/ got[i].parent \in DOMAIN g.spans
  BY <1>1, SizesAssumption
<1>. HIDE DEF w
<1>8. Standing(g, got, w, Settled(got, w), whole)
  BY <1>3, <1>4, <1>5, <1>6, <1>7 DEF Standing
<1>. QED BY <1>8

TopoIsWhole == topo.restarts = 0 /\ Len(topo.got) <= MaxSpans
TopoInv ==
  /\ DOMAIN topo = {"graph", "got", "restarts"} /\ topo.got \in Seq(Spans) /\ topo.restarts \in {0, 1}
  /\ \E w : Standing(topo.graph, topo.got, w, Settled(topo.got, w), TopoIsWhole)

LEMMA TopoStart == TopologyInit => TopoInv
<1>. SUFFICES ASSUME TopologyInit PROVE TopoInv
  OBVIOUS
<1>1. /\ DOMAIN topo = {"graph", "got", "restarts"} /\ topo.got = <<>> /\ topo.restarts = 0
      /\ topo.graph = EmptyGraph /\ topo.got \in Seq(Spans) /\ DOMAIN topo.got = {}
  BY DEF TopologyInit
<1>2. PICK got, g : got = topo.got /\ g = topo.graph
  OBVIOUS
<1>3. /\ DOMAIN g = GraphFields /\ g.edges = <<>> /\ g.spans = <<>> /\ g.fifo = <<>>
      /\ g.orphans = <<>> /\ g.orphanCount = 0
  BY <1>1, <1>2 DEF EmptyGraph, GraphFields
<1>4. EdgesTyped(<<>>)
  BY DEF EdgesTyped
<1>5. PICK whole \in BOOLEAN : whole = TopoIsWhole
  BY DEF TopoIsWhole
<1>6. EdgesCount(<<>>, got, DOMAIN got, whole)
  <2>. SUFFICES ASSUME NEW a, NEW b, a # b
                PROVE  LET T == ToldIn(got, a, b) \cap DOMAIN got IN
                       Counts(CallOf(<<>>, a, b), T, FailedIn(got, T), whole)
    BY DEF EdgesCount
  <2>1. ToldIn(got, a, b) \cap DOMAIN got = {}
    BY <1>1, <1>2
  <2>2. FailedIn(got, {}) = {} /\ Cardinality({}) = 0
    BY FS_EmptySet DEF FailedIn
  <2>3. CallOf(<<>>, a, b) = NoCalls
    BY DEF CallOf, GetOr
  <2>4. NoCalls.calls = 0 /\ NoCalls.errors = 0
    BY DEF NoCalls
  <2>. DEFINE T == ToldIn(got, a, b) \cap DOMAIN got
              e == CallOf(<<>>, a, b)
  <2>5. Cardinality(T) = 0 /\ Cardinality(FailedIn(got, T)) = 0
    BY <2>1, <2>2
  <2>6. e.calls = 0 /\ e.errors = 0
    BY <2>3, <2>4
  <2>. HIDE DEF T, e
  <2>7. Counts(e, T, FailedIn(got, T), whole)
    BY <2>5, <2>6 DEF Counts
  <2>. QED BY <2>7 DEF T, e
<1>7. \E w : Standing(g, got, w, Settled(got, w), whole)
  <2>1. EdgesTyped(g.edges) /\ EdgesCount(g.edges, got, DOMAIN got, whole)
        /\ got \in Seq(Spans) /\ got = <<>>
    BY <1>1, <1>2, <1>3, <1>4, <1>6
  <2>. QED BY <1>3, <2>1, NoneWaits
<1>. QED BY <1>1, <1>2, <1>5, <1>7 DEF TopoInv

LEMMA TopoStep == TopoInv /\ [TopologyNext]_topoVars => TopoInv'
<1>. SUFFICES ASSUME TopoInv, [TopologyNext]_topoVars PROVE TopoInv'
  OBVIOUS
<1>1. PICK got, g, reborn : got = topo.got /\ g = topo.graph /\ reborn = topo.restarts
  OBVIOUS
<1>2. PICK whole \in BOOLEAN : whole = TopoIsWhole
  BY DEF TopoIsWhole
<1>3. PICK w : Standing(g, got, w, Settled(got, w), whole)
  BY <1>1, <1>2 DEF TopoInv
<1>4. got \in Seq(Spans) /\ Len(got) \in Nat /\ reborn \in {0, 1}
      /\ DOMAIN topo = {"graph", "got", "restarts"}
  BY <1>1, LenProperties DEF TopoInv
<1>5. ASSUME NEW s \in Spans, Observe(s) PROVE TopoInv'
  <2>1. PICK t \in Observed(g, s) : topo' = [topo EXCEPT !.graph = t, !.got = Append(@, s)]
    BY <1>1, <1>5 DEF Observe
  <2>2. /\ DOMAIN topo' = {"graph", "got", "restarts"} /\ topo'.graph = t
        /\ topo'.got = Append(got, s) /\ topo'.restarts = reborn
    BY <1>1, <1>4, <2>1
  <2>3. PICK weaker \in BOOLEAN : weaker = (TopoIsWhole)'
    BY DEF TopoIsWhole
  <2>7. /\ weaker <=> topo'.restarts = 0 /\ Len(topo'.got) <= MaxSpans
        /\ whole <=> topo.restarts = 0 /\ Len(topo.got) <= MaxSpans
    BY <1>2, <2>3, Zenon DEF TopoIsWhole
  <2>4. weaker => whole /\ Len(got) + 1 <= MaxSpans
    <3>1. Len(Append(got, s)) = Len(got) + 1
      BY <1>4, AppendProperties
    <3>. QED BY <1>1, <1>4, <2>2, <2>7, <3>1, SizesAssumption
  <2>5. \E v : Standing(t, Append(got, s), v, Settled(Append(got, s), v), weaker)
    BY <1>3, <1>4, <2>4, SpanObserved
  <2>6. Append(got, s) \in Seq(Spans)
    BY <1>4, AppendProperties
  <2>. QED BY <1>4, <2>2, <2>3, <2>5, <2>6 DEF TopoInv
<1>6. ASSUME RestoreGraph PROVE TopoInv'
  <2>1. PICK t : t = [EmptyGraph EXCEPT !.nodes = g.nodes, !.edges = g.edges]
    OBVIOUS
  <2>2. /\ DOMAIN topo' = {"graph", "got", "restarts"} /\ topo'.graph = t
        /\ topo'.got = got /\ topo'.restarts = 1
    BY <1>1, <1>4, <1>6, <2>1 DEF RestoreGraph
  <2>3. /\ DOMAIN t = GraphFields /\ t.edges = g.edges /\ t.spans = <<>> /\ t.fifo = <<>>
        /\ t.orphans = <<>> /\ t.orphanCount = 0
    BY <2>1 DEF EmptyGraph, GraphFields
  <2>4. PICK weaker \in BOOLEAN : weaker = (TopoIsWhole)'
    BY DEF TopoIsWhole
  <2>5. ~weaker
    <3>1. weaker <=> topo'.restarts = 0 /\ Len(topo'.got) <= MaxSpans
      BY <2>4, Zenon DEF TopoIsWhole
    <3>. QED BY <2>2, <3>1
  <2>6. EdgesTyped(g.edges) /\ EdgesCount(g.edges, got, Settled(got, w), whole)
    BY <1>3 DEF Standing
  <2>7. IsFiniteSet(DOMAIN got)
    BY <1>4, FS_Interval, LenProperties
  <2>8. PICK N : N = Settled(got, w)
    OBVIOUS
  <2>9. EdgesCount(g.edges, got, DOMAIN got, weaker)
    <3>1. \A a, b : a # b => LET S == ToldIn(got, a, b) \cap N
                                 T == ToldIn(got, a, b) \cap DOMAIN got IN
                             S \subseteq T /\ (weaker => S = T)
      BY <2>5, <2>8 DEF ToldIn
    <3>2. \A i \in N : got[i] = got[i]
      OBVIOUS
    <3>3. PICK e : e = g.edges
      OBVIOUS
    <3>4. EdgesCount(e, got, DOMAIN got, weaker)
      BY <2>5, <2>6, <2>7, <2>8, <3>1, <3>2, <3>3, CountMore
    <3>. QED BY <3>3, <3>4
  <2>10. \E v : Standing(t, got, v, Settled(got, v), weaker)
    BY <1>4, <2>3, <2>5, <2>6, <2>9, NoneWaits
  <2>. QED BY <1>4, <2>2, <2>4, <2>10 DEF TopoInv
<1>7. CASE UNCHANGED topoVars
  BY <1>7 DEF TopoInv, TopoIsWhole, topoVars
<1>. QED BY <1>5, <1>6, <1>7 DEF TopologyNext
-----------------------------------------------------------------------------
LEMMA StandingTells ==
  ASSUME NEW got \in Seq(Spans), NEW g, NEW w, NEW whole \in BOOLEAN,
         Standing(g, got, w, Settled(got, w), whole)
  PROVE  EdgesCount(g.edges, got, DOMAIN got, whole)
<1>1. IsFiniteSet(DOMAIN got)
  BY FS_Interval, LenProperties
<1>. DEFINE F == Settled(got, w)
<1>2. ASSUME whole, NEW a, NEW b, NEW i \in ToldIn(got, a, b) PROVE i \in F
  <2>1. PICK j \in DOMAIN got : got[j].id = got[i].parent /\ got[j].service = a
    BY DEF ToldIn
  <2>2. got[i].parent \in DOMAIN g.spans
    BY <1>2, <2>1 DEF Standing
  <2>3. got[i].parent \notin DOMAIN g.orphans
    BY <2>2 DEF Standing
  <2>4. ASSUME NEW x \in DOMAIN w, w[x] = i PROVE FALSE
    <3>1. x \in WaitingFor(g.orphans, DOMAIN g.orphans) /\ got[w[x]].parent = x[1]
      BY DEF Standing, WaitsOn
    <3>2. PICK p \in DOMAIN g.orphans : \E k \in DOMAIN g.orphans[p] : x = <<p, k>>
      BY <3>1, WaitingAre
    <3>. QED BY <2>3, <2>4, <3>1, <3>2
  <2>5. i \in DOMAIN got
    BY DEF ToldIn
  <2>. QED BY <2>4, <2>5 DEF Settled, Places
<1>3. PICK e : e = g.edges
  OBVIOUS
<1>4. EdgesTyped(e) /\ EdgesCount(e, got, F, whole)
  BY <1>3 DEF Standing
<1>. HIDE DEF F
<1>5. \A a, b : a # b => LET S == ToldIn(got, a, b) \cap F
                             T == ToldIn(got, a, b) \cap DOMAIN got IN
                         S \subseteq T /\ (whole => S = T)
  BY <1>2 DEF ToldIn
<1>6. \A i \in F : got[i] = got[i]
  OBVIOUS
<1>7. EdgesCount(e, got, DOMAIN got, whole)
  BY <1>1, <1>4, <1>5, <1>6, CountMore
<1>. QED BY <1>3, <1>7

LEMMA EdgesTell == TopoInv => EdgesTellCalls
<1>. SUFFICES ASSUME TopoInv PROVE EdgesTellCalls
  OBVIOUS
<1>1. PICK got, g : got = topo.got /\ g = topo.graph
  OBVIOUS
<1>2. PICK whole \in BOOLEAN : whole = TopoIsWhole
  BY DEF TopoIsWhole
<1>3. PICK w : Standing(g, got, w, Settled(got, w), whole)
  BY <1>1, <1>2 DEF TopoInv
<1>4. got \in Seq(Spans)
  BY <1>1 DEF TopoInv
<1>5. EdgesCount(g.edges, got, DOMAIN got, whole) /\ EdgesTyped(g.edges)
  BY <1>3, <1>4, StandingTells DEF Standing
<1>6. ASSUME NEW a \in Services, NEW b \in Services, a # b
      PROVE  LET truth == CallsTold(a, b)
                 e == GetOr(g.edges, <<a, b>>, NoCalls) IN
             /\ e.calls <= Cardinality(truth)
             /\ e.errors <= Cardinality({i \in truth : got[i].err})
             /\ e.durations <= MaxDurations
             /\ whole => /\ e.calls = Cardinality(truth)
                         /\ e.errors = Cardinality({i \in truth : got[i].err})
  <2>. DEFINE truth == CallsTold(a, b)
              e == GetOr(g.edges, <<a, b>>, NoCalls)
  <2>1. truth = ToldIn(got, a, b) /\ truth \cap DOMAIN got = truth
    BY <1>1 DEF CallsTold, ToldIn
  <2>2. Counts(e, truth, FailedIn(got, truth), whole)
    <3>1. LET T == ToldIn(got, a, b) \cap DOMAIN got IN
          Counts(CallOf(g.edges, a, b), T, FailedIn(got, T), whole)
      BY <1>5, <1>6 DEF EdgesCount
    <3>. HIDE DEF truth
    <3>. QED BY <2>1, <3>1 DEF CallOf
  <2>3. e.durations \in 0..MaxDurations
    <3>1. PICK edges : edges = g.edges
      OBVIOUS
    <3>2. CallOf(edges, a, b).durations \in 0..MaxDurations
      BY <1>5, <3>1, CallTyped
    <3>. QED BY <3>1, <3>2 DEF CallOf
  <2>4. e.durations <= MaxDurations
    BY <2>3, SizesAssumption
  <2>. HIDE DEF truth, e
  <2>5. FailedIn(got, truth) = {i \in truth : got[i].err}
    BY DEF FailedIn
  <2>6. /\ e.calls <= Cardinality(truth)
        /\ e.errors <= Cardinality({i \in truth : got[i].err})
        /\ whole => /\ e.calls = Cardinality(truth)
                    /\ e.errors = Cardinality({i \in truth : got[i].err})
    BY <2>2, <2>5 DEF Counts
  <2>. QED BY <2>4, <2>6 DEF truth, e
<1>7. /\ Len(g.fifo) <= MaxSpans /\ ToSet(g.fifo) = DOMAIN g.spans /\ IsInjective(g.fifo)
  <2>1. PICK f, sp : f = g.fifo /\ sp = g.spans
    OBVIOUS
  <2>2. Indexed(f, sp, got)
    BY <1>3, <2>1 DEF Standing
  <2>3. /\ Len(f) <= MaxSpans /\ DOMAIN f = 1..Len(f)
        /\ \A p \in DOMAIN sp : \E i \in 1..Len(f) : f[i] = p
        /\ \A i \in 1..Len(f) : f[i] \in DOMAIN sp
        /\ \A i, j \in 1..Len(f) : f[i] = f[j] => i = j
    BY <2>2, LenProperties DEF Indexed
  <2>4. ToSet(f) = DOMAIN sp
    <3>1. ToSet(f) = {f[i] : i \in 1..Len(f)}
      BY <2>3 DEF ToSet
    <3>2. \A p : p \in ToSet(f) <=> \E i \in 1..Len(f) : f[i] = p
      BY <3>1
    <3>3. \A p : p \in ToSet(f) <=> p \in DOMAIN sp
      BY <2>3, <3>2
    <3>. QED BY <3>3
  <2>5. IsInjective(f)
    BY <2>3 DEF IsInjective
  <2>. QED BY <2>1, <2>3, <2>4, <2>5
<1>8. /\ g.orphanCount = Cardinality(WaitingFor(g.orphans, DOMAIN g.orphans))
      /\ g.orphanCount <= MaxSpans /\ DOMAIN g.orphans \cap DOMAIN g.spans = {}
  BY <1>3 DEF Standing, WaitsOn
<1>9. whole <=> topo.restarts = 0 /\ Len(topo.got) <= MaxSpans
  BY <1>2, Zenon DEF TopoIsWhole
<1>. QED BY <1>1, <1>6, <1>7, <1>8, <1>9 DEF EdgesTellCalls
-----------------------------------------------------------------------------
(* The search by levels: what is seen grows by the callees of all of it.   *)
Callees(edges, front) == {e[2] : e \in {e \in DOMAIN edges : e[1] \in front}}
LevelAfter(edges, l) ==
  LET next == Callees(edges, l.front) \ l.seen IN [seen |-> l.seen \cup next, front |-> next]
IsLevels(level, n, edges, from) ==
  level = [d \in 0..n |-> IF d = 0 THEN [seen |-> {from}, front |-> {from}]
                          ELSE LevelAfter(edges, level[d - 1])]
LevelAt(edges, from, n) == (CHOOSE level : IsLevels(level, n, edges, from))[n]

LEMMA LevelsExist ==
  ASSUME NEW edges, NEW from, NEW n \in Nat
  PROVE  \E level : IsLevels(level, n, edges, from)
<1>. DEFINE Bad == {i \in Nat : ~ \E level : IsLevels(level, i, edges, from)}
            start == [seen |-> {from}, front |-> {from}]
<1>1. Bad = {}
  <2>. SUFFICES ASSUME Bad # {} PROVE FALSE
    OBVIOUS
  <2>1. PICK i \in Bad : \A j \in Bad : i <= j
    <3>. HIDE DEF Bad
    <3>1. Bad \in SUBSET Nat
      BY DEF Bad
    <3>. QED BY <3>1, LeastIn
  <2>2. i \in Nat /\ ~ \E level : IsLevels(level, i, edges, from)
    BY <2>1
  <2>3. CASE i = 0
    <3>. DEFINE g == [j \in 0..0 |-> start]
    <3>1. g = [j \in 0..0 |-> IF j = 0 THEN start ELSE LevelAfter(edges, g[j - 1])]
      OBVIOUS
    <3>. QED BY <2>2, <2>3, <3>1 DEF IsLevels
  <2>4. CASE i # 0
    <3>. DEFINE p == i - 1
    <3>1. p \in Nat /\ p + 1 = i /\ p \notin Bad
      BY <2>1, <2>2, <2>4
    <3>2. PICK g : IsLevels(g, p, edges, from)
      BY <3>1
    <3>. HIDE DEF p, Bad
    <3>. DEFINE final == LevelAfter(edges, g[p])
                h == [j \in 0..i |-> IF j = i THEN final ELSE g[j]]
    <3>3. \A j \in 0..p : g[j] = IF j = 0 THEN start ELSE LevelAfter(edges, g[j - 1])
      BY <3>2 DEF IsLevels
    <3>. HIDE DEF start
    <3>4. ASSUME NEW j \in 0..i
          PROVE  h[j] = IF j = 0 THEN start ELSE LevelAfter(edges, h[j - 1])
      <4>1. CASE j = i
        <5>1. j # 0 /\ j - 1 = p /\ p \in 0..i /\ p # i
          BY <2>4, <3>1, <4>1
        <5>2. h[p] = g[p] /\ h[j] = final
          BY <4>1, <5>1
        <5>. HIDE DEF h
        <5>. QED BY <4>1, <5>1, <5>2
      <4>2. CASE j # i /\ j # 0
        <5>1. j \in 0..p /\ j - 1 \in 0..i /\ j - 1 # i
          BY <3>1, <4>2
        <5>2. h[j] = g[j] /\ h[j - 1] = g[j - 1]
          BY <4>2, <5>1
        <5>. HIDE DEF h
        <5>. QED BY <3>3, <4>2, <5>1, <5>2
      <4>3. CASE j # i /\ j = 0
        <5>1. j \in 0..p
          BY <3>1, <4>3
        <5>2. h[j] = g[j]
          BY <4>3
        <5>. HIDE DEF h
        <5>. QED BY <3>3, <4>3, <5>1, <5>2
      <4>. QED BY <4>1, <4>2, <4>3
    <3>5. h = [j \in 0..i |-> h[j]]
      OBVIOUS
    <3>. HIDE DEF h
    <3>6. h = [j \in 0..i |-> IF j = 0 THEN start ELSE LevelAfter(edges, h[j - 1])]
      BY <3>4, <3>5
    <3>. QED BY <2>2, <3>6 DEF IsLevels, start
  <2>. QED BY <2>3, <2>4
<1>. QED BY <1>1

LEMMA LevelsAgree ==
  ASSUME NEW edges, NEW from, NEW n \in Nat, NEW m \in Nat, n <= m,
         NEW f, IsLevels(f, n, edges, from), NEW h, IsLevels(h, m, edges, from)
  PROVE  f[n] = h[n]
<1>. DEFINE Bad == {i \in 0..n : f[i] # h[i]}
            start == [seen |-> {from}, front |-> {from}]
<1>1. Bad = {}
  <2>. SUFFICES ASSUME Bad # {} PROVE FALSE
    OBVIOUS
  <2>1. PICK i \in Bad : \A j \in Bad : i <= j
    <3>. HIDE DEF Bad
    <3>1. Bad \in SUBSET Nat
      BY DEF Bad
    <3>. QED BY <3>1, LeastIn
  <2>2. /\ \A j \in 0..n : f[j] = IF j = 0 THEN start ELSE LevelAfter(edges, f[j - 1])
        /\ \A j \in 0..m : h[j] = IF j = 0 THEN start ELSE LevelAfter(edges, h[j - 1])
    BY DEF IsLevels
  <2>. HIDE DEF start
  <2>3. CASE i = 0
    BY <2>1, <2>2, <2>3
  <2>4. CASE i # 0
    <3>1. i - 1 \in 0..n /\ i - 1 \notin Bad /\ i \in 0..n /\ i \in 0..m
      BY <2>1, <2>4
    <3>2. f[i - 1] = h[i - 1]
      BY <3>1
    <3>. QED BY <2>1, <2>2, <2>4, <3>1, <3>2
  <2>. QED BY <2>3, <2>4
<1>. QED BY <1>1

LEMMA LevelsGrow ==
  ASSUME NEW edges, NEW from
  PROVE  /\ LevelAt(edges, from, 0) = [seen |-> {from}, front |-> {from}]
         /\ \A n \in Nat : LevelAt(edges, from, n + 1) = LevelAfter(edges, LevelAt(edges, from, n))
<1>. DEFINE L(n) == CHOOSE level : IsLevels(level, n, edges, from)
<1>1. \A n \in Nat : IsLevels(L(n), n, edges, from)
  BY LevelsExist
<1>. HIDE DEF L
<1>2. \A n \in Nat : LevelAt(edges, from, n) = L(n)[n]
  BY DEF LevelAt, L
<1>3. LevelAt(edges, from, 0) = [seen |-> {from}, front |-> {from}]
  <2>1. IsLevels(L(0), 0, edges, from)
    BY <1>1
  <2>2. L(0)[0] = [seen |-> {from}, front |-> {from}]
    BY <2>1 DEF IsLevels
  <2>. QED BY <1>2, <2>2
<1>4. ASSUME NEW n \in Nat
      PROVE  LevelAt(edges, from, n + 1) = LevelAfter(edges, LevelAt(edges, from, n))
  <2>1. PICK f, h : f = L(n) /\ h = L(n + 1)
    OBVIOUS
  <2>2. n + 1 \in Nat /\ n <= n + 1 /\ n + 1 \in 0..n + 1 /\ n + 1 # 0 /\ (n + 1) - 1 = n
    OBVIOUS
  <2>3. IsLevels(f, n, edges, from) /\ IsLevels(h, n + 1, edges, from)
    BY <1>1, <2>1, <2>2
  <2>4. f[n] = h[n]
    BY <2>2, <2>3, LevelsAgree
  <2>5. h[n + 1] = LevelAfter(edges, h[n])
    BY <2>2, <2>3 DEF IsLevels
  <2>6. LevelAt(edges, from, n) = f[n] /\ LevelAt(edges, from, n + 1) = h[n + 1]
    BY <1>2, <2>1, <2>2
  <2>. QED BY <2>4, <2>5, <2>6
<1>. QED BY <1>3, <1>4

LEMMA ReachesIs ==
  ASSUME NEW g, NEW a, NEW b, NEW n \in Nat
  PROVE  Reaches(g, a, b, n) <=> a # b /\ b \in LevelAt(g.edges, a, n).seen
BY DEF Reaches, LevelAt, IsLevels, LevelAfter, Callees
-----------------------------------------------------------------------------
CallersOf(edges, x, front) == \E e \in DOMAIN edges : e[1] \in front /\ x = e[2]
LEMMA CalleesAre ==
  ASSUME NEW edges, NEW front
  PROVE  \A x : x \in Callees(edges, front) <=> CallersOf(edges, x, front)
BY DEF Callees, CallersOf

LEMMA SeenGrows ==
  ASSUME NEW edges, NEW from
  PROVE  /\ LevelAt(edges, from, 0).seen = {from}
         /\ \A n \in Nat : LevelAt(edges, from, n + 1).seen
                             = LevelAt(edges, from, n).seen \cup Callees(edges, LevelAt(edges, from, n).seen)
<1>. DEFINE L(n) == LevelAt(edges, from, n)
            Closed(n) == /\ L(n).front \subseteq L(n).seen
                         /\ Callees(edges, L(n).seen \ L(n).front) \subseteq L(n).seen
            Bad == {i \in Nat : ~Closed(i)}
<1>1. L(0) = [seen |-> {from}, front |-> {from}] /\ \A n \in Nat : L(n + 1) = LevelAfter(edges, L(n))
  BY LevelsGrow
<1>. HIDE DEF L
<1>2. Bad = {}
  <2>. SUFFICES ASSUME Bad # {} PROVE FALSE
    OBVIOUS
  <2>1. PICK i \in Bad : \A j \in Bad : i <= j
    <3>. HIDE DEF Bad
    <3>1. Bad \in SUBSET Nat
      BY DEF Bad
    <3>. QED BY <3>1, LeastIn
  <2>2. i \in Nat /\ ~Closed(i)
    BY <2>1
  <2>3. CASE i = 0
    <3>1. L(0).seen = {from} /\ L(0).front = {from}
      BY <1>1
    <3>2. Callees(edges, {from} \ {from}) = {}
      BY CalleesAre DEF CallersOf
    <3>. QED BY <2>2, <2>3, <3>1, <3>2
  <2>4. CASE i # 0
    <3>1. PICK p \in Nat : p + 1 = i
      <4>1. i - 1 \in Nat /\ (i - 1) + 1 = i
        BY <2>2, <2>4
      <4>. QED BY <4>1
    <3>2. p \notin Bad
      BY <2>1, <3>1
    <3>3. Closed(p)
      BY <3>2
    <3>. DEFINE next == Callees(edges, L(p).front) \ L(p).seen
    <3>4. L(i).seen = L(p).seen \cup next /\ L(i).front = next
      <4>1. L(i) = LevelAfter(edges, L(p))
        BY <1>1, <3>1
      <4>. QED BY <4>1 DEF LevelAfter
    <3>5. L(i).seen \ L(i).front = L(p).seen
      BY <3>4
    <3>6. Callees(edges, L(p).seen) \subseteq L(i).seen
      <4>. SUFFICES ASSUME NEW x \in Callees(edges, L(p).seen) PROVE x \in L(i).seen
        OBVIOUS
      <4>1. PICK e \in DOMAIN edges : e[1] \in L(p).seen /\ x = e[2]
        BY CalleesAre DEF CallersOf
      <4>2. CASE e[1] \in L(p).front
        <5>1. x \in Callees(edges, L(p).front)
          BY <4>1, <4>2, CalleesAre DEF CallersOf
        <5>. QED BY <3>4, <5>1
      <4>3. CASE e[1] \notin L(p).front
        <5>1. x \in Callees(edges, L(p).seen \ L(p).front)
          BY <4>1, <4>3, CalleesAre DEF CallersOf
        <5>. QED BY <3>3, <3>4, <5>1
      <4>. QED BY <4>2, <4>3
    <3>. QED BY <2>2, <3>4, <3>5, <3>6
  <2>. QED BY <2>3, <2>4
<1>3. ASSUME NEW n \in Nat
      PROVE  L(n + 1).seen = L(n).seen \cup Callees(edges, L(n).seen)
  <2>1. Closed(n)
    BY <1>2
  <2>. DEFINE next == Callees(edges, L(n).front) \ L(n).seen
  <2>2. L(n + 1).seen = L(n).seen \cup next
    <3>1. L(n + 1) = LevelAfter(edges, L(n))
      BY <1>1
    <3>. QED BY <3>1 DEF LevelAfter
  <2>3. Callees(edges, L(n).front) \subseteq Callees(edges, L(n).seen)
    BY <2>1, CalleesAre DEF CallersOf
  <2>4. Callees(edges, L(n).seen) \subseteq L(n).seen \cup Callees(edges, L(n).front)
    <3>. SUFFICES ASSUME NEW x \in Callees(edges, L(n).seen)
                  PROVE  x \in L(n).seen \cup Callees(edges, L(n).front)
      OBVIOUS
    <3>1. PICK e \in DOMAIN edges : e[1] \in L(n).seen /\ x = e[2]
      BY CalleesAre DEF CallersOf
    <3>2. CASE e[1] \in L(n).front
      BY <3>1, <3>2, CalleesAre DEF CallersOf
    <3>3. CASE e[1] \notin L(n).front
      <4>1. x \in Callees(edges, L(n).seen \ L(n).front)
        BY <3>1, <3>3, CalleesAre DEF CallersOf
      <4>. QED BY <2>1, <4>1
    <3>. QED BY <3>2, <3>3
  <2>. QED BY <2>2, <2>3, <2>4
<1>4. L(0).seen = {from}
  BY <1>1
<1>. QED BY <1>3, <1>4 DEF L

\* A depth more sees what the callees see.
LEMMA SeenFrom ==
  ASSUME NEW edges, NEW a
  PROVE  \A n \in Nat : \A x : x \in LevelAt(edges, a, n + 1).seen
           <=> x = a \/ \E e \in DOMAIN edges : e[1] = a /\ x \in LevelAt(edges, e[2], n).seen
<1>. DEFINE S(c, n) == LevelAt(edges, c, n).seen
            Far(x, n) == x = a \/ \E e \in DOMAIN edges : e[1] = a /\ x \in S(e[2], n)
            Right(n) == \A x : x \in S(a, n + 1) <=> Far(x, n)
            Bad == {i \in Nat : ~Right(i)}
<1>1. \A c : S(c, 0) = {c}
  BY SeenGrows
<1>2. \A c : \A n \in Nat : S(c, n + 1) = S(c, n) \cup Callees(edges, S(c, n))
  BY SeenGrows
<1>. HIDE DEF S
<1>3. \A c : \A n \in Nat : \A x : x \in S(c, n + 1) <=> x \in S(c, n) \/ CallersOf(edges, x, S(c, n))
  BY <1>2, CalleesAre
<1>4. Bad = {}
  <2>. SUFFICES ASSUME Bad # {} PROVE FALSE
    OBVIOUS
  <2>1. PICK i \in Bad : \A j \in Bad : i <= j
    <3>. HIDE DEF Bad
    <3>1. Bad \in SUBSET Nat
      BY DEF Bad
    <3>. QED BY <3>1, LeastIn
  <2>2. i \in Nat /\ ~Right(i)
    BY <2>1
  <2>3. CASE i = 0
    <3>1. \A x : x \in S(a, 1) <=> x = a \/ CallersOf(edges, x, {a})
      <4>1. 0 + 1 = 1 /\ 0 \in Nat
        OBVIOUS
      <4>2. \A x : x \in S(a, 0 + 1) <=> x \in S(a, 0) \/ CallersOf(edges, x, S(a, 0))
        BY <1>3, <4>1
      <4>. QED BY <1>1, <4>1, <4>2
    <3>2. \A x : Far(x, 0) <=> x = a \/ \E e \in DOMAIN edges : e[1] = a /\ x = e[2]
      BY <1>1
    <3>3. \A x : CallersOf(edges, x, {a}) <=> \E e \in DOMAIN edges : e[1] = a /\ x = e[2]
      BY DEF CallersOf
    <3>4. i + 1 = 1
      BY <2>3
    <3>. HIDE DEF Far
    <3>. QED BY <2>2, <2>3, <3>1, <3>2, <3>3, <3>4
  <2>4. CASE i # 0
    <3>1. PICK p \in Nat : p + 1 = i
      <4>1. i - 1 \in Nat /\ (i - 1) + 1 = i
        BY <2>2, <2>4
      <4>. QED BY <4>1
    <3>2. p \notin Bad
      BY <2>1, <3>1
    <3>3. \A x : x \in S(a, i) <=> Far(x, p)
      BY <3>1, <3>2
    <3>4. \A x : x \in S(a, i + 1) <=> x \in S(a, i) \/ CallersOf(edges, x, S(a, i))
      BY <1>3, <2>2
    <3>5. \A c, x : x \in S(c, i) <=> x \in S(c, p) \/ CallersOf(edges, x, S(c, p))
      BY <1>3, <3>1
    <3>6. \A c : c \in S(c, p)
      <4>. DEFINE Lost == {k \in Nat : \E c : c \notin S(c, k)}
      <4>1. Lost = {}
        <5>. SUFFICES ASSUME Lost # {} PROVE FALSE
          OBVIOUS
        <5>1. PICK k \in Lost : \A j \in Lost : k <= j
          <6>. HIDE DEF Lost
          <6>1. Lost \in SUBSET Nat
            BY DEF Lost
          <6>. QED BY <6>1, LeastIn
        <5>2. CASE k = 0
          BY <1>1, <5>1, <5>2
        <5>3. CASE k # 0
          <6>1. PICK m \in Nat : m + 1 = k /\ m \notin Lost
            <7>1. k - 1 \in Nat /\ (k - 1) + 1 = k /\ k - 1 \notin Lost
              BY <5>1, <5>3
            <7>. QED BY <7>1
          <6>2. \A c : c \in S(c, m)
            BY <6>1
          <6>3. \A c : S(c, m + 1) = S(c, m) \cup Callees(edges, S(c, m))
            BY <1>2
          <6>4. \A c : c \in S(c, k)
            BY <6>1, <6>2, <6>3
          <6>. QED BY <5>1, <6>4
        <5>. QED BY <5>2, <5>3
      <4>. QED BY <4>1
    <3>7. ASSUME NEW x, x \in S(a, i + 1) PROVE Far(x, i)
      <4>1. CASE x \in S(a, i)
        BY <3>3, <3>5, <4>1
      <4>2. CASE CallersOf(edges, x, S(a, i))
        <5>1. PICK e \in DOMAIN edges : e[1] \in S(a, i) /\ x = e[2]
          BY <4>2 DEF CallersOf
        <5>2. CASE e[1] = a
          <6>1. x \in S(e[2], i)
            BY <3>5, <3>6, <5>1
          <6>. QED BY <5>1, <5>2, <6>1
        <5>3. CASE e[1] # a
          <6>1. PICK f \in DOMAIN edges : f[1] = a /\ e[1] \in S(f[2], p)
            BY <3>3, <5>1, <5>3
          <6>2. CallersOf(edges, x, S(f[2], p))
            BY <5>1, <6>1 DEF CallersOf
          <6>3. x \in S(f[2], i)
            BY <3>5, <6>2
          <6>. QED BY <6>1, <6>3
        <5>. QED BY <5>2, <5>3
      <4>. QED BY <3>4, <3>7, <4>1, <4>2
    <3>8. ASSUME NEW x, Far(x, i) PROVE x \in S(a, i + 1)
      <4>1. CASE x = a
        BY <3>3, <3>4, <4>1
      <4>2. CASE x # a
        <5>1. PICK f \in DOMAIN edges : f[1] = a /\ x \in S(f[2], i)
          BY <3>8, <4>2
        <5>2. CASE x \in S(f[2], p)
          BY <3>3, <3>4, <5>1, <5>2
        <5>3. CASE CallersOf(edges, x, S(f[2], p))
          <6>1. PICK e \in DOMAIN edges : e[1] \in S(f[2], p) /\ x = e[2]
            BY <5>3 DEF CallersOf
          <6>2. e[1] \in S(a, i)
            BY <3>3, <5>1, <6>1
          <6>3. CallersOf(edges, x, S(a, i))
            BY <6>1, <6>2 DEF CallersOf
          <6>. QED BY <3>4, <6>3
        <5>. QED BY <3>5, <5>1, <5>2, <5>3
      <4>. QED BY <4>1, <4>2
    <3>. HIDE DEF Far
    <3>. QED BY <2>2, <3>7, <3>8
  <2>. QED BY <2>3, <2>4
<1>. QED BY <1>4 DEF S

LEMMA ReachesTell ==
  ASSUME NEW g, EdgesTyped(g.edges)
  PROVE  \A a, b \in Services, d \in 1..MaxDepth :
           a # b => (Reaches(g, a, b, d) <=>
                       \/ <<a, b>> \in DOMAIN g.edges
                       \/ d > 1 /\ \E c \in Services :
                            <<a, c>> \in DOMAIN g.edges /\ Reaches(g, c, b, d - 1))
<1>. SUFFICES ASSUME NEW a \in Services, NEW b \in Services, NEW d \in 1..MaxDepth, a # b
              PROVE  Reaches(g, a, b, d) <=>
                       \/ <<a, b>> \in DOMAIN g.edges
                       \/ d > 1 /\ \E c \in Services :
                            <<a, c>> \in DOMAIN g.edges /\ Reaches(g, c, b, d - 1)
  OBVIOUS
<1>1. PICK edges : edges = g.edges
  OBVIOUS
<1>2. PICK n \in Nat : n + 1 = d /\ d - 1 = n /\ d \in Nat
  <2>1. d - 1 \in Nat /\ (d - 1) + 1 = d /\ d \in Nat
    BY SizesAssumption
  <2>. QED BY <2>1
<1>. DEFINE S(c, k) == LevelAt(edges, c, k).seen
<1>3. Reaches(g, a, b, d) <=> b \in S(a, d)
  BY <1>1, <1>2, ReachesIs
<1>4. \A c : Reaches(g, c, b, n) <=> c # b /\ b \in S(c, n)
  BY <1>1, <1>2, ReachesIs
<1>5. b \in S(a, d) <=> \E e \in DOMAIN edges : e[1] = a /\ b \in S(e[2], n)
  BY <1>2, SeenFrom
<1>6. \A e \in DOMAIN edges : e = <<e[1], e[2]>> /\ e[1] \in Services /\ e[2] \in Services
  BY <1>1 DEF EdgesTyped
<1>7. S(b, n) # {} /\ b \in S(b, n)
  <2>1. n = 0 => S(b, n) = {b}
    BY SeenGrows
  <2>2. n # 0 => b \in S(b, n)
    <3>1. n # 0 => n - 1 \in Nat /\ (n - 1) + 1 = n
      BY <1>2
    <3>. QED BY <3>1, SeenFrom
  <2>. QED BY <2>1, <2>2
<1>8. \A c : n = 0 => S(c, n) = {c}
  BY SeenGrows
<1>. HIDE DEF S
<1>9. ASSUME Reaches(g, a, b, d)
      PROVE  \/ <<a, b>> \in DOMAIN edges
             \/ d > 1 /\ \E c \in Services : <<a, c>> \in DOMAIN edges /\ Reaches(g, c, b, n)
  <2>1. PICK e \in DOMAIN edges : e[1] = a /\ b \in S(e[2], n)
    BY <1>3, <1>5, <1>9
  <2>2. e = <<a, e[2]>> /\ e[2] \in Services
    BY <1>6, <2>1
  <2>3. CASE e[2] = b
    BY <2>1, <2>2, <2>3
  <2>4. CASE e[2] # b
    <3>1. n # 0
      BY <1>8, <2>1, <2>4
    <3>2. d > 1
      BY <1>2, <3>1
    <3>. QED BY <1>4, <2>1, <2>2, <2>4, <3>2
  <2>. QED BY <2>3, <2>4
<1>10. ASSUME NEW c, <<a, c>> \in DOMAIN edges, b \in S(c, n) PROVE Reaches(g, a, b, d)
  <2>1. <<a, c>>[1] = a /\ <<a, c>>[2] = c
    OBVIOUS
  <2>. QED BY <1>3, <1>5, <1>10, <2>1
<1>11. ASSUME \/ <<a, b>> \in DOMAIN edges
              \/ d > 1 /\ \E c \in Services : <<a, c>> \in DOMAIN edges /\ Reaches(g, c, b, n)
       PROVE  Reaches(g, a, b, d)
  BY <1>4, <1>7, <1>10, <1>11
<1>. QED BY <1>1, <1>2, <1>9, <1>11

LEMMA TopoTells == TopoInv => EdgesTellCalls /\ ReachesIsReachability
<1>. SUFFICES ASSUME TopoInv PROVE EdgesTellCalls /\ ReachesIsReachability
  OBVIOUS
<1>1. EdgesTyped(topo.graph.edges)
  BY DEF TopoInv, Standing
<1>. QED BY <1>1, EdgesTell, ReachesTell DEF ReachesIsReachability

\* TopologyTells holds of every set of spans and every bound: in whatever order
\* children and parents come, repeated or not (Observe, addEdge, indexSpan and
\* trimOrphans of topology/topology.go), an edge counts every call that the
\* deliveries tell while nothing was evicted and never more, the running count
\* of orphans is their number, and Reaches finds what the edges lead to.
THEOREM TopologyCorrect == ServicesSpec => []TopologyTells
<1>1. ServicesInit => TopoInv
  BY TopoStart DEF ServicesInit
<1>2. TopoInv /\ [ServicesNext]_allVars => TopoInv'
  BY Steps, TopoStep
<1>3. TopoInv => TopologyTells
  BY TopoTells DEF TopologyTells
<1>. QED BY <1>1, <1>2, <1>3, PTL DEF ServicesSpec, allVars

-----------------------------------------------------------------------------
(* Correlation: who is of one incident.                                    *)

\* Joining two classes keeps the numbers of the classes among the items.
LEMMA JoinedOneTyped ==
  ASSUME NEW n \in Nat, NEW items, NEW graph, NEW coarse, NEW root \in [1..n -> 1..n],
         NEW i \in 1..n, NEW j \in 1..n
  PROVE  JoinedOne(items, graph, coarse, root, i, j) \in [1..n -> 1..n]
<1>1. Merged(root, i, j) \in [1..n -> 1..n]
  BY DEF Merged
<1>. QED BY <1>1 DEF JoinedOne

\* Joined goes through the items before i from the nearest to the first.
IsJoining(h, n, items, graph, coarse, root, i) ==
    /\ h[0] = root /\ h[i - 1] = Joined(items, graph, coarse, root, i)
    /\ \A d \in 0..i - 1 : h[d] \in [1..n -> 1..n]
    /\ \A d \in 1..i - 1 : h[d] = JoinedOne(items, graph, coarse, h[d - 1], i, i - d)
LEMMA JoinedRun ==
  ASSUME NEW n \in Nat, NEW items, NEW graph, NEW coarse, NEW root \in [1..n -> 1..n],
         NEW i \in 1..n
  PROVE  \E h : IsJoining(h, n, items, graph, coarse, root, i)
<1>. DEFINE A == [1..n -> 1..n]
            m == i - 1
            op(a, d) == JoinedOne(items, graph, coarse, a, i, i - d)
            g == [x \in A \X (1..m) |-> op(x[1], x[2])]
            ids == [d \in 1..m |-> d]
            F(it) == [s \in SUBSET DOMAIN ids |->
                        IF s = {} THEN root ELSE op(it[s \ {Max(s)}], ids[Max(s)])]
<1>0. m \in Nat /\ DOMAIN ids = 1..m /\ \A d \in 1..m : ids[d] = d /\ i - d \in 1..n
  OBVIOUS
<1>1. \A a \in A, d \in 1..m : op(a, d) \in A /\ g[<<a, d>>] = op(a, d)
  BY <1>0, JoinedOneTyped
<1>2. g \in [A \X (1..m) -> A] /\ root \in A
  BY <1>0, JoinedOneTyped
<1>. HIDE DEF m, ids
<1>3. PICK it0 \in [SUBSET (1..m) -> A] : IsFold(it0, m, root, g)
  <2>. HIDE DEF A, g
  <2>. QED BY <1>0, <1>2, FoldExists
<1>4. it0 = F(it0)
  <2>1. ASSUME NEW s \in SUBSET (1..m), s # {}
        PROVE  Max(s) \in 1..m /\ s \ {Max(s)} \in SUBSET (1..m)
    BY <1>0, <2>1, GreatestOf
  <2>. HIDE DEF A, g, op
  <2>2. ASSUME NEW s \in SUBSET (1..m)
        PROVE  it0[s] = IF s = {} THEN root ELSE op(it0[s \ {Max(s)}], ids[Max(s)])
    <3>1. it0[s] = IF s = {} THEN root ELSE g[<<it0[s \ {Max(s)}], Max(s)>>]
      BY <1>3 DEF IsFold
    <3>2. CASE s = {}
      BY <3>1, <3>2
    <3>3. CASE s # {}
      <4>1. it0[s \ {Max(s)}] \in A /\ Max(s) \in 1..m
        BY <2>1, <3>3
      <4>2. ids[Max(s)] = Max(s)
        BY <1>0, <4>1
      <4>3. g[<<it0[s \ {Max(s)}], Max(s)>>] = op(it0[s \ {Max(s)}], Max(s))
        BY <1>1, <4>1
      <4>. QED BY <3>1, <3>3, <4>2, <4>3
    <3>. QED BY <3>2, <3>3
  <2>3. it0 = [s \in SUBSET (1..m) |-> it0[s]]
    OBVIOUS
  <2>. QED BY <1>0, <2>2, <2>3
<1>. DEFINE it == CHOOSE f : f = F(f)
<1>5. it = F(it)
  <2>. HIDE DEF F
  <2>. QED BY <1>4
<1>6. Joined(items, graph, coarse, root, i) = it[DOMAIN ids]
  BY DEF Joined, FoldLeft, MapThenFoldSet, ids, m
<1>. HIDE DEF it
<1>. DEFINE h == [k \in 0..m |-> it[1..k]]
<1>7. h[0] = root /\ h[m] = it[1..m]
  <2>1. 1..0 = {} /\ {} \in SUBSET DOMAIN ids /\ 0 \in 0..m /\ m \in 0..m
    BY <1>0
  <2>2. it[{}] = root
    <3>. HIDE DEF op
    <3>. QED BY <1>5, <2>1
  <2>. QED BY <2>1, <2>2
<1>8. ASSUME NEW k \in 1..m PROVE h[k] = op(h[k - 1], k)
  <2>0. k \in Nat /\ k # 0
    BY <1>0
  <2>1. 1..k # {} /\ Max(1..k) = k /\ (1..k) \ {k} = 1..k - 1
    BY <2>0, LastOfStretch
  <2>2. 1..k \in SUBSET (1..m) /\ k \in 0..m /\ k - 1 \in 0..m
    BY <1>0
  <2>. HIDE DEF op
  <2>3. it[1..k] = op(it[1..k - 1], k)
    <3>. DEFINE s == 1..k
    <3>. HIDE DEF s
    <3>1. s # {} /\ s \in SUBSET DOMAIN ids
      BY <1>0, <2>1, <2>2 DEF s
    <3>2. it[s] = op(it[s \ {Max(s)}], ids[Max(s)])
      BY <1>5, <3>1
    <3>. QED BY <1>0, <2>1, <3>2 DEF s
  <2>. QED BY <2>2, <2>3
<1>9. \A k \in 0..m : h[k] \in A
  <2>. DEFINE T == {k \in 0..m : h[k] \in A}
  <2>1. 0 \in T
    BY <1>0, <1>2, <1>7
  <2>2. ASSUME NEW k \in 0..m - 1, k \in T PROVE k + 1 \in T
    <3>1. k + 1 \in 1..m /\ (k + 1) - 1 = k /\ k + 1 \in 0..m
      BY <1>0
    <3>2. h[k] \in A
      BY <2>2
    <3>. HIDE DEF h, A, op
    <3>3. h[k + 1] = op(h[k], k + 1)
      BY <1>8, <3>1
    <3>4. h[k + 1] \in A
      BY <1>1, <3>1, <3>2, <3>3
    <3>. QED BY <3>1, <3>4
  <2>. HIDE DEF T, h
  <2>3. \A k \in 0..m : k \in T
    BY <1>0, <2>1, <2>2, StepByStep
  <2>. QED BY <2>3 DEF T
<1>. HIDE DEF h
<1>10. h[0] = root /\ h[m] = Joined(items, graph, coarse, root, i)
  BY <1>0, <1>6, <1>7
<1>11. IsJoining(h, n, items, graph, coarse, root, i)
  BY <1>8, <1>9, <1>10 DEF m, IsJoining
<1>. QED BY <1>11

LEMMA JoinedTyped ==
  ASSUME NEW n \in Nat, NEW items, NEW graph, NEW coarse, NEW root \in [1..n -> 1..n],
         NEW i \in 1..n
  PROVE  Joined(items, graph, coarse, root, i) \in [1..n -> 1..n]
<1>1. i - 1 \in 0..i - 1
  OBVIOUS
<1>2. PICK h : IsJoining(h, n, items, graph, coarse, root, i)
  BY JoinedRun
<1>. QED BY <1>1, <1>2 DEF IsJoining

\* Roots goes through the items from the first to the last.
IsGrouping(h, n, items, graph) ==
    /\ h[0] = [k \in 1..n |-> k] /\ h[n] = Roots(items, graph)
    /\ \A k \in 0..n : h[k] \in [1..n -> 1..n]
    /\ \A k \in 1..n : h[k] = Joined(items, graph, Coarse(items), h[k - 1], k)
LEMMA RootsRun ==
  ASSUME NEW n \in Nat, NEW items, DOMAIN items = 1..n, NEW graph
  PROVE  \E h : IsGrouping(h, n, items, graph)
<1>. DEFINE A == [1..n -> 1..n]
            ids == [k \in 1..n |-> k]
            op(a, k) == Joined(items, graph, Coarse(items), a, k)
            g == [x \in A \X (1..n) |-> op(x[1], x[2])]
            F(it) == [s \in SUBSET DOMAIN ids |->
                        IF s = {} THEN ids ELSE op(it[s \ {Max(s)}], ids[Max(s)])]
<1>0. DOMAIN ids = 1..n /\ ids \in A /\ \A k \in 1..n : ids[k] = k
  OBVIOUS
<1>1. \A a \in A, k \in 1..n : op(a, k) \in A /\ g[<<a, k>>] = op(a, k)
  BY JoinedTyped
<1>2. g \in [A \X (1..n) -> A]
  BY JoinedTyped
<1>. HIDE DEF ids
<1>3. PICK it0 \in [SUBSET (1..n) -> A] : IsFold(it0, n, ids, g)
  <2>. HIDE DEF A, g
  <2>. QED BY <1>0, <1>2, FoldExists
<1>4. it0 = F(it0)
  <2>1. ASSUME NEW s \in SUBSET (1..n), s # {}
        PROVE  Max(s) \in 1..n /\ s \ {Max(s)} \in SUBSET (1..n)
    BY <2>1, GreatestOf
  <2>. HIDE DEF A, g, op
  <2>2. ASSUME NEW s \in SUBSET (1..n)
        PROVE  it0[s] = IF s = {} THEN ids ELSE op(it0[s \ {Max(s)}], ids[Max(s)])
    <3>1. it0[s] = IF s = {} THEN ids ELSE g[<<it0[s \ {Max(s)}], Max(s)>>]
      BY <1>3 DEF IsFold
    <3>2. CASE s = {}
      BY <3>1, <3>2
    <3>3. CASE s # {}
      <4>1. it0[s \ {Max(s)}] \in A /\ Max(s) \in 1..n
        BY <2>1, <3>3
      <4>2. ids[Max(s)] = Max(s)
        BY <1>0, <4>1
      <4>3. g[<<it0[s \ {Max(s)}], Max(s)>>] = op(it0[s \ {Max(s)}], Max(s))
        BY <1>1, <4>1
      <4>. QED BY <3>1, <3>3, <4>2, <4>3
    <3>. QED BY <3>2, <3>3
  <2>3. it0 = [s \in SUBSET (1..n) |-> it0[s]]
    OBVIOUS
  <2>. QED BY <1>0, <2>2, <2>3
<1>. DEFINE it == CHOOSE f : f = F(f)
<1>5. it = F(it)
  <2>. HIDE DEF F
  <2>. QED BY <1>4
<1>6. Roots(items, graph) = it[DOMAIN ids]
  BY DEF Roots, FoldLeft, MapThenFoldSet, ids
<1>. HIDE DEF it
<1>. DEFINE h == [k \in 0..n |-> it[1..k]]
<1>7. h[0] = ids /\ h[n] = it[1..n]
  <2>1. 1..0 = {} /\ {} \in SUBSET DOMAIN ids /\ 0 \in 0..n /\ n \in 0..n
    OBVIOUS
  <2>2. it[{}] = ids
    <3>. HIDE DEF op
    <3>. QED BY <1>5, <2>1
  <2>. QED BY <2>1, <2>2
<1>8. ASSUME NEW k \in 1..n PROVE h[k] = op(h[k - 1], k)
  <2>0. k \in Nat /\ k # 0
    OBVIOUS
  <2>1. 1..k # {} /\ Max(1..k) = k /\ (1..k) \ {k} = 1..k - 1
    BY <2>0, LastOfStretch
  <2>2. 1..k \in SUBSET (1..n) /\ k \in 0..n /\ k - 1 \in 0..n
    OBVIOUS
  <2>. HIDE DEF op
  <2>3. it[1..k] = op(it[1..k - 1], k)
    <3>. DEFINE s == 1..k
    <3>. HIDE DEF s
    <3>1. s # {} /\ s \in SUBSET DOMAIN ids
      BY <1>0, <2>1, <2>2 DEF s
    <3>2. it[s] = op(it[s \ {Max(s)}], ids[Max(s)])
      BY <1>5, <3>1
    <3>. QED BY <1>0, <2>1, <3>2 DEF s
  <2>. QED BY <2>2, <2>3
<1>9. \A k \in 0..n : h[k] \in A
  <2>. DEFINE T == {k \in 0..n : h[k] \in A}
  <2>1. 0 \in T
    BY <1>0, <1>7
  <2>2. ASSUME NEW k \in 0..n - 1, k \in T PROVE k + 1 \in T
    <3>1. k + 1 \in 1..n /\ (k + 1) - 1 = k /\ k + 1 \in 0..n
      BY <1>0
    <3>2. h[k] \in A
      BY <2>2
    <3>. HIDE DEF h, A, op
    <3>3. h[k + 1] = op(h[k], k + 1)
      BY <1>8, <3>1
    <3>4. h[k + 1] \in A
      BY <1>1, <3>1, <3>2, <3>3
    <3>. QED BY <3>1, <3>4
  <2>. HIDE DEF T, h
  <2>3. \A k \in 0..n : k \in T
    BY <2>1, <2>2, StepByStep
  <2>. QED BY <2>3 DEF T
<1>. HIDE DEF h
<1>10. h[0] = ids /\ h[n] = Roots(items, graph)
  BY <1>0, <1>6, <1>7
<1>11. IsGrouping(h, n, items, graph)
  BY <1>8, <1>9, <1>10 DEF ids, IsGrouping
<1>. QED BY <1>11

LEMMA FartherIs ==
  ASSUME NEW n, NEW items, DOMAIN items = 1..n, NEW graph, NEW pairs, NEW a \in 1..n, NEW b \in 1..n
  PROVE  <<a, b>> \in Farther(items, graph, pairs) <=>
           \E m \in 1..n : <<a, m>> \in pairs /\ (m = b \/ Adjacent(items, graph, m, b))
<1>. DEFINE P(m, q) == <<q[1], m>> \in pairs /\ (m = q[2] \/ Adjacent(items, graph, m, q[2]))
            x == <<a, b>>
<1>1. x \in (1..n) \X (1..n) /\ x[1] = a /\ x[2] = b
  OBVIOUS
<1>2. Farther(items, graph, pairs) = {q \in (1..n) \X (1..n) : \E m \in 1..n : P(m, q)}
  BY DEF Farther
<1>3. \A m : P(m, x) <=> <<a, m>> \in pairs /\ (m = b \/ Adjacent(items, graph, m, b))
  BY <1>1
<1>. HIDE DEF P, x
<1>4. x \in Farther(items, graph, pairs) <=> \E m \in 1..n : P(m, x)
  BY <1>1, <1>2
<1>. QED BY <1>3, <1>4 DEF x

\* Chains of k pairs reach one pair farther than chains of k - 1.
IsReach(r, n, items, graph) ==
    /\ r[0] = {<<i, i>> : i \in 1..n} /\ r[n] = Chained(items, graph)
    /\ \A k \in 0..n : r[k] \subseteq (1..n) \X (1..n)
    /\ \A k \in 1..n : r[k] = Farther(items, graph, r[k - 1])
LEMMA ReachExists ==
  ASSUME NEW n \in Nat, NEW items, Len(items) = n, DOMAIN items = 1..n, NEW graph
  PROVE  \E r : IsReach(r, n, items, graph)
<1>. DEFINE A == SUBSET ((1..n) \X (1..n))
            b == {<<i, i>> : i \in 1..n}
            g == [x \in A \X (1..n) |-> Farther(items, graph, x[1])]
            F(f) == [k \in 0..n |-> IF k = 0 THEN b ELSE Farther(items, graph, f[k - 1])]
<1>1. \A a \in A : Farther(items, graph, a) \in A
  BY DEF Farther
<1>2. \A a \in A, k \in 1..n : g[<<a, k>>] = Farther(items, graph, a)
  OBVIOUS
<1>3. g \in [A \X (1..n) -> A]
  BY <1>1
<1>4. b \in A
  OBVIOUS
<1>. HIDE DEF A, b, g
<1>5. PICK f0 \in [0..n -> A] : IsIteration(f0, n, b, g)
  BY <1>3, <1>4, IterationExists
<1>6. f0 = F(f0)
  <2>1. ASSUME NEW k \in 0..n
        PROVE  f0[k] = IF k = 0 THEN b ELSE Farther(items, graph, f0[k - 1])
    <3>1. f0[k] = IF k = 0 THEN b ELSE g[<<f0[k - 1], k>>]
      BY <1>5 DEF IsIteration
    <3>2. CASE k # 0
      <4>1. k - 1 \in 0..n /\ k \in 1..n /\ f0[k - 1] \in A
        BY <3>2
      <4>2. g[<<f0[k - 1], k>>] = Farther(items, graph, f0[k - 1])
        BY <1>2, <4>1
      <4>. QED BY <3>1, <3>2, <4>2
    <3>. QED BY <3>1, <3>2
  <2>2. f0 = [k \in 0..n |-> f0[k]]
    OBVIOUS
  <2>. QED BY <2>1, <2>2
<1>. DEFINE r == CHOOSE f : f = F(f)
<1>7. r = F(r)
  <2>. HIDE DEF F
  <2>. QED BY <1>6
<1>8. Chained(items, graph) = r[n]
  BY DEF Chained, b
<1>. HIDE DEF r
<1>9. r[0] = b /\ \A k \in 1..n : r[k] = Farther(items, graph, r[k - 1])
  <2>1. 0 \in 0..n /\ \A k \in 1..n : k \in 0..n /\ k # 0
    OBVIOUS
  <2>. QED BY <1>7, <2>1
<1>10. \A k \in 0..n : r[k] \in A
  <2>. DEFINE T == {k \in 0..n : r[k] \in A}
  <2>1. 0 \in T
    BY <1>4, <1>9
  <2>2. ASSUME NEW k \in 0..n - 1, k \in T PROVE k + 1 \in T
    <3>1. k + 1 \in 1..n /\ k + 1 \in 0..n /\ (k + 1) - 1 = k
      OBVIOUS
    <3>2. r[k + 1] = Farther(items, graph, r[k])
      BY <1>9, <3>1
    <3>3. r[k] \in A
      BY <2>2
    <3>4. r[k + 1] \in A
      BY <1>1, <3>2, <3>3
    <3>. QED BY <3>1, <3>4
  <2>. HIDE DEF T
  <2>3. \A k \in 0..n : k \in T
    BY <2>1, <2>2, StepByStep
  <2>. QED BY <2>3 DEF T
<1>11. IsReach(r, n, items, graph)
  <2>1. \A k \in 0..n : r[k] \subseteq (1..n) \X (1..n)
    BY <1>10 DEF A
  <2>. QED BY <1>8, <1>9, <2>1 DEF IsReach, b
<1>. QED BY <1>11

LEMMA AdjacentBothWays ==
  ASSUME NEW items, NEW graph, NEW i \in Int, NEW j \in Int
  PROVE  Adjacent(items, graph, i, j) => Adjacent(items, graph, j, i)
BY DEF Adjacent

\* What the chains of k pairs from one item reach.
From(r, n, a, k) == {b \in 1..n : <<a, b>> \in r[k]}
LEMMA FromGrows ==
  ASSUME NEW n \in Nat, NEW items, DOMAIN items = 1..n, NEW graph,
         NEW r, IsReach(r, n, items, graph), NEW a \in 1..n
  PROVE  /\ From(r, n, a, 0) = {a}
         /\ \A k \in 1..n, b \in 1..n : b \in From(r, n, a, k) <=>
              \E m \in From(r, n, a, k - 1) : m = b \/ Adjacent(items, graph, m, b)
<1>1. From(r, n, a, 0) = {a}
  BY DEF From, IsReach
<1>2. ASSUME NEW k \in 1..n, NEW b \in 1..n
      PROVE  b \in From(r, n, a, k) <=>
               \E m \in From(r, n, a, k - 1) : m = b \/ Adjacent(items, graph, m, b)
  <2>1. r[k] = Farther(items, graph, r[k - 1])
    BY DEF IsReach
  <2>2. <<a, b>> \in r[k] <=>
          \E m \in 1..n : <<a, m>> \in r[k - 1] /\ (m = b \/ Adjacent(items, graph, m, b))
    BY <2>1, FartherIs
  <2>. QED BY <2>2 DEF From
<1>. QED BY <1>1, <1>2

\* Either they have come to an end or they are more each time.
LEMMA FromMore ==
  ASSUME NEW n \in Nat, NEW items, DOMAIN items = 1..n, NEW graph,
         NEW r, IsReach(r, n, items, graph), NEW a \in 1..n
  PROVE  \A b \in From(r, n, a, n), c \in 1..n :
           Adjacent(items, graph, b, c) => c \in From(r, n, a, n)
<1>. DEFINE S(k) == From(r, n, a, k)
            Closed(k) == \A b \in S(k), c \in 1..n : Adjacent(items, graph, b, c) => c \in S(k)
            T == {k \in 0..n : Closed(k) \/ Cardinality(S(k)) >= k + 1}
<1>1. \A k \in 0..n : IsFiniteSet(S(k)) /\ Cardinality(S(k)) \in Nat /\ Cardinality(S(k)) <= n
  <2>1. IsFiniteSet(1..n) /\ Cardinality(1..n) = n
    BY FS_Interval
  <2>. SUFFICES ASSUME NEW k \in 0..n
                PROVE  IsFiniteSet(S(k)) /\ Cardinality(S(k)) \in Nat /\ Cardinality(S(k)) <= n
    OBVIOUS
  <2>2. S(k) \subseteq 1..n
    BY DEF From
  <2>. HIDE DEF S
  <2>3. IsFiniteSet(S(k)) /\ Cardinality(S(k)) <= Cardinality(1..n)
    BY <2>1, <2>2, FS_Subset
  <2>. QED BY <2>1, <2>3, FS_CardinalityType
<1>2. S(0) = {a}
  BY FromGrows
<1>7. ASSUME NEW k \in 1..n, NEW c \in 1..n
      PROVE  c \in S(k) <=> \E m \in S(k - 1) : m = c \/ Adjacent(items, graph, m, c)
  BY FromGrows
<1>3. 0 \in T
  <2>1. Cardinality({a}) = 1
    BY FS_Singleton
  <2>2. Cardinality(S(0)) >= 0 + 1
    BY <1>2, <2>1
  <2>. HIDE DEF Closed, S
  <2>. QED BY <2>2
<1>4. ASSUME NEW k \in 0..n - 1, k \in T PROVE k + 1 \in T
  <2>1. k + 1 \in 1..n /\ k + 1 \in 0..n /\ (k + 1) - 1 = k /\ k \in 0..n
    OBVIOUS
  <2>2. \A c \in 1..n :
          c \in S(k + 1) <=> \E m \in S(k) : m = c \/ Adjacent(items, graph, m, c)
    <3>. HIDE DEF S
    <3>. QED BY <1>7, <2>1
  <2>3. S(k) \subseteq 1..n /\ S(k + 1) \subseteq 1..n
    BY DEF From
  <2>4. CASE Closed(k)
    <3>. HIDE DEF S
    <3>1. S(k + 1) = S(k)
      BY <2>2, <2>3, <2>4
    <3>2. Closed(k + 1)
      BY <2>4, <3>1
    <3>. HIDE DEF Closed
    <3>. QED BY <2>1, <3>2
  <2>5. CASE ~Closed(k)
    <3>1. Cardinality(S(k)) >= k + 1
      <4>. HIDE DEF Closed, S
      <4>. QED BY <1>4, <2>5
    <3>. HIDE DEF S
    <3>2. PICK b \in S(k), c \in 1..n : Adjacent(items, graph, b, c) /\ c \notin S(k)
      BY <2>5
    <3>3. S(k) \cup {c} \subseteq S(k + 1)
      BY <2>2, <2>3, <3>2
    <3>4. Cardinality(S(k) \cup {c}) = Cardinality(S(k)) + 1
      BY <1>1, <2>1, <3>2, FS_AddElement
    <3>5. Cardinality(S(k) \cup {c}) <= Cardinality(S(k + 1))
      BY <1>1, <2>1, <3>3, FS_Subset
    <3>6. Cardinality(S(k + 1)) >= (k + 1) + 1
      <4>1. Cardinality(S(k + 1)) \in Nat /\ Cardinality(S(k)) \in Nat
        BY <1>1, <2>1
      <4>. QED BY <3>1, <3>4, <3>5, <4>1
    <3>. HIDE DEF Closed
    <3>. QED BY <2>1, <3>6
  <2>. HIDE DEF Closed
  <2>. QED BY <2>4, <2>5
<1>5. n \in T
  <2>. HIDE DEF T
  <2>1. \A k \in 0..n : k \in T
    BY <1>3, <1>4, StepByStep
  <2>. QED BY <2>1
<1>6. Closed(n)
  <2>1. n \in 0..n
    OBVIOUS
  <2>. HIDE DEF S, Closed
  <2>. QED BY <1>1, <1>5, <2>1
<1>. QED BY <1>6

\* Being joined by a chain is an equivalence, and pairs are chains.
IsEquivalence(n, E) ==
    /\ \A a \in 1..n : <<a, a>> \in E
    /\ \A a, b \in 1..n : <<a, b>> \in E => <<b, a>> \in E
    /\ \A a, b, c \in 1..n : <<a, b>> \in E /\ <<b, c>> \in E => <<a, c>> \in E
LEMMA ChainsJoin ==
  ASSUME NEW n \in Nat, NEW items, Len(items) = n, DOMAIN items = 1..n, NEW graph
  PROVE  /\ IsEquivalence(n, Chained(items, graph))
         /\ \A a, b \in 1..n : Adjacent(items, graph, a, b) => <<a, b>> \in Chained(items, graph)
<1>1. PICK r : IsReach(r, n, items, graph)
  BY ReachExists
<1>. DEFINE E == Chained(items, graph)
<1>2. r[n] = E
  BY <1>1 DEF IsReach
<1>3. ASSUME NEW a \in 1..n, NEW b \in 1..n, NEW c \in 1..n,
             <<a, b>> \in E, Adjacent(items, graph, b, c)
      PROVE  <<a, c>> \in E
  <2>1. b \in From(r, n, a, n)
    BY <1>2, <1>3 DEF From
  <2>2. c \in From(r, n, a, n)
    BY <1>1, <1>3, <2>1, FromMore
  <2>. QED BY <1>2, <2>2 DEF From
<1>. HIDE DEF E
<1>4. ASSUME NEW a \in 1..n PROVE <<a, a>> \in E
  <2>. DEFINE T == {k \in 0..n : <<a, a>> \in r[k]}
  <2>1. 0 \in T
    BY <1>1 DEF IsReach
  <2>2. ASSUME NEW k \in 0..n - 1, k \in T PROVE k + 1 \in T
    <3>1. r[k + 1] = Farther(items, graph, r[k])
      <4>1. k + 1 \in 1..n /\ (k + 1) - 1 = k
        OBVIOUS
      <4>. QED BY <1>1, <4>1 DEF IsReach
    <3>2. <<a, a>> \in r[k]
      BY <2>2
    <3>3. <<a, a>> \in r[k + 1]
      <4>1. <<a, a>> \in Farther(items, graph, r[k])
        <5>1. \E m \in 1..n : <<a, m>> \in r[k] /\ (m = a \/ Adjacent(items, graph, m, a))
          BY <3>2
        <5>. QED BY <5>1, FartherIs
      <4>. QED BY <3>1, <4>1
    <3>. QED BY <3>3
  <2>. HIDE DEF T
  <2>3. \A k \in 0..n : k \in T
    BY <2>1, <2>2, StepByStep
  <2>. QED BY <1>2, <2>3 DEF T
<1>5. ASSUME NEW a \in 1..n, NEW b \in 1..n, <<a, b>> \in E
      PROVE  \A c \in 1..n : <<b, c>> \in E => <<a, c>> \in E
  <2>. DEFINE T == {k \in 0..n : \A c \in 1..n : <<b, c>> \in r[k] => <<a, c>> \in E}
  <2>1. 0 \in T
    <3>1. \A c \in 1..n : <<b, c>> \in r[0] => b = c
      BY <1>1 DEF IsReach
    <3>. QED BY <1>5, <3>1
  <2>2. ASSUME NEW k \in 0..n - 1, k \in T PROVE k + 1 \in T
    <3>1. r[k + 1] = Farther(items, graph, r[k])
      <4>1. k + 1 \in 1..n /\ (k + 1) - 1 = k
        OBVIOUS
      <4>. QED BY <1>1, <4>1 DEF IsReach
    <3>2. ASSUME NEW c \in 1..n, <<b, c>> \in r[k + 1] PROVE <<a, c>> \in E
      <4>1. PICK m \in 1..n : <<b, m>> \in r[k] /\ (m = c \/ Adjacent(items, graph, m, c))
        BY <3>1, <3>2, FartherIs
      <4>2. <<a, m>> \in E
        BY <2>2, <4>1
      <4>. QED BY <1>3, <4>1, <4>2
    <3>. QED BY <3>2
  <2>. HIDE DEF T
  <2>3. \A k \in 0..n : k \in T
    BY <2>1, <2>2, StepByStep
  <2>. QED BY <1>2, <2>3 DEF T
<1>6. ASSUME NEW a \in 1..n, NEW b \in 1..n, Adjacent(items, graph, a, b) PROVE <<a, b>> \in E
  BY <1>3, <1>4, <1>6
<1>7. ASSUME NEW a \in 1..n
      PROVE  \A b \in 1..n : <<a, b>> \in E => <<b, a>> \in E
  <2>. DEFINE T == {k \in 0..n : \A b \in 1..n : <<a, b>> \in r[k] => <<b, a>> \in E}
  <2>1. 0 \in T
    <3>1. \A b \in 1..n : <<a, b>> \in r[0] => a = b
      BY <1>1 DEF IsReach
    <3>. QED BY <1>4, <3>1
  <2>2. ASSUME NEW k \in 0..n - 1, k \in T PROVE k + 1 \in T
    <3>1. r[k + 1] = Farther(items, graph, r[k])
      <4>1. k + 1 \in 1..n /\ (k + 1) - 1 = k
        OBVIOUS
      <4>. QED BY <1>1, <4>1 DEF IsReach
    <3>2. ASSUME NEW b \in 1..n, <<a, b>> \in r[k + 1] PROVE <<b, a>> \in E
      <4>1. PICK m \in 1..n : <<a, m>> \in r[k] /\ (m = b \/ Adjacent(items, graph, m, b))
        BY <3>1, <3>2, FartherIs
      <4>2. <<m, a>> \in E
        BY <2>2, <4>1
      <4>3. CASE m = b
        BY <4>2, <4>3
      <4>4. CASE Adjacent(items, graph, m, b)
        <5>1. Adjacent(items, graph, b, m)
          BY <4>4, AdjacentBothWays
        <5>2. <<b, m>> \in E
          BY <1>6, <5>1
        <5>. QED BY <1>5, <4>2, <5>2
      <4>. QED BY <4>1, <4>3, <4>4
    <3>. QED BY <3>2
  <2>. HIDE DEF T
  <2>3. \A k \in 0..n : k \in T
    BY <2>1, <2>2, StepByStep
  <2>. QED BY <1>2, <2>3 DEF T
<1>8. IsEquivalence(n, E)
  BY <1>4, <1>5, <1>7 DEF IsEquivalence
<1>. QED BY <1>6, <1>8 DEF E

\* Nothing else is joined by a chain: an equivalence with all pairs has all chains.
LEMMA ChainsLeast ==
  ASSUME NEW n \in Nat, NEW items, Len(items) = n, DOMAIN items = 1..n, NEW graph,
         NEW E, IsEquivalence(n, E),
         \A a, b \in 1..n : Adjacent(items, graph, a, b) => <<a, b>> \in E
  PROVE  \A a, b \in 1..n : <<a, b>> \in Chained(items, graph) => <<a, b>> \in E
<1>1. PICK r : IsReach(r, n, items, graph)
  BY ReachExists
<1>. DEFINE T == {k \in 0..n : \A a, b \in 1..n : <<a, b>> \in r[k] => <<a, b>> \in E}
<1>2. 0 \in T
  <2>1. \A a, b \in 1..n : <<a, b>> \in r[0] => a = b
    BY <1>1 DEF IsReach
  <2>. QED BY <2>1 DEF IsEquivalence
<1>3. ASSUME NEW k \in 0..n - 1, k \in T PROVE k + 1 \in T
  <2>1. r[k + 1] = Farther(items, graph, r[k])
    <3>1. k + 1 \in 1..n /\ (k + 1) - 1 = k
      OBVIOUS
    <3>. QED BY <1>1, <3>1 DEF IsReach
  <2>2. ASSUME NEW a \in 1..n, NEW b \in 1..n, <<a, b>> \in r[k + 1] PROVE <<a, b>> \in E
    <3>1. PICK m \in 1..n : <<a, m>> \in r[k] /\ (m = b \/ Adjacent(items, graph, m, b))
      BY <2>1, <2>2, FartherIs
    <3>2. <<a, m>> \in E
      BY <1>3, <3>1
    <3>. QED BY <3>1, <3>2 DEF IsEquivalence
  <2>. QED BY <2>2
<1>. HIDE DEF T
<1>4. \A k \in 0..n : k \in T
  BY <1>2, <1>3, StepByStep
<1>5. n \in T /\ r[n] = Chained(items, graph)
  BY <1>1, <1>4 DEF IsReach
<1>. QED BY <1>5 DEF T

\* The classes of a stage are inside E, and a stage parts none of the one before.
Inside(root, n, E) == \A a, b \in 1..n : root[a] = root[b] => <<a, b>> \in E
Keeps(old, new, n) == \A a, b \in 1..n : old[a] = old[b] => new[a] = new[b]

LEMMA MergedKeeps ==
  ASSUME NEW n \in Nat, NEW root \in [1..n -> 1..n], NEW i \in 1..n, NEW j \in 1..n,
         NEW E, IsEquivalence(n, E), Inside(root, n, E), <<i, j>> \in E
  PROVE  /\ Inside(Merged(root, i, j), n, E) /\ Keeps(root, Merged(root, i, j), n)
         /\ Merged(root, i, j)[i] = Merged(root, i, j)[j]
<1>1. PICK new : new = Merged(root, i, j)
  OBVIOUS
<1>2. \A a \in 1..n : new[a] = IF root[a] = root[j] THEN root[i] ELSE root[a]
  BY <1>1 DEF Merged
<1>3. ASSUME NEW a \in 1..n, NEW b \in 1..n, new[a] = new[b] PROVE <<a, b>> \in E
  <2>1. CASE root[a] = root[b]
    BY <2>1 DEF Inside
  <2>2. CASE root[a] = root[j] /\ root[b] # root[j]
    <3>1. root[b] = root[i]
      BY <1>2, <1>3, <2>2
    <3>2. <<a, j>> \in E /\ <<i, b>> \in E /\ <<j, i>> \in E
      BY <2>2, <3>1 DEF Inside, IsEquivalence
    <3>3. <<a, i>> \in E
      BY <3>2 DEF IsEquivalence
    <3>. QED BY <3>2, <3>3 DEF IsEquivalence
  <2>3. CASE root[a] # root[j] /\ root[b] = root[j]
    <3>1. root[a] = root[i]
      BY <1>2, <1>3, <2>3
    <3>2. <<a, i>> \in E /\ <<j, b>> \in E
      BY <2>3, <3>1 DEF Inside
    <3>3. <<a, j>> \in E
      BY <3>2 DEF IsEquivalence
    <3>. QED BY <3>2, <3>3 DEF IsEquivalence
  <2>4. CASE root[a] # root[j] /\ root[b] # root[j]
    <3>1. root[a] = root[b]
      BY <1>2, <1>3, <2>4
    <3>. QED BY <2>1, <3>1
  <2>. QED BY <2>1, <2>2, <2>3, <2>4
<1>4. Keeps(root, new, n) /\ new[i] = new[j]
  BY <1>2 DEF Keeps
<1>. QED BY <1>1, <1>3, <1>4 DEF Inside

\* Those before i that are linked with it, and what becomes of them.
LinkedBefore(items, graph, coarse, i) ==
    {j \in 1..i - 1 : JoinsPair(items, graph, coarse, i, j)}
AllIn(B, i, E) == \A j \in B : <<i, j>> \in E
AllMet(B, i, root) == \A j \in B : root[i] = root[j]

LEMMA JoinedKeeps ==
  ASSUME NEW n \in Nat, NEW items, NEW graph, NEW coarse, NEW root \in [1..n -> 1..n],
         NEW i \in 1..n, NEW E, IsEquivalence(n, E), Inside(root, n, E),
         AllIn(LinkedBefore(items, graph, coarse, i), i, E)
  PROVE  /\ Inside(Joined(items, graph, coarse, root, i), n, E)
         /\ Keeps(root, Joined(items, graph, coarse, root, i), n)
         /\ AllMet(LinkedBefore(items, graph, coarse, i), i, Joined(items, graph, coarse, root, i))
<1>0. PICK new : new = Joined(items, graph, coarse, root, i)
  OBVIOUS
<1>1. PICK h : IsJoining(h, n, items, graph, coarse, root, i)
  BY JoinedRun
<1>. DEFINE B == LinkedBefore(items, graph, coarse, i)
            Done(d) == /\ Inside(h[d], n, E) /\ Keeps(root, h[d], n)
                       /\ \A e \in 1..d : i - e \in B => h[d][i] = h[d][i - e]
            T == {d \in 0..i - 1 : Done(d)}
<1>2. 0 \in T
  <2>1. h[0] = root
    BY <1>1 DEF IsJoining
  <2>2. Done(0)
    BY <2>1 DEF Keeps
  <2>. HIDE DEF Done
  <2>. QED BY <2>2
<1>3. ASSUME NEW d \in 0..i - 1 - 1, d \in T PROVE d + 1 \in T
  <2>1. d \in 0..i - 1 /\ d + 1 \in 1..i - 1 /\ d + 1 \in 0..i - 1 /\ (d + 1) - 1 = d
    OBVIOUS
  <2>2. PICK j \in 1..i - 1 : j = i - (d + 1) /\ j \in 1..n
    OBVIOUS
  <2>3. PICK old : old = h[d] /\ old \in [1..n -> 1..n]
    BY <1>1, <2>1 DEF IsJoining
  <2>4. PICK nxt : nxt = h[d + 1] /\ nxt = JoinedOne(items, graph, coarse, old, i, j)
    BY <1>1, <2>1, <2>2, <2>3 DEF IsJoining
  <2>5. Inside(old, n, E) /\ Keeps(root, old, n)
        /\ \A e \in 1..d : i - e \in B => old[i] = old[i - e]
    BY <1>3, <2>3
  <2>6. /\ Inside(nxt, n, E) /\ Keeps(old, nxt, n)
        /\ j \in B => nxt[i] = nxt[j]
    <3>1. CASE j \in B
      <4>1. nxt = Merged(old, i, j) /\ <<i, j>> \in E
        BY <2>4, <3>1 DEF JoinedOne, LinkedBefore, AllIn
      <4>. QED BY <2>2, <2>3, <2>5, <4>1, MergedKeeps
    <3>2. CASE j \notin B
      <4>1. nxt = old
        BY <2>2, <2>4, <3>2 DEF JoinedOne, LinkedBefore
      <4>. QED BY <2>5, <3>2, <4>1 DEF Keeps
    <3>. QED BY <3>1, <3>2
  <2>. HIDE DEF B
  <2>7. Keeps(root, nxt, n)
    BY <2>5, <2>6 DEF Keeps
  <2>8. ASSUME NEW e \in 1..d + 1, i - e \in B PROVE nxt[i] = nxt[i - e]
    <3>1. CASE e = d + 1
      BY <2>2, <2>6, <2>8, <3>1
    <3>2. CASE e # d + 1
      <4>1. e \in 1..d /\ i - e \in 1..n
        BY <2>1, <3>2
      <4>2. old[i] = old[i - e]
        BY <2>5, <2>8, <4>1
      <4>. QED BY <2>6, <4>1, <4>2 DEF Keeps
    <3>. QED BY <3>1, <3>2
  <2>9. Done(d + 1)
    BY <2>4, <2>6, <2>7, <2>8
  <2>. HIDE DEF Done
  <2>. QED BY <2>1, <2>9
<1>4. i - 1 \in T
  <2>. HIDE DEF T
  <2>1. i - 1 \in Nat /\ i - 1 \in 0..i - 1
    OBVIOUS
  <2>2. \A d \in 0..i - 1 : d \in T
    BY <1>2, <1>3, <2>1, StepByStep
  <2>. QED BY <2>1, <2>2
<1>5. Done(i - 1) /\ h[i - 1] = new
  BY <1>0, <1>1, <1>4 DEF IsJoining
<1>6. ASSUME NEW j \in B PROVE new[i] = new[j]
  <2>1. PICK e \in 1..i - 1 : i - e = j
    <3>1. i - j \in 1..i - 1 /\ i - (i - j) = j
      BY DEF LinkedBefore
    <3>. QED BY <3>1
  <2>. HIDE DEF B
  <2>. QED BY <1>5, <1>6, <2>1
<1>7. AllMet(B, i, new)
  BY <1>6 DEF AllMet
<1>. QED BY <1>0, <1>5, <1>7

\* The classes of the union-find are the chains.
LEMMA RootsAreChains ==
  ASSUME NEW n \in Nat, NEW items, Len(items) = n, DOMAIN items = 1..n, NEW graph
  PROVE  \A a, b \in 1..n : Roots(items, graph)[a] = Roots(items, graph)[b]
                              <=> <<a, b>> \in Chained(items, graph)
<1>0. PICK coarse : coarse = Coarse(items)
  OBVIOUS
<1>. DEFINE E == Chained(items, graph)
            B(i) == LinkedBefore(items, graph, coarse, i)
<1>1. /\ IsEquivalence(n, E)
      /\ \A i, j \in 1..n : Adjacent(items, graph, i, j) => <<i, j>> \in E
  BY ChainsJoin
<1>14. ASSUME NEW i \in 1..n, NEW j \in B(i) PROVE j \in 1..n /\ Adjacent(items, graph, i, j)
  BY <1>0 DEF Adjacent, LinkedBefore
<1>15. ASSUME NEW i \in 1..n, NEW j \in 1..n, Adjacent(items, graph, i, j)
       PROVE  j \in B(i) \/ i \in B(j)
  BY <1>0, <1>15 DEF Adjacent, LinkedBefore
<1>2. \A i \in 1..n : \A j \in B(i) : <<i, j>> \in E
  <2>. HIDE DEF B, E
  <2>. QED BY <1>1, <1>14
<1>3. PICK h : IsGrouping(h, n, items, graph)
  BY RootsRun
<1>. HIDE DEF E
<1>. DEFINE Done(k) == /\ Inside(h[k], n, E)
                       /\ \A i \in 1..k : \A j \in B(i) : h[k][i] = h[k][j]
            T == {k \in 0..n : Done(k)}
<1>4. 0 \in T
  <2>1. h[0] = [k \in 1..n |-> k]
    BY <1>3 DEF IsGrouping
  <2>2. Inside(h[0], n, E)
    BY <1>1, <2>1 DEF Inside, IsEquivalence
  <2>. QED BY <2>2
<1>5. ASSUME NEW k \in 0..n - 1, k \in T PROVE k + 1 \in T
  <2>1. k \in 0..n /\ k + 1 \in 0..n /\ (k + 1) - 1 = k
    OBVIOUS
  <2>2. PICK i \in 1..n : i = k + 1
    OBVIOUS
  <2>3. PICK old : old = h[k] /\ old \in [1..n -> 1..n]
    BY <1>3, <2>1 DEF IsGrouping
  <2>4. PICK nxt : nxt = h[k + 1] /\ nxt = Joined(items, graph, coarse, old, i)
    BY <1>0, <1>3, <2>1, <2>2, <2>3 DEF IsGrouping
  <2>5. Inside(old, n, E) /\ \A l \in 1..k : \A j \in B(l) : old[l] = old[j]
    BY <1>5, <2>3
  <2>6. \A j \in B(i) : <<i, j>> \in E
    BY <1>2
  <2>7. /\ Inside(nxt, n, E) /\ Keeps(old, nxt, n)
        /\ \A j \in B(i) : nxt[i] = nxt[j]
    <3>1. IsEquivalence(n, E) /\ old \in [1..n -> 1..n] /\ Inside(old, n, E) /\ AllIn(B(i), i, E)
      BY <1>1, <2>3, <2>5, <2>6 DEF AllIn
    <3>2. PICK w : w = Joined(items, graph, coarse, old, i)
      OBVIOUS
    <3>3. Inside(w, n, E) /\ Keeps(old, w, n) /\ AllMet(B(i), i, w)
      BY <3>1, <3>2, JoinedKeeps
    <3>. QED BY <2>4, <3>2, <3>3 DEF AllMet
  <2>. HIDE DEF B
  <2>8. ASSUME NEW l \in 1..k + 1, NEW j \in B(l) PROVE nxt[l] = nxt[j]
    <3>1. CASE l = k + 1
      BY <2>2, <2>7, <2>8, <3>1
    <3>2. CASE l # k + 1
      <4>1. l \in 1..k /\ l \in 1..n
        BY <2>1, <3>2
      <4>2. old[l] = old[j] /\ j \in 1..n
        BY <1>14, <2>5, <2>8, <4>1
      <4>. QED BY <2>7, <4>1, <4>2 DEF Keeps
    <3>. QED BY <3>1, <3>2
  <2>9. Done(k + 1)
    BY <2>4, <2>7, <2>8
  <2>. HIDE DEF Done
  <2>. QED BY <2>1, <2>9
<1>6. Done(n)
  <2>. HIDE DEF T
  <2>1. \A k \in 0..n : k \in T
    BY <1>4, <1>5, StepByStep
  <2>2. n \in T
    BY <2>1
  <2>. QED BY <2>2 DEF T
<1>. DEFINE root == Roots(items, graph)
            C == {p \in (1..n) \X (1..n) : root[p[1]] = root[p[2]]}
<1>7. h[n] = root
  BY <1>3 DEF IsGrouping
<1>. HIDE DEF root
<1>8. ASSUME NEW a \in 1..n, NEW b \in 1..n PROVE <<a, b>> \in C <=> root[a] = root[b]
  OBVIOUS
<1>9. IsEquivalence(n, C)
  BY <1>8 DEF IsEquivalence
<1>10. ASSUME NEW a \in 1..n, NEW b \in 1..n, Adjacent(items, graph, a, b) PROVE <<a, b>> \in C
  <2>1. b \in B(a) \/ a \in B(b)
    BY <1>10, <1>15
  <2>. HIDE DEF B
  <2>2. root[a] = root[b]
    BY <1>6, <1>7, <2>1
  <2>. QED BY <1>8, <2>2
<1>11. \A a, b \in 1..n : <<a, b>> \in E => <<a, b>> \in C
  <2>. HIDE DEF C
  <2>. QED BY <1>9, <1>10, ChainsLeast DEF E
<1>12. \A a, b \in 1..n : root[a] = root[b] => <<a, b>> \in E
  BY <1>6, <1>7 DEF Inside
<1>13. \A a, b \in 1..n : <<a, b>> \in E => root[a] = root[b]
  BY <1>8, <1>11
<1>. QED BY <1>12, <1>13 DEF E, root

\* So an incident is a chained class with a symptom in it.
LEMMA IncidentsTell ==
  ASSUME NEW n \in Nat, NEW items, Len(items) = n, DOMAIN items = 1..n, NEW graph
  PROVE  /\ \A inc \in Incidents(items, graph) :
              /\ inc = Incident(items, inc.idx, graph) /\ inc.idx \subseteq 1..n
              /\ \E i \in inc.idx : ~items[i].change
              /\ \A i \in inc.idx, j \in 1..n :
                   j \in inc.idx <=> <<i, j>> \in Chained(items, graph)
         /\ \A i \in 1..n : ~items[i].change => \E inc \in Incidents(items, graph) : i \in inc.idx
<1>. DEFINE root == Roots(items, graph)
            class(r) == {i \in 1..n : root[i] = r}
<1>1. \A a, b \in 1..n : root[a] = root[b] <=> <<a, b>> \in Chained(items, graph)
  BY RootsAreChains
<1>. HIDE DEF root
<1>2. Groups(items, graph) = {class(r) : r \in {root[k] : k \in 1..n}}
  BY DEF Groups, root
<1>3. \A idx : Incident(items, idx, graph).idx = idx
  BY DEF Incident
<1>4. ASSUME NEW inc \in Incidents(items, graph)
      PROVE  /\ inc = Incident(items, inc.idx, graph) /\ inc.idx \in Groups(items, graph)
             /\ \E i \in inc.idx : ~items[i].change
  <2>1. PICK idx \in Groups(items, graph) : /\ \E i \in idx : ~items[i].change
                                            /\ inc = Incident(items, idx, graph)
    BY DEF Incidents
  <2>. QED BY <1>3, <2>1
<1>5. ASSUME NEW idx \in Groups(items, graph), NEW i \in idx, NEW j \in 1..n
      PROVE  idx \subseteq 1..n /\ (j \in idx <=> <<i, j>> \in Chained(items, graph))
  <2>1. PICK k \in 1..n : idx = class(root[k])
    BY <1>2
  <2>. QED BY <1>1, <2>1
<1>6. ASSUME NEW i \in 1..n, ~items[i].change
      PROVE  \E inc \in Incidents(items, graph) : i \in inc.idx
  <2>1. class(root[i]) \in Groups(items, graph) /\ i \in class(root[i])
    BY <1>2
  <2>2. Incident(items, class(root[i]), graph) \in Incidents(items, graph)
    BY <1>6, <2>1 DEF Incidents
  <2>. QED BY <1>3, <2>1, <2>2
<1>7. \A inc \in Incidents(items, graph) : inc.idx \subseteq 1..n
  <2>1. ASSUME NEW inc \in Incidents(items, graph) PROVE inc.idx \subseteq 1..n
    <3>1. PICK i \in inc.idx : ~items[i].change
      BY <1>4
    <3>2. inc.idx \in Groups(items, graph)
      BY <1>4
    <3>3. PICK k \in 1..n : inc.idx = class(root[k])
      BY <1>2, <3>2
    <3>. QED BY <3>3
  <2>. QED BY <2>1
<1>. QED BY <1>4, <1>5, <1>6, <1>7

-----------------------------------------------------------------------------
(* Correlation: what speaks for a member.                                  *)

\* A share is between nothing and the whole.
LEMMA ShareOf ==
  ASSUME NEW a \in Nat, NEW b \in Nat \ {0}, a <= b
  PROVE  /\ Share(a, b) \in 0..Grain
         /\ a = 0 => Share(a, b) = 0
         /\ a = b => Share(a, b) = Grain
<1>1. Grain \in Nat /\ Grain # 0
  BY CorrelationAssumption
<1>2. PICK x \in Nat : x = Grain * a /\ x <= Grain * b /\ Grain * b \in Int
  <2>1. Grain * a \in Nat
    BY <1>1
  <2>2. Grain * a <= Grain * b /\ Grain * b \in Int
    BY <1>1, ProductsGrow
  <2>. QED BY <2>1, <2>2
<1>3. PICK q \in Int, r \in 0..b - 1 : q = x \div b /\ x = b * q + r
  BY DivMod
<1>4. Share(a, b) = q
  BY <1>2, <1>3 DEF Share
<1>5. b * q \in Int
  OBVIOUS
<1>6. q >= 0
  <2>. SUFFICES ASSUME q <= -1 PROVE FALSE
    OBVIOUS
  <2>1. b * q <= b * (-1)
    BY ProductsGrow
  <2>2. b * (-1) = -b
    OBVIOUS
  <2>. QED BY <1>3, <1>5, <2>1, <2>2
<1>7. Grain * b = b * Grain
  BY <1>1
<1>8. q <= Grain
  <2>. SUFFICES ASSUME Grain + 1 <= q PROVE FALSE
    BY <1>1
  <2>1. b * (Grain + 1) <= b * q
    BY <1>1, ProductsGrow
  <2>2. b * (Grain + 1) = b * Grain + b * 1 /\ b * 1 = b
    BY <1>1, Products
  <2>. QED BY <1>2, <1>3, <1>5, <1>7, <2>1, <2>2
<1>9. ASSUME a = 0 PROVE q = 0
  <2>. SUFFICES ASSUME 1 <= q PROVE FALSE
    BY <1>6
  <2>1. x = 0
    BY <1>1, <1>2, <1>9
  <2>2. b * 1 <= b * q /\ b * 1 = b
    BY ProductsGrow
  <2>. QED BY <1>3, <1>5, <2>1, <2>2
<1>10. ASSUME a = b PROVE q = Grain
  <2>. SUFFICES ASSUME q + 1 <= Grain PROVE FALSE
    BY <1>1, <1>8
  <2>1. b * (q + 1) <= b * Grain
    BY <1>1, ProductsGrow
  <2>2. b * (q + 1) = b * q + b * 1 /\ b * 1 = b
    BY Products
  <2>3. x = b * Grain
    BY <1>2, <1>7, <1>10
  <2>. QED BY <1>1, <1>3, <1>5, <2>1, <2>2, <2>3
<1>. QED BY <1>1, <1>4, <1>6, <1>8, <1>9, <1>10

\* What a finite set is mapped to is finite.
LEMMA ImageIs ==
  ASSUME NEW S, IsFiniteSet(S), NEW f, DOMAIN f = S
  PROVE  IsFiniteSet({f[x] : x \in S})
<1>. DEFINE T == {f[x] : x \in S}
            g == [x \in S |-> f[x]]
<1>1. g \in Surjection(S, T)
  BY DEF Surjection
<1>. QED BY <1>1, FS_Surjection

LEMMA TagsFinite ==
  ASSUME NEW ents, IsFiniteSet(DOMAIN ents)
  PROVE  IsFiniteSet(Tags(ents))
<1>. DEFINE f == [k \in DOMAIN ents |-> <<k, ents[k]>>]
<1>1. IsFiniteSet({f[k] : k \in DOMAIN ents})
  <2>1. DOMAIN f = DOMAIN ents
    OBVIOUS
  <2>. HIDE DEF f
  <2>. QED BY <2>1, ImageIs
<1>2. {f[k] : k \in DOMAIN ents} = Tags(ents)
  BY DEF Tags
<1>. QED BY <1>1, <1>2

ItemTyped(x) ==
    /\ x.time \in Int /\ x.score \in Nat /\ x.change \in BOOLEAN
    /\ IsFiniteSet(DOMAIN x.ents)
    /\ x.change => x.score = 0
ItemsTyped(items, n) ==
    /\ n \in Nat /\ Len(items) = n /\ DOMAIN items = 1..n
    /\ \A i \in 1..n : ItemTyped(items[i])
    /\ \A i, j \in 1..n : i <= j => items[i].time <= items[j].time

LEMMA BreadthIs ==
  ASSUME NEW n, NEW items, ItemsTyped(items, n), NEW idx \in SUBSET (1..n), NEW i \in idx
  PROVE  Breadth(items, idx, i) \in 0..Grain
<1>. DEFINE all == UNION {Tags(items[k].ents) : k \in idx}
            hit == {t \in Tags(items[i].ents) : \E k \in idx \ {i} : t \in Tags(items[k].ents)}
            f == [k \in idx |-> Tags(items[k].ents)]
<1>1. IsFiniteSet(idx)
  <2>1. n \in Nat
    BY DEF ItemsTyped
  <2>2. IsFiniteSet(1..n)
    BY <2>1, FS_Interval
  <2>. QED BY <2>2, FS_Subset
<1>2. IsFiniteSet(all)
  <2>1. IsFiniteSet({f[k] : k \in idx})
    <3>1. DOMAIN f = idx
      OBVIOUS
    <3>. HIDE DEF f
    <3>. QED BY <1>1, <3>1, ImageIs
  <2>2. \A T \in {f[k] : k \in idx} : IsFiniteSet(T)
    <3>1. ASSUME NEW k \in idx PROVE IsFiniteSet(f[k])
      <4>1. IsFiniteSet(DOMAIN items[k].ents)
        BY DEF ItemsTyped, ItemTyped
      <4>. QED BY <4>1, TagsFinite
    <3>. HIDE DEF f
    <3>. QED BY <3>1
  <2>3. IsFiniteSet(UNION {f[k] : k \in idx})
    <3>. HIDE DEF f
    <3>. QED BY <2>1, <2>2, FS_UNION
  <2>. QED BY <2>3
<1>3. hit \subseteq all
  OBVIOUS
<1>. HIDE DEF all, hit
<1>4. Cardinality(hit) \in Nat /\ Cardinality(all) \in Nat /\ Cardinality(hit) <= Cardinality(all)
  BY <1>2, <1>3, FS_Subset, FS_CardinalityType
<1>5. CASE all = {}
  <2>1. Breadth(items, idx, i) = 0 /\ Grain \in Nat
    BY <1>5, CorrelationAssumption DEF Breadth, all
  <2>. QED BY <2>1
<1>6. CASE all # {}
  <2>1. Breadth(items, idx, i) = Share(Cardinality(hit), Cardinality(all))
    BY <1>6 DEF Breadth, all, hit
  <2>2. Cardinality(all) # 0
    BY <1>2, <1>6, FS_EmptySet
  <2>. QED BY <1>4, <2>1, <2>2, ShareOf
<1>. QED BY <1>5, <1>6

\* Where an incident starts and ends, the time of its first symptom, its
\* greatest score.
StartOf(items, idx) == items[Min(idx)].time
EndOf(items, idx) == items[Max(idx)].time
FirstOf(items, idx) ==
    Min({EndOf(items, idx)} \cup {items[k].time : k \in {k \in idx : ~items[k].change}})
TopOf(items, idx) == Max({items[k].score : k \in idx})

LEMMA SpanOf ==
  ASSUME NEW n, NEW items, ItemsTyped(items, n), NEW idx \in SUBSET (1..n), idx # {}
  PROVE  /\ IsFiniteSet(idx) /\ Cardinality(idx) \in Nat \ {0}
         /\ StartOf(items, idx) \in Int /\ EndOf(items, idx) \in Int
         /\ \A i \in idx : /\ items[i].time \in Int /\ StartOf(items, idx) <= items[i].time
                           /\ items[i].time <= EndOf(items, idx)
<1>1. n \in Nat
  BY DEF ItemsTyped
<1>2. IsFiniteSet(idx) /\ Cardinality(idx) \in Nat /\ Cardinality(idx) # 0
  <2>1. IsFiniteSet(1..n)
    BY <1>1, FS_Interval
  <2>2. IsFiniteSet(idx)
    BY <2>1, FS_Subset
  <2>. QED BY <2>2, FS_CardinalityType, FS_EmptySet
<1>3. idx \in SUBSET Nat
  BY <1>1
<1>4. PICK a \in idx : a = Min(idx) /\ \A y \in idx : a <= y
  BY <1>3, LeastIn
<1>5. PICK b \in idx : b = Max(idx) /\ \A y \in idx : y <= b
  BY <1>2, <1>3, GreatestIn
<1>6. StartOf(items, idx) = items[a].time /\ EndOf(items, idx) = items[b].time
  BY <1>4, <1>5 DEF StartOf, EndOf
<1>7. ASSUME NEW i \in idx
      PROVE  /\ items[i].time \in Int /\ items[a].time <= items[i].time
             /\ items[i].time <= items[b].time
  <2>1. i \in 1..n /\ a \in 1..n /\ b \in 1..n /\ a <= i /\ i <= b
    BY <1>4, <1>5
  <2>. QED BY <2>1 DEF ItemsTyped, ItemTyped
<1>. QED BY <1>2, <1>4, <1>5, <1>6, <1>7

LEMMA FirstIs ==
  ASSUME NEW n, NEW items, ItemsTyped(items, n), NEW idx \in SUBSET (1..n),
         \E i \in idx : ~items[i].change
  PROVE  /\ FirstOf(items, idx) \in Int /\ StartOf(items, idx) <= FirstOf(items, idx)
         /\ \A i \in idx : ~items[i].change => FirstOf(items, idx) <= items[i].time
<1>. DEFINE sy == {k \in idx : ~items[k].change}
            S == {EndOf(items, idx)} \cup {items[k].time : k \in sy}
<1>0. n \in Nat /\ idx # {}
  BY DEF ItemsTyped
<1>1. sy \in SUBSET Nat /\ sy # {}
  <2>1. PICK i \in idx : ~items[i].change
    OBVIOUS
  <2>2. i \in sy /\ sy \subseteq 1..n
    BY <2>1
  <2>. HIDE DEF sy
  <2>. QED BY <1>0, <2>2
<1>. HIDE DEF sy
<1>2. PICK m \in sy : \A y \in sy : m <= y
  BY <1>1, LeastIn
<1>3. \A k \in sy : k \in idx /\ k \in 1..n
  BY DEF sy
<1>4. \A k \in sy : items[k].time \in Int /\ items[m].time <= items[k].time
  <2>1. \A k \in sy : m <= k /\ k \in 1..n /\ m \in 1..n
    BY <1>2, <1>3
  <2>. QED BY <2>1 DEF ItemsTyped, ItemTyped
<1>5. /\ EndOf(items, idx) \in Int /\ StartOf(items, idx) \in Int
      /\ \A k \in sy : /\ items[k].time \in Int /\ StartOf(items, idx) <= items[k].time
                       /\ items[k].time <= EndOf(items, idx)
  BY <1>0, <1>3, SpanOf
<1>6. \A y \in S : y \in Int /\ StartOf(items, idx) <= y /\ items[m].time <= y
  <2>1. items[m].time <= EndOf(items, idx) /\ StartOf(items, idx) <= EndOf(items, idx)
    BY <1>2, <1>5
  <2>. QED BY <1>4, <1>5, <2>1
<1>7. items[m].time \in S
  BY <1>2
<1>8. \A k \in sy : items[k].time \in S
  OBVIOUS
<1>. HIDE DEF S
<1>9. Min(S) \in S /\ \A y \in S : Min(S) <= y
  BY <1>6, <1>7 DEF Min
<1>10. FirstOf(items, idx) = Min(S)
  BY DEF FirstOf, S, sy
<1>11. \A i \in idx : ~items[i].change => i \in sy
  BY DEF sy
<1>. QED BY <1>6, <1>8, <1>9, <1>10, <1>11

LEMMA TopIs ==
  ASSUME NEW n, NEW items, ItemsTyped(items, n), NEW idx \in SUBSET (1..n), idx # {}
  PROVE  /\ TopOf(items, idx) \in Nat
         /\ \A i \in idx : items[i].score \in Nat /\ items[i].score <= TopOf(items, idx)
<1>. DEFINE f == [k \in idx |-> items[k].score]
            S == {f[k] : k \in idx}
<1>1. \A k \in idx : items[k].score \in Nat
  BY DEF ItemsTyped, ItemTyped
<1>2. IsFiniteSet(S)
  <2>1. DOMAIN f = idx /\ IsFiniteSet(idx)
    BY SpanOf
  <2>. HIDE DEF f
  <2>. QED BY <2>1, ImageIs
<1>3. S \in SUBSET Nat /\ S # {} /\ \A k \in idx : items[k].score \in S
  BY <1>1
<1>4. S = {items[k].score : k \in idx}
  OBVIOUS
<1>. HIDE DEF S
<1>5. Max(S) \in S /\ \A y \in S : y <= Max(S)
  BY <1>2, <1>3, GreatestIn
<1>6. TopOf(items, idx) = Max(S)
  BY <1>4 DEF TopOf
<1>. QED BY <1>1, <1>3, <1>5, <1>6

\* Whether a service of the incident depends on the service of a member.
DependedOn(items, idx, graph, i) ==
    \E s \in {Service(items[k]) : k \in idx} \ {"none"} :
       Reaches(graph, s, Service(items[i]), MaxDepth)

\* The five parts of a confidence: for time t, as a change c, for what depends
\* on it u, for its score s, for what it shares b.
PartsOf(items, idx, graph, i, t, c, u, s, b) ==
    /\ t \in 0..Grain /\ c \in BOOLEAN /\ u \in 0..Grain /\ s \in 0..Grain /\ b \in 0..Grain
    /\ items[i].time = StartOf(items, idx) => t = Grain
    /\ c <=> items[i].change /\ items[i].time <= FirstOf(items, idx)
    /\ ~DependedOn(items, idx, graph, i) => u = 0
    /\ items[i].score = 0 => s = 0
    /\ items[i].score = TopOf(items, idx) /\ TopOf(items, idx) > 0 => s = Grain
    /\ Confidence(items, idx, graph, i)
         = 25 * t + (IF c THEN 30 * Grain ELSE 0) + 35 * u + 10 * s + 10 * b

LEMMA PartsExist ==
  ASSUME NEW n, NEW items, ItemsTyped(items, n), NEW idx \in SUBSET (1..n), NEW i \in idx,
         NEW graph
  PROVE  \E t, c, u, s, b : PartsOf(items, idx, graph, i, t, c, u, s, b)
<1>. DEFINE start == StartOf(items, idx)
            end == EndOf(items, idx)
            top == TopOf(items, idx)
            services == {Service(items[k]) : k \in idx} \ {"none"}
            others == services \ {Service(items[i])}
            up == UpstreamOf(graph, Service(items[i]), others, MaxDepth)
            time == items[i].time
            score == items[i].score
            named == Cardinality(services) > 1 /\ Service(items[i]) # "none"
            t == IF end > start THEN Grain - Share(time - start, end - start) ELSE Grain
            c == items[i].change /\ time <= FirstOf(items, idx)
            u == IF named THEN Share(up, Cardinality(others)) ELSE 0
            s == IF top > 0 THEN Share(score, top) ELSE 0
            b == Breadth(items, idx, i)
<1>0. Grain \in Nat
  BY CorrelationAssumption
<1>1. start \in Int /\ end \in Int /\ time \in Int /\ start <= time /\ time <= end
  BY SpanOf
<1>2. top \in Nat /\ score \in Nat /\ score <= top
  BY TopIs
<1>3. b \in 0..Grain
  BY BreadthIs
<1>4. c \in BOOLEAN
  OBVIOUS
<1>5. t \in 0..Grain /\ (time = start => t = Grain)
  <2>. HIDE DEF start, end, time
  <2>1. CASE end > start
    <3>1. PICK x \in Nat, y \in Nat \ {0} : x = time - start /\ y = end - start /\ x <= y
      BY <1>1, <2>1
    <3>2. Share(x, y) \in 0..Grain /\ (x = 0 => Share(x, y) = 0)
      BY <3>1, ShareOf
    <3>3. t = Grain - Share(x, y)
      BY <2>1, <3>1
    <3>4. time = start => x = 0
      BY <1>1, <3>1
    <3>. QED BY <1>0, <3>2, <3>3, <3>4
  <2>2. CASE ~(end > start)
    BY <1>0, <2>2
  <2>. QED BY <2>1, <2>2
<1>6. s \in 0..Grain /\ (score = 0 => s = 0) /\ (score = top /\ top > 0 => s = Grain)
  <2>. HIDE DEF top, score
  <2>1. CASE top > 0
    <3>1. top \in Nat \ {0}
      BY <1>2, <2>1
    <3>2. Share(score, top) \in 0..Grain /\ (score = 0 => Share(score, top) = 0)
          /\ (score = top => Share(score, top) = Grain)
      BY <1>2, <3>1, ShareOf
    <3>. QED BY <2>1, <3>2
  <2>2. CASE ~(top > 0)
    BY <1>0, <2>2
  <2>. QED BY <2>1, <2>2
<1>7. u \in 0..Grain /\ (~DependedOn(items, idx, graph, i) => u = 0)
  <2>1. IsFiniteSet(services)
    <3>. DEFINE f == [k \in idx |-> Service(items[k])]
    <3>1. IsFiniteSet({f[k] : k \in idx})
      <4>1. DOMAIN f = idx /\ IsFiniteSet(idx)
        BY SpanOf
      <4>. HIDE DEF f
      <4>. QED BY <4>1, ImageIs
    <3>2. services \subseteq {f[k] : k \in idx}
      OBVIOUS
    <3>. HIDE DEF services, f
    <3>. QED BY <3>1, <3>2, FS_Subset
  <2>. DEFINE who == {o \in others : Reaches(graph, o, Service(items[i]), MaxDepth)}
  <2>2. IsFiniteSet(others) /\ Cardinality(others) \in Nat
        /\ Cardinality(others) = (IF Service(items[i]) \in services
                                  THEN Cardinality(services) - 1 ELSE Cardinality(services))
    <3>. HIDE DEF services
    <3>. QED BY <2>1, FS_RemoveElement, FS_CardinalityType
  <2>3. IsFiniteSet(who) /\ up = Cardinality(who) /\ up \in Nat /\ up <= Cardinality(others)
    <3>1. who \subseteq others
      OBVIOUS
    <3>2. up = Cardinality(who)
      BY DEF UpstreamOf
    <3>. HIDE DEF who, others, up
    <3>. QED BY <2>2, <3>1, <3>2, FS_Subset, FS_CardinalityType
  <2>4. ~DependedOn(items, idx, graph, i) => up = 0
    <3>1. ~DependedOn(items, idx, graph, i) => who = {}
      BY DEF DependedOn
    <3>. HIDE DEF who, up
    <3>. QED BY <2>3, <3>1, FS_EmptySet
  <2>5. CASE named
    <3>1. Service(items[i]) \in services
      BY <2>5
    <3>2. Cardinality(others) \in Nat \ {0}
      <4>. HIDE DEF services, others
      <4>1. Cardinality(services) \in Nat /\ Cardinality(services) > 1
        BY <2>1, <2>5, FS_CardinalityType
      <4>. QED BY <2>2, <3>1, <4>1
    <3>3. u = Share(up, Cardinality(others))
      BY <2>5
    <3>. HIDE DEF named, up, others, services, u
    <3>4. Share(up, Cardinality(others)) \in 0..Grain
          /\ (up = 0 => Share(up, Cardinality(others)) = 0)
      BY <2>3, <3>2, ShareOf
    <3>. QED BY <2>4, <3>3, <3>4
  <2>6. CASE ~named
    <3>1. u = 0
      BY <2>6
    <3>. HIDE DEF u
    <3>. QED BY <1>0, <3>1
  <2>. QED BY <2>5, <2>6
<1>8. Confidence(items, idx, graph, i)
        = 25 * t + (IF c THEN 30 * Grain ELSE 0) + 35 * u + 10 * s + 10 * b
  <2>1. Confidence(items, idx, graph, i)
          = 25 * t + (IF c THEN 30 * Grain ELSE 0)
            + (IF named THEN 35 * Share(up, Cardinality(others)) ELSE 0)
            + (IF top > 0 THEN 10 * Share(score, top) ELSE 0) + 10 * b
    BY DEF Confidence, StartOf, EndOf, FirstOf, TopOf
  <2>2. (IF named THEN 35 * Share(up, Cardinality(others)) ELSE 0) = 35 * u
    <3>. HIDE DEF named, up, others
    <3>. QED OBVIOUS
  <2>3. (IF top > 0 THEN 10 * Share(score, top) ELSE 0) = 10 * s
    <3>. HIDE DEF top, score
    <3>. QED OBVIOUS
  <2>. HIDE DEF t, c, u, s, b, named, top, score, up, others
  <2>. QED BY <2>1, <2>2, <2>3
<1>9. c <=> items[i].change /\ items[i].time <= FirstOf(items, idx)
  OBVIOUS
<1>10. PartsOf(items, idx, graph, i, t, c, u, s, b)
  <2>1. /\ items[i].time = StartOf(items, idx) => t = Grain
        /\ items[i].score = 0 => s = 0
        /\ items[i].score = TopOf(items, idx) /\ TopOf(items, idx) > 0 => s = Grain
    <3>. HIDE DEF t, s
    <3>. QED BY <1>5, <1>6
  <2>. HIDE DEF t, c, u, s, b
  <2>. QED BY <1>3, <1>4, <1>5, <1>6, <1>7, <1>8, <1>9, <2>1 DEF PartsOf
<1>. QED BY <1>10

\* An early change stands above every symptom that nothing depends on.
LEMMA EarlyChangeAbove ==
  ASSUME NEW n, NEW items, ItemsTyped(items, n), NEW idx \in SUBSET (1..n),
         \E i \in idx : ~items[i].change, NEW graph,
         NEW e \in idx, items[e].change, items[e].time = StartOf(items, idx),
         NEW i \in idx, ~items[i].change, ~DependedOn(items, idx, graph, i)
  PROVE  Confidence(items, idx, graph, e) > Confidence(items, idx, graph, i)
<1>1. PICK t, c, u, s, b : PartsOf(items, idx, graph, e, t, c, u, s, b)
  BY PartsExist
<1>2. PICK t1, c1, u1, s1, b1 : PartsOf(items, idx, graph, i, t1, c1, u1, s1, b1)
  BY PartsExist
<1>3. StartOf(items, idx) <= FirstOf(items, idx)
  BY FirstIs
<1>4. PICK x, y : x = Confidence(items, idx, graph, e) /\ y = Confidence(items, idx, graph, i)
  OBVIOUS
<1>5. /\ t = Grain /\ u \in 0..Grain /\ s \in 0..Grain /\ b \in 0..Grain
      /\ x = 25 * t + 30 * Grain + 35 * u + 10 * s + 10 * b
  BY <1>1, <1>3, <1>4 DEF PartsOf
<1>6. /\ t1 \in 0..Grain /\ u1 = 0 /\ s1 \in 0..Grain /\ b1 \in 0..Grain
      /\ y = 25 * t1 + 0 + 35 * u1 + 10 * s1 + 10 * b1
  BY <1>2, <1>4 DEF PartsOf
<1>7. Grain \in Nat \ {0}
  BY CorrelationAssumption
<1>8. x > y
  BY <1>5, <1>6, <1>7
<1>. QED BY <1>4, <1>8

\* A late change that nothing depends on does not stand above a symptom of the
\* first time with the greatest score.
LEMMA LateChangeBelow ==
  ASSUME NEW n, NEW items, ItemsTyped(items, n), NEW idx \in SUBSET (1..n), NEW graph,
         NEW k \in idx, ~items[k].change, items[k].time = StartOf(items, idx),
         items[k].score = TopOf(items, idx), TopOf(items, idx) > 0,
         NEW i \in idx, items[i].change, items[i].time > StartOf(items, idx),
         ~DependedOn(items, idx, graph, i)
  PROVE  /\ Confidence(items, idx, graph, k) \in Int /\ Confidence(items, idx, graph, i) \in Int
         /\ Confidence(items, idx, graph, k) >= Confidence(items, idx, graph, i)
<1>1. PICK t, c, u, s, b : PartsOf(items, idx, graph, k, t, c, u, s, b)
  BY PartsExist
<1>2. PICK t1, c1, u1, s1, b1 : PartsOf(items, idx, graph, i, t1, c1, u1, s1, b1)
  BY PartsExist
<1>3. FirstOf(items, idx) <= items[k].time /\ FirstOf(items, idx) \in Int
  BY FirstIs
<1>4. PICK x, y : x = Confidence(items, idx, graph, k) /\ y = Confidence(items, idx, graph, i)
  OBVIOUS
<1>7. Grain \in Nat \ {0}
  BY CorrelationAssumption
<1>5. /\ t = Grain /\ u \in 0..Grain /\ s = Grain /\ b \in 0..Grain /\ x \in Int
      /\ x >= 25 * t + 35 * u + 10 * s + 10 * b
  <2>1. /\ t = Grain /\ u \in 0..Grain /\ s = Grain /\ b \in 0..Grain
        /\ x = 25 * t + (IF c THEN 30 * Grain ELSE 0) + 35 * u + 10 * s + 10 * b
    BY <1>1, <1>4 DEF PartsOf
  <2>. QED BY <1>7, <2>1
<1>6. /\ t1 \in 0..Grain /\ u1 = 0 /\ s1 = 0 /\ b1 \in 0..Grain
      /\ y = 25 * t1 + 0 + 35 * u1 + 10 * s1 + 10 * b1
  <2>1. items[i].score = 0
    BY DEF ItemsTyped, ItemTyped
  <2>2. ~(items[i].time <= FirstOf(items, idx))
    <3>1. items[i].time \in Int /\ StartOf(items, idx) \in Int
      BY SpanOf
    <3>. QED BY <1>3, <3>1
  <2>3. ~c1
    BY <1>2, <2>2 DEF PartsOf
  <2>. QED BY <1>2, <1>4, <2>1, <2>3 DEF PartsOf
<1>8. x >= y /\ y \in Int
  BY <1>5, <1>6, <1>7
<1>. QED BY <1>4, <1>5, <1>8

LEMMA ConfidenceTyped ==
  ASSUME NEW n, NEW items, ItemsTyped(items, n), NEW idx \in SUBSET (1..n), NEW i \in idx, NEW graph
  PROVE  Confidence(items, idx, graph, i) \in Int
<1>1. PICK t, c, u, s, b : PartsOf(items, idx, graph, i, t, c, u, s, b)
  BY PartsExist
<1>2. Grain \in Nat
  BY CorrelationAssumption
<1>3. /\ t \in Int /\ u \in Int /\ s \in Int /\ b \in Int
      /\ Confidence(items, idx, graph, i)
           = 25 * t + (IF c THEN 30 * Grain ELSE 0) + 35 * u + 10 * s + 10 * b
  BY <1>1, <1>2 DEF PartsOf
<1>. QED BY <1>2, <1>3

HasLeast(S, f) == \E i \in S : \A j \in S : f[j] \subseteq f[i] => f[j] = f[i]
LEMMA LeastOfImages ==
  ASSUME NEW S, IsFiniteSet(S), S # {}, NEW f \in [S -> SUBSET S]
  PROVE  HasLeast(S, f)
<1>. DEFINE T == {f[i] : i \in S}
<1>1. T \in SUBSET SUBSET S /\ T # {}
  OBVIOUS
<1>2. PICK U \in T : \A V \in T : V \subseteq U => V = U
  <2>. HIDE DEF T
  <2>. QED BY <1>1, SmallestOf
<1>3. PICK i \in S : U = f[i]
  BY <1>2
<1>. QED BY <1>2, <1>3 DEF HasLeast

\* The first cause is a member that no other outranks.
LEMMA FirstCause ==
  ASSUME NEW n, NEW items, ItemsTyped(items, n), NEW idx \in SUBSET (1..n), idx # {}, NEW graph,
         NEW conf, conf = [i \in idx |-> Confidence(items, idx, graph, i)]
  PROVE  /\ Causes(items, idx, graph)[1] \in idx
         /\ \A j \in idx : ~Outranks(items, conf, j, Causes(items, idx, graph)[1])
<1>1. IsFiniteSet(idx) /\ Cardinality(idx) \in Nat \ {0}
  BY SpanOf
<1>2. \A i \in idx : conf[i] \in Int /\ items[i].time \in Int /\ i \in Int
  <2>1. n \in Nat
    BY DEF ItemsTyped
  <2>2. \A i \in idx : Confidence(items, idx, graph, i) \in Int
    BY ConfidenceTyped
  <2>3. \A i \in idx : items[i].time \in Int
    BY SpanOf
  <2>4. \A i \in idx : conf[i] \in Int
    BY <2>2
  <2>5. \A i \in idx : i \in Int
    BY <2>1
  <2>. QED BY <2>3, <2>4, <2>5
<1>. DEFINE O(i, j) == Outranks(items, conf, i, j)
            Above(i) == {j \in idx : O(j, i)}
<1>3. \A i \in idx : ~O(i, i)
  BY <1>2 DEF Outranks
<1>4. \A i, j, k \in idx : O(i, j) /\ O(j, k) => O(i, k)
  BY <1>2 DEF Outranks
<1>. HIDE DEF O
<1>5. \E i \in idx : \A j \in idx : ~O(j, i)
  <2>. DEFINE f == [i \in idx |-> Above(i)]
  <2>1. f \in [idx -> SUBSET idx]
    OBVIOUS
  <2>2. PICK i \in idx : \A j \in idx : f[j] \subseteq f[i] => f[j] = f[i]
    <3>. HIDE DEF f
    <3>1. HasLeast(idx, f)
      BY <1>1, <2>1, LeastOfImages
    <3>. QED BY <3>1 DEF HasLeast
  <2>3. \A j \in idx : f[j] = Above(j)
    OBVIOUS
  <2>. HIDE DEF f
  <2>4. ASSUME NEW j \in idx, O(j, i) PROVE FALSE
    <3>1. Above(j) \subseteq Above(i)
      BY <1>4, <2>4
    <3>2. j \in Above(i) /\ j \notin Above(j)
      BY <1>3, <2>4
    <3>. QED BY <2>2, <2>3, <3>1, <3>2
  <2>. QED BY <2>4
<1>6. \A i \in idx : Cardinality(Above(i)) = 0 <=> Above(i) = {}
  <2>1. \A i \in idx : IsFiniteSet(Above(i))
    <3>1. \A i \in idx : Above(i) \subseteq idx
      OBVIOUS
    <3>. HIDE DEF Above
    <3>. QED BY <1>1, <3>1, FS_Subset
  <2>. HIDE DEF Above
  <2>. QED BY <2>1, FS_EmptySet
<1>. DEFINE first == CHOOSE i \in idx : Cardinality(Above(i)) = 0
<1>7. first \in idx /\ Cardinality(Above(first)) = 0
  <2>1. \E i \in idx : Cardinality(Above(i)) = 0
    BY <1>5, <1>6
  <2>. HIDE DEF Above
  <2>. QED BY <2>1
<1>8. Causes(items, idx, graph)[1] = first
  <2>1. 1 \in 1..Min({TopCauses, Cardinality(idx)})
    <3>1. TopCauses \in Nat \ {0}
      BY CorrelationAssumption
    <3>2. PICK a \in Nat \ {0}, b \in Nat \ {0} : a = TopCauses /\ b = Cardinality(idx)
      BY <1>1, <3>1
    <3>3. Min({a, b}) \in Nat /\ (Min({a, b}) = a \/ Min({a, b}) = b)
      BY MinOfTwo
    <3>. QED BY <3>2, <3>3
  <2>. DEFINE place(k) == CHOOSE i \in idx : Cardinality({j \in idx : Outranks(items, conf, j, i)}) = k - 1
  <2>2. Causes(items, idx, graph) = [k \in 1..Min({TopCauses, Cardinality(idx)}) |-> place(k)]
    BY DEF Causes
  <2>3. place(1) = first
    BY DEF O
  <2>. HIDE DEF place, first
  <2>. QED BY <2>1, <2>2, <2>3
<1>. HIDE DEF first
<1>9. \A j \in idx : ~O(j, first)
  BY <1>6, <1>7
<1>. QED BY <1>7, <1>8, <1>9 DEF O

-----------------------------------------------------------------------------
(* Correlation: what it keeps.                                             *)

AnyItem == {Item(s) : s \in Symptoms} \cup {ChangeItem(c) : c \in Changes}
LEMMA AnyItemTyped == \A x \in AnyItem : ItemTyped(x)
<1>1. ASSUME NEW s \in Symptoms PROVE ItemTyped(Item(s))
  BY CorrelationAssumption DEF Item, ItemTyped
<1>2. ASSUME NEW c \in Changes PROVE ItemTyped(ChangeItem(c))
  BY CorrelationAssumption DEF ChangeItem, ItemTyped
<1>. QED BY <1>1, <1>2 DEF AnyItem

\* What is sorted next to each other is sorted throughout.
LEMMA SortedThroughout ==
  ASSUME NEW n \in Nat, NEW t \in [1..n -> Int], \A i \in 1..n - 1 : t[i] <= t[i + 1]
  PROVE  \A i, j \in 1..n : i <= j => t[i] <= t[j]
<1>. SUFFICES ASSUME NEW i \in 1..n PROVE \A j \in 1..n : i <= j => t[i] <= t[j]
  OBVIOUS
<1>. DEFINE T == {j \in 0..n : i <= j => t[i] <= t[j]}
<1>1. 0 \in T
  OBVIOUS
<1>2. ASSUME NEW j \in 0..n - 1, j \in T PROVE j + 1 \in T
  <2>1. CASE i <= j
    <3>1. j \in 1..n - 1 /\ j \in 1..n /\ j + 1 \in 1..n
      BY <2>1
    <3>2. t[i] <= t[j] /\ t[j] <= t[j + 1] /\ t[i] \in Int /\ t[j] \in Int /\ t[j + 1] \in Int
      BY <1>2, <2>1, <3>1
    <3>3. t[i] <= t[j + 1]
      BY <3>2
    <3>. QED BY <3>3
  <2>2. CASE ~(i <= j) /\ i = j + 1
    <3>1. t[i] \in Int /\ t[i] = t[j + 1]
      BY <2>2
    <3>. QED BY <3>1
  <2>3. CASE ~(i <= j) /\ i # j + 1
    BY <2>3
  <2>. QED BY <2>1, <2>2, <2>3
<1>. HIDE DEF T
<1>3. \A j \in 0..n : j \in T
  BY <1>1, <1>2, StepByStep
<1>. QED BY <1>3 DEF T

LEMMA OrdersTyped ==
  ASSUME NEW symptoms \in Seq(Symptoms), NEW changes \in Seq(Changes),
         NEW items \in Orders(symptoms, changes)
  PROVE  ItemsTyped(items, Len(items))
<1>. DEFINE a == [i \in 1..Len(symptoms) |-> Item(symptoms[i])]
            b == [i \in 1..Len(changes) |-> ChangeItem(changes[i])]
            all == a \o b
            at == {i \in DOMAIN all : all[i].change \/ all[i].score >= MinScore}
            kept == Subsequence(all, at)
            n == Len(kept)
            sorted(p) == \A i \in 1..n - 1 : kept[p[i]].time <= kept[p[i + 1]].time
            made(p) == [i \in 1..n |-> kept[p[i]]]
<1>1. PICK p \in [1..n -> 1..n] : sorted(p) /\ items = made(p)
  BY DEF Orders
<1>2. all \in Seq(AnyItem)
  <2>1. a \in Seq(AnyItem)
    <3>1. \A i \in 1..Len(symptoms) : Item(symptoms[i]) \in AnyItem
      BY DEF AnyItem
    <3>. QED BY <3>1
  <2>2. b \in Seq(AnyItem)
    <3>1. \A i \in 1..Len(changes) : ChangeItem(changes[i]) \in AnyItem
      BY DEF AnyItem
    <3>. QED BY <3>1
  <2>. HIDE DEF a, b
  <2>. QED BY <2>1, <2>2
<1>. HIDE DEF all
<1>3. \A i \in at : i \in 1..Len(all)
  BY <1>2
<1>. HIDE DEF at
<1>4. kept \in Seq(AnyItem) /\ n \in Nat /\ \A i \in 1..n : kept[i] \in AnyItem
  <2>1. kept \in Seq(AnyItem)
    BY <1>2, <1>3, SubsequenceIs
  <2>. HIDE DEF kept
  <2>. QED BY <2>1
<1>. HIDE DEF kept, n
<1>5. \A i \in 1..n : items[i] = kept[p[i]] /\ p[i] \in 1..n
  BY <1>1
<1>6. Len(items) = n /\ DOMAIN items = 1..n
  BY <1>1, <1>4
<1>7. \A i \in 1..n : ItemTyped(items[i])
  BY <1>4, <1>5, AnyItemTyped
<1>8. \A i, j \in 1..n : i <= j => items[i].time <= items[j].time
  <2>. DEFINE t == [i \in 1..n |-> items[i].time]
  <2>1. t \in [1..n -> Int]
    BY <1>7 DEF ItemTyped
  <2>2. ASSUME NEW i \in 1..n - 1 PROVE t[i] <= t[i + 1]
    <3>1. i \in 1..n /\ i + 1 \in 1..n
      BY <1>4
    <3>2. kept[p[i]].time <= kept[p[i + 1]].time
      BY <1>1
    <3>. QED BY <1>5, <3>1, <3>2
  <2>3. \A i \in 1..n : t[i] = items[i].time
    OBVIOUS
  <2>. HIDE DEF t
  <2>4. \A i, j \in 1..n : i <= j => t[i] <= t[j]
    BY <1>4, <2>1, <2>2, SortedThroughout
  <2>. QED BY <2>3, <2>4
<1>. QED BY <1>4, <1>6, <1>7, <1>8 DEF ItemsTyped

\* A set of symptoms comes as a list of them.
LEMMA BatchListed ==
  ASSUME NEW S \in Batches
  PROVE  SetToSeq(S) \in Seq(Symptoms)
<1>1. S \subseteq Symptoms /\ IsFiniteSet(S)
  BY CorrelationAssumption, FS_Subset DEF Batches
<1>2. Cardinality(S) \in Nat /\ ExistsBijection(1..Cardinality(S), S)
  BY <1>1, FS_CardinalityType
<1>3. \E f \in [1..Cardinality(S) -> S] : IsInjective(f)
  BY <1>2 DEF ExistsBijection, Bijection, Injection
<1>4. SetToSeq(S) \in [1..Cardinality(S) -> S]
  BY <1>3 DEF SetToSeq
<1>. QED BY <1>1, <1>2, <1>4

\* The incidents are those of the items last correlated.
Correlated(c) ==
    \E log, items, graph, out :
      /\ log \in Seq(Changes)
      /\ c = [log |-> log, items |-> items, graph |-> graph, out |-> out]
      /\ items = <<>> => out = {}
      /\ items # <<>> => ItemsTyped(items, Len(items)) /\ out = Incidents(items, GraphOf(graph))
CorrInv == Correlated(corr)

LEMMA CorrStart == CorrelationInit => CorrInv
<1>. SUFFICES ASSUME CorrelationInit PROVE CorrInv
  OBVIOUS
<1>1. /\ corr = [log |-> <<>>, items |-> <<>>, graph |-> {}, out |-> {}]
      /\ <<>> \in Seq(Changes)
  BY DEF CorrelationInit
<1>. QED BY <1>1 DEF CorrInv, Correlated

LEMMA LogTyped ==
  ASSUME NEW log \in Seq(Changes), NEW c \in Changes
  PROVE  (LET l == Append(log, c) IN
            IF Len(l) > MaxChanges THEN SubSeq(l, Len(l) - MaxChanges + 1, Len(l)) ELSE l)
           \in Seq(Changes)
<1>. DEFINE l == Append(log, c)
<1>1. l \in Seq(Changes) /\ Len(l) \in Nat /\ MaxChanges \in Nat
  BY CorrelationAssumption
<1>. HIDE DEF l
<1>2. ASSUME Len(l) > MaxChanges
      PROVE  SubSeq(l, Len(l) - MaxChanges + 1, Len(l)) \in Seq(Changes)
  <2>1. \A i \in Len(l) - MaxChanges + 1 .. Len(l) : i \in 1..Len(l)
    BY <1>1, <1>2
  <2>2. \A i \in Len(l) - MaxChanges + 1 .. Len(l) : l[i] \in Changes
    BY <1>1, <2>1
  <2>3. Len(l) - MaxChanges + 1 \in Int /\ Len(l) \in Int
    BY <1>1
  <2>. QED BY <2>2, <2>3, SubSeqProperties
<1>. QED BY <1>1, <1>2 DEF l

LEMMA CorrKeeps == CorrInv /\ [CorrelationNext]_corrVars => CorrInv'
<1>. SUFFICES ASSUME CorrInv, [CorrelationNext]_corrVars PROVE Correlated(corr')
  BY DEF CorrInv
<1>1. PICK log, items0, graph0, out0 :
        /\ log \in Seq(Changes)
        /\ corr = [log |-> log, items |-> items0, graph |-> graph0, out |-> out0]
        /\ items0 = <<>> => out0 = {}
        /\ items0 # <<>> => /\ ItemsTyped(items0, Len(items0))
                            /\ out0 = Incidents(items0, GraphOf(graph0))
  BY DEF CorrInv, Correlated
<1>2. CASE UNCHANGED corrVars
  BY <1>2 DEF corrVars, CorrInv
<1>3. ASSUME NEW c \in Changes, RecordChange(c) PROVE Correlated(corr')
  <2>. DEFINE new == LET l == Append(log, c) IN
                 IF Len(l) > MaxChanges THEN SubSeq(l, Len(l) - MaxChanges + 1, Len(l)) ELSE l
  <2>1. new \in Seq(Changes)
    BY <1>1, LogTyped
  <2>2. corr' = [log |-> new, items |-> items0, graph |-> graph0, out |-> out0]
    BY <1>1, <1>3 DEF RecordChange
  <2>. HIDE DEF new
  <2>. QED BY <1>1, <2>1, <2>2 DEF Correlated
<1>4. ASSUME NEW S \in Batches, NEW g \in Graphs, Correlate(SetToSeq(S), g)
      PROVE  Correlated(corr')
  <2>1. PICK items \in Orders(SetToSeq(S), log) :
          /\ items # <<>>
          /\ corr' = [corr EXCEPT !.items = items, !.graph = g,
                                  !.out = Incidents(items, GraphOf(g))]
    BY <1>1, <1>4 DEF Correlate
  <2>2. ItemsTyped(items, Len(items))
    BY <1>1, BatchListed, OrdersTyped
  <2>3. corr' = [log |-> log, items |-> items, graph |-> g, out |-> Incidents(items, GraphOf(g))]
    BY <1>1, <2>1
  <2>4. PICK out : out = Incidents(items, GraphOf(g))
    OBVIOUS
  <2>5. /\ corr' = [log |-> log, items |-> items, graph |-> g, out |-> out]
        /\ log \in Seq(Changes) /\ items # <<>>
    BY <1>1, <2>1, <2>3, <2>4
  <2>. QED BY <2>2, <2>4, <2>5 DEF Correlated
<1>. QED BY <1>2, <1>3, <1>4 DEF CorrelationNext

LEMMA ChainsTell == CorrInv => IncidentsAreChains
<1>. SUFFICES ASSUME CorrInv, corr.items # <<>>
              PROVE  LET items == corr.items  chained == Chained(items, GraphOf(corr.graph)) IN
                     /\ \A inc \in corr.out : \A i \in inc.idx, j \in DOMAIN items :
                           j \in inc.idx <=> <<i, j>> \in chained
                     /\ \A i \in DOMAIN items : ~items[i].change =>
                           \E inc \in corr.out : i \in inc.idx
                     /\ \A inc \in corr.out : inc.jobs # {}
  BY DEF IncidentsAreChains
<1>1. PICK items, graph, out, n :
        /\ items = corr.items /\ graph = GraphOf(corr.graph) /\ out = corr.out /\ n = Len(items)
        /\ ItemsTyped(items, n) /\ out = Incidents(items, graph)
  BY DEF CorrInv, Correlated
<1>2. n \in Nat /\ Len(items) = n /\ DOMAIN items = 1..n
  BY <1>1 DEF ItemsTyped
<1>3. /\ \A inc \in out :
           /\ inc = Incident(items, inc.idx, graph) /\ inc.idx \subseteq 1..n
           /\ \E i \in inc.idx : ~items[i].change
           /\ \A i \in inc.idx, j \in 1..n :
                j \in inc.idx <=> <<i, j>> \in Chained(items, graph)
      /\ \A i \in 1..n : ~items[i].change => \E inc \in out : i \in inc.idx
  BY <1>1, <1>2, IncidentsTell
<1>4. ASSUME NEW inc \in out PROVE inc.jobs # {}
  <2>1. PICK i \in inc.idx : ~items[i].change
    BY <1>3
  <2>2. PICK idx : idx = inc.idx /\ inc = Incident(items, idx, graph)
    BY <1>3
  <2>3. inc.jobs = {items[k].job : k \in {k \in idx : ~items[k].change}}
    BY <2>2 DEF Incident
  <2>. QED BY <2>1, <2>2, <2>3
<1>. QED BY <1>1, <1>2, <1>3, <1>4

LEMMA OriginTells == CorrInv => ChangeIsOrigin
<1>. SUFFICES ASSUME CorrInv, NEW inc \in corr.out
              PROVE  LET items == corr.items
                         up(i) == \E s \in {Service(items[k]) : k \in inc.idx} \ {"none"} :
                                    Reaches(GraphOf(corr.graph), s, Service(items[i]), MaxDepth)
                         early == {i \in inc.idx : items[i].change /\ items[i].time = inc.start}
                         first == inc.causes[1] IN
                     /\ (early # {} /\ \A i \in inc.idx : ~up(i)) => items[first].change
                     /\ \A k \in inc.idx :
                          (/\ ~items[k].change /\ items[k].time = inc.start
                           /\ items[k].score = inc.max /\ inc.max > 0)
                            => ~(/\ items[first].change /\ items[first].time > inc.start
                                 /\ ~up(first))
  BY DEF ChangeIsOrigin
<1>1. PICK items, graph, out, n :
        /\ items = corr.items /\ graph = GraphOf(corr.graph) /\ out = corr.out /\ n = Len(items)
        /\ ItemsTyped(items, n) /\ out = Incidents(items, graph)
  BY DEF CorrInv, Correlated
<1>2. n \in Nat /\ Len(items) = n /\ DOMAIN items = 1..n
  BY <1>1 DEF ItemsTyped
<1>3. PICK idx : /\ idx = inc.idx /\ inc = Incident(items, idx, graph) /\ idx \subseteq 1..n
                 /\ \E i \in idx : ~items[i].change
  BY <1>1, <1>2, IncidentsTell
<1>4. idx \in SUBSET (1..n) /\ idx # {}
  BY <1>3
<1>5. /\ inc.start = StartOf(items, idx) /\ inc.max = TopOf(items, idx)
      /\ inc.causes = Causes(items, idx, graph)
  BY <1>3 DEF Incident, StartOf, TopOf
<1>6. PICK conf : conf = [i \in idx |-> Confidence(items, idx, graph, i)]
  OBVIOUS
<1>7. PICK first : /\ first = inc.causes[1] /\ first \in idx
                   /\ \A j \in idx : ~Outranks(items, conf, j, first)
  BY <1>1, <1>4, <1>5, <1>6, FirstCause
<1>8. \A i \in idx : conf[i] = Confidence(items, idx, graph, i)
  BY <1>6
<1>9. items[first].change \in BOOLEAN
  BY <1>1, <1>4, <1>7 DEF ItemsTyped, ItemTyped
<1>10. ASSUME NEW e \in idx, items[e].change, items[e].time = inc.start,
              \A i \in idx : ~DependedOn(items, idx, graph, i)
       PROVE  items[first].change
  <2>. SUFFICES ASSUME ~items[first].change PROVE FALSE
    BY <1>9
  <2>1. Confidence(items, idx, graph, e) > Confidence(items, idx, graph, first)
    BY <1>1, <1>3, <1>4, <1>5, <1>7, <1>10, EarlyChangeAbove
  <2>2. Outranks(items, conf, e, first)
    BY <1>7, <1>8, <2>1 DEF Outranks
  <2>. QED BY <1>7, <2>2
<1>11. ASSUME NEW k \in idx, ~items[k].change, items[k].time = inc.start,
              items[k].score = inc.max, inc.max > 0,
              items[first].change, items[first].time > inc.start,
              ~DependedOn(items, idx, graph, first)
       PROVE  FALSE
  <2>1. /\ Confidence(items, idx, graph, k) \in Int /\ Confidence(items, idx, graph, first) \in Int
        /\ Confidence(items, idx, graph, k) >= Confidence(items, idx, graph, first)
    BY <1>1, <1>4, <1>5, <1>7, <1>11, LateChangeBelow
  <2>2. items[k].time < items[first].time
    <3>1. items[k].time \in Int /\ items[first].time \in Int
      BY <1>1, <1>4, <1>7, SpanOf
    <3>. QED BY <1>11, <3>1
  <2>3. Outranks(items, conf, k, first)
    BY <1>7, <1>8, <2>1, <2>2 DEF Outranks
  <2>. QED BY <1>7, <2>3
<1>12. \A i \in idx : DependedOn(items, idx, graph, i) <=>
         \E s \in {Service(items[k]) : k \in inc.idx} \ {"none"} :
            Reaches(graph, s, Service(items[i]), MaxDepth)
  BY <1>3 DEF DependedOn
<1>. QED BY <1>1, <1>3, <1>7, <1>10, <1>11, <1>12

\* IncidentsStand holds of all symptoms, changes, graphs and windows: whatever
\* the order of the unions and of items of one time (Correlate, group and rank of
\* correlate/correlate.go), an incident is a chain of linked pairs with every
\* symptom in one, and a change made before the symptoms is named as its origin.
THEOREM IncidentsCorrect == ServicesSpec => []IncidentsStand
<1>1. ServicesInit => CorrInv
  BY CorrStart DEF ServicesInit
<1>2. CorrInv /\ [ServicesNext]_allVars => CorrInv'
  BY Steps, CorrKeeps
<1>3. CorrInv => IncidentsStand
  BY ChainsTell, OriginTells DEF IncidentsStand
<1>. QED BY <1>1, <1>2, <1>3, PTL DEF ServicesSpec, allVars

-----------------------------------------------------------------------------
(* The datafeed: what the points of a list count for one bucket.           *)

AnyPoint == [time : Nat, term : Int, value : Int]

\* A count of points, by any sum of their values.
LEMMA CountIs ==
  ASSUME NEW points, NEW key, NEW S, S = {i \in DOMAIN points : points[i].time = key},
         IsFiniteSet(S), NEW f, \A x \in S : f[x] = points[x].value, NEW g, IsSum(g, S, f)
  PROVE  CountOver(points, key) = g[S]
<1>1. \A u \in SUBSET S : u # {} => f[AnyOf(u)] = points[AnyOf(u)].value
  BY PickIs
<1>2. \A k : IsSum(k, S, f)
              <=> k = [u \in SUBSET S |-> IF u = {} THEN 0
                                          ELSE points[AnyOf(u)].value + k[u \ {AnyOf(u)}]]
  <2>. SUFFICES ASSUME NEW k
                PROVE  [u \in SUBSET S |-> IF u = {} THEN 0 ELSE f[AnyOf(u)] + k[u \ {AnyOf(u)}]]
                       = [u \in SUBSET S |-> IF u = {} THEN 0
                                             ELSE points[AnyOf(u)].value + k[u \ {AnyOf(u)}]]
    BY DEF IsSum
  <2>. QED BY <1>1
<1>3. \A k : IsSum(k, S, f) => k = g
  BY SumUnique
<1>4. CountOver(points, key) = (CHOOSE k : k = [u \in SUBSET S |->
                    IF u = {} THEN 0 ELSE points[AnyOf(u)].value + k[u \ {AnyOf(u)}]])[S]
  BY DEF CountOver, AnyOf, MapThenSumSet, MapThenFoldSet
<1>. HIDE DEF IsSum
<1>5. (CHOOSE k : k = [u \in SUBSET S |->
                    IF u = {} THEN 0 ELSE points[AnyOf(u)].value + k[u \ {AnyOf(u)}]]) = g
  BY ONLY <1>2, <1>3, IsSum(g, S, f)
<1>. QED BY <1>4, <1>5

\* At most one point is of the bucket, and it counts v.
CountsOnce(points, key, v) ==
  \/ v = 0 /\ \A i \in 1..Len(points) : points[i].time # key
  \/ \E j \in 1..Len(points) :
        /\ points[j].time = key /\ points[j].value = v
        /\ \A i \in 1..Len(points) : i # j => points[i].time # key

\* Points that are appended add what they count.
LEMMA CountAppended ==
  ASSUME NEW points \in Seq(AnyPoint), NEW more \in Seq(AnyPoint), NEW key, NEW v \in Int,
         CountsOnce(more, key, v)
  PROVE  /\ CountOver(points, key) \in Int
         /\ CountOver(points \o more, key) = CountOver(points, key) + v
<1>. DEFINE all == points \o more
            n == Len(points)
            S == {i \in DOMAIN points : points[i].time = key}
            A == {i \in DOMAIN all : all[i].time = key}
            f == [i \in DOMAIN all |-> all[i].value]
<1>1. /\ n \in Nat /\ Len(more) \in Nat /\ DOMAIN points = 1..n /\ DOMAIN all = 1..n + Len(more)
      /\ \A i \in 1..n : all[i] = points[i]
      /\ \A i \in 1..Len(more) : n + i \in DOMAIN all /\ all[n + i] = more[i]
      /\ \A i \in DOMAIN all : i \in Int /\ (i \notin 1..n => i - n \in 1..Len(more) /\ i = n + (i - n))
  OBVIOUS
<1>2. all \in Seq(AnyPoint)
  OBVIOUS
<1>3. \A i \in DOMAIN all : all[i].value \in Int
  <2>1. \A i \in DOMAIN all : all[i] \in AnyPoint
    BY <1>2
  <2>. HIDE DEF all
  <2>. QED BY <2>1 DEF AnyPoint
<1>. HIDE DEF all, n
<1>4. IsFiniteSet(A) /\ S \in SUBSET A
  <2>1. IsFiniteSet(DOMAIN all)
    BY <1>1, FS_Interval
  <2>2. A \in SUBSET DOMAIN all
    OBVIOUS
  <2>3. S \in SUBSET A
    BY <1>1
  <2>. HIDE DEF A
  <2>. QED BY <2>1, <2>2, <2>3, FS_Subset
<1>5. (\A x \in A : f[x] = all[x].value /\ f[x] \in Int) /\ \A x \in S : f[x] = points[x].value
  BY <1>1, <1>3
<1>6. \/ v = 0 /\ A = S
      \/ \E x \in A : f[x] = v /\ S = A \ {x}
  <2>1. CASE v = 0 /\ \A i \in 1..Len(more) : more[i].time # key
    <3>1. \A i \in A : i \in 1..n
      BY <1>1, <2>1
    <3>2. A = S
      BY <1>1, <3>1
    <3>. QED BY <2>1, <3>2
  <2>2. ASSUME NEW j \in 1..Len(more), more[j].time = key, more[j].value = v,
               \A i \in 1..Len(more) : i # j => more[i].time # key
        PROVE  \E x \in A : f[x] = v /\ S = A \ {x}
    <3>1. n + j \in A /\ f[n + j] = v /\ n + j \notin 1..n
      BY <1>1, <2>2
    <3>2. \A i \in A : i # n + j => i \in 1..n
      <4>. SUFFICES ASSUME NEW i \in A, i # n + j, i \notin 1..n PROVE FALSE
        OBVIOUS
      <4>1. i - n \in 1..Len(more) /\ i = n + (i - n) /\ all[n + (i - n)] = more[i - n]
        BY <1>1
      <4>2. i - n # j
        BY <4>1
      <4>. QED BY <2>2, <4>1, <4>2
    <3>3. S = A \ {n + j}
      BY <1>1, <3>1, <3>2
    <3>. QED BY <3>1, <3>3
  <2>. QED BY <2>1, <2>2 DEF CountsOnce
<1>. HIDE DEF f, A, S
<1>7. PICK g : IsSum(g, A, f)
  BY <1>4, SumExists
<1>8. g[S] \in Int
  BY <1>4, <1>5, <1>7, SumInteger
<1>9. CountOver(all, key) = g[A]
  <2>1. A = {i \in DOMAIN all : all[i].time = key}
    BY DEF A
  <2>. QED BY <1>4, <1>5, <1>7, <2>1, CountIs
<1>10. CountOver(points, key) = g[S]
  <2>. DEFINE h == [s \in SUBSET S |-> g[s]]
  <2>1. IsSum(h, S, f)
    BY <1>4, <1>7, SumOfPart
  <2>2. h[S] = g[S]
    OBVIOUS
  <2>. HIDE DEF h
  <2>3. S = {i \in DOMAIN points : points[i].time = key} /\ IsFiniteSet(S)
    BY <1>4, FS_Subset DEF S
  <2>4. CountOver(points, key) = h[S]
    BY <1>5, <2>1, <2>3, CountIs
  <2>. QED BY <2>2, <2>4
<1>11. g[A] = g[S] + v
  <2>1. CASE v = 0 /\ A = S
    BY <1>8, <2>1
  <2>2. ASSUME NEW x \in A, f[x] = v, S = A \ {x} PROVE g[A] = g[S] + v
    <3>1. g[A] = f[x] + g[A \ {x}]
      BY <1>4, <1>5, <1>7, SumTakes
    <3>. QED BY <1>8, <2>2, <3>1
  <2>. QED BY <1>6, <2>1, <2>2
<1>. QED BY <1>8, <1>9, <1>10, <1>11 DEF all

\* No points count nothing.
LEMMA CountNone ==
  ASSUME NEW key
  PROVE  CountOver(<<>>, key) = 0
<1>. DEFINE S == {}
            f == [x \in S |-> 0]
            g == [s \in SUBSET S |-> 0]
            empty == <<>>
<1>1. IsSum(g, S, f) /\ g[S] = 0
  BY DEF IsSum
<1>2. S = {i \in DOMAIN empty : empty[i].time = key}
  OBVIOUS
<1>3. IsFiniteSet(S) /\ \A x \in S : f[x] = empty[x].value
  BY FS_EmptySet
<1>. HIDE DEF f, g, empty, S
<1>4. CountOver(empty, key) = g[S]
  BY <1>1, <1>2, <1>3, CountIs
<1>. QED BY <1>1, <1>4 DEF empty

-----------------------------------------------------------------------------
(* The points that have a value, in the order of all.                      *)

LEMMA ValuedIs ==
  ASSUME NEW points \in Seq(AnyPoint)
  PROVE  /\ Valued(points) \in Seq(AnyPoint)
         /\ \A i \in 1..Len(Valued(points)) : \E j \in 1..Len(points) : Valued(points)[i] = points[j]
         /\ \A i, j \in 1..Len(Valued(points)) : i < j =>
              \E a, b \in 1..Len(points) :
                 a < b /\ Valued(points)[i] = points[a] /\ Valued(points)[j] = points[b]
<1>. DEFINE at == {i \in DOMAIN points : points[i].value # NoReading}
            n == Len(points)
            out == Subsequence(points, at)
<1>1. Valued(points) = out
  BY DEF Valued
<1>2. n \in Nat /\ \A j \in at : j \in 1..n
  OBVIOUS
<1>. HIDE DEF at
<1>3. /\ out \in Seq(AnyPoint) /\ Cardinality(at) \in Nat /\ Len(out) = Cardinality(at)
      /\ \A k \in 1..Cardinality(at) : KthOf(at, k) \in at /\ out[k] = points[KthOf(at, k)]
  BY <1>2, SubsequenceIs
<1>. HIDE DEF out
<1>4. ASSUME NEW i \in 1..Len(out), NEW j \in 1..Len(out), i < j
      PROVE  KthOf(at, i) < KthOf(at, j)
  <2>. DEFINE a == KthOf(at, i)
              b == KthOf(at, j)
  <2>1. /\ a \in at /\ b \in at /\ a \in 1..n /\ b \in 1..n
        /\ Cardinality(Upto(at, a)) = i /\ Cardinality(Upto(at, b)) = j
    BY <1>2, <1>3, KthExists
  <2>5. a \in Nat /\ b \in Nat
    BY <1>2, <2>1
  <2>. HIDE DEF a, b
  <2>. SUFFICES ASSUME b <= a PROVE FALSE
    BY <1>2, <2>1 DEF a, b
  <2>2. Upto(at, b) \in SUBSET Upto(at, a)
    <3>1. \A x \in at : x \in Int /\ a \in Int /\ b \in Int
      BY <1>2, <2>1
    <3>. QED BY <3>1 DEF Upto
  <2>3. IsFiniteSet(Upto(at, a))
    BY <1>2, <2>5, UptoGrows
  <2>4. j <= i
    BY <2>1, <2>2, <2>3, FS_Subset
  <2>. QED BY <1>3, <1>4, <2>4
<1>5. \A i \in 1..Len(out) : KthOf(at, i) \in 1..n /\ out[i] = points[KthOf(at, i)]
  BY <1>2, <1>3
<1>. QED BY <1>1, <1>3, <1>4, <1>5

\* Where every point has a value, they are all of them.
LEMMA AllValued ==
  ASSUME NEW points \in Seq(AnyPoint), \A i \in 1..Len(points) : points[i].value # NoReading
  PROVE  Valued(points) = points
<1>. DEFINE n == Len(points)
            at == {i \in DOMAIN points : points[i].value # NoReading}
<1>1. n \in Nat /\ at = 1..n /\ points = [i \in 1..n |-> points[i]]
  OBVIOUS
<1>2. Valued(points) = Subsequence(points, 1..n)
  BY <1>1 DEF Valued
<1>. HIDE DEF n, at
<1>3. \A x \in Nat : Cardinality(1..x) = x
  BY FS_Interval
<1>4. ASSUME NEW k \in 1..n PROVE KthOf(1..n, k) = k
  <2>. DEFINE x == KthOf(1..n, k)
  <2>1. \A j \in 1..n : j \in 1..n
    OBVIOUS
  <2>2. x \in 1..n /\ Cardinality(Upto(1..n, x)) = k
    BY <1>1, <1>3, <2>1, KthExists
  <2>. HIDE DEF x
  <2>3. Upto(1..n, x) = 1..x
    BY <1>1, <2>2 DEF Upto
  <2>4. Cardinality(1..x) = x
    BY <1>1, <1>3, <2>2
  <2>. QED BY <2>2, <2>3, <2>4 DEF x
<1>. QED BY <1>1, <1>2, <1>3, <1>4 DEF Subsequence

-----------------------------------------------------------------------------
(* Documents, and the buckets they fall into.                              *)
AnyDoc == [at : Nat, term : Nat, value : Nat \cup {NoReading}, copy : Nat]

\* A bucket begins at a multiple of the span.
LEMMA KeyIs ==
  ASSUME NEW x \in Nat
  PROVE  x \div Span \in Nat /\ KeyOf(x) = Span * (x \div Span) /\ KeyOf(x) \in Nat
<1>1. Span \in Nat \ {0}
  BY FeedAssumption
<1>2. PICK q \in Int, r \in 0..Span - 1 : q = x \div Span /\ r = x % Span /\ x = Span * q + r
  BY <1>1, DivMod
<1>3. Span * q \in Int
  BY <1>1
<1>4. q >= 0
  <2>. SUFFICES ASSUME q <= -1 PROVE FALSE
    OBVIOUS
  <2>1. Span * q <= Span * (-1)
    BY <1>1, ProductsGrow
  <2>2. Span * (-1) = -Span
    BY <1>1
  <2>. QED BY <1>1, <1>2, <1>3, <2>1, <2>2
<1>5. Span * 0 <= Span * q /\ Span * 0 = 0
  BY <1>1, <1>4, ProductsGrow
<1>6. KeyOf(x) = Span * q
  BY <1>1, <1>2, <1>3 DEF KeyOf
<1>. QED BY <1>2, <1>3, <1>4, <1>5, <1>6

\* Multiples tell what they are multiples by.
LEMMA MultiplesTell ==
  ASSUME NEW n \in Nat \ {0}, NEW a \in Int, NEW b \in Int
  PROVE  /\ a < b => n * a < n * b
         /\ n * a = n * b => a = b
         /\ (n * a) \div n = a
<1>1. ASSUME NEW x \in Int, NEW y \in Int, x < y PROVE n * x < n * y
  <2>1. n * (x + 1) <= n * y
    BY <1>1, ProductsGrow
  <2>2. n * (x + 1) = n * x + n * 1 /\ n * 1 = n /\ n * x \in Int /\ n * y \in Int
    BY Products
  <2>. QED BY <2>1, <2>2
<1>2. \A x, y \in Int : n * x = n * y => x = y
  <2>. SUFFICES ASSUME NEW x \in Int, NEW y \in Int, n * x = n * y, x # y PROVE FALSE
    OBVIOUS
  <2>1. n * x \in Int
    OBVIOUS
  <2>. QED BY <1>1, <2>1
<1>3. (n * a) \div n = a
  <2>1. PICK p \in Int : p = n * a
    OBVIOUS
  <2>2. PICK q \in Int, r \in 0..n - 1 : q = p \div n /\ p = n * q + r
    BY DivMod
  <2>3. n * q \in Int /\ n * (q + 1) = n * q + n * 1 /\ n * 1 = n
    BY Products
  <2>4. ~(q < a)
    <3>. SUFFICES ASSUME q + 1 <= a PROVE FALSE
      OBVIOUS
    <3>1. n * (q + 1) <= n * a
      BY ProductsGrow
    <3>. QED BY <2>1, <2>2, <2>3, <3>1
  <2>5. ~(a < q)
    <3>1. ASSUME a < q PROVE n * a < n * q
      BY <1>1, <3>1
    <3>. QED BY <2>1, <2>2, <2>3, <3>1
  <2>6. q = a
    BY <2>4, <2>5
  <2>. QED BY <2>1, <2>2, <2>6
<1>. QED BY <1>1, <1>2, <1>3

\* A histogram has one bucket for each key, and one for each document.
LEMMA HistogramIs ==
  ASSUME NEW docs \in SUBSET AnyDoc, IsFiniteSet(docs)
  PROVE  /\ Histogram(docs) \in Seq(Nat)
         /\ \A i, j \in 1..Len(Histogram(docs)) : Histogram(docs)[i] = Histogram(docs)[j] => i = j
         /\ \A d \in docs : \E i \in 1..Len(Histogram(docs)) : Histogram(docs)[i] = KeyOf(d.at)
<1>0. CASE docs = {}
  <2>1. Histogram(docs) = <<>>
    BY <1>0 DEF Histogram
  <2>2. <<>> \in Seq(Nat) /\ 1..Len(<<>>) = {}
    OBVIOUS
  <2>. QED BY <1>0, <2>1, <2>2
<1>. SUFFICES ASSUME docs # {} PROVE
         /\ Histogram(docs) \in Seq(Nat)
         /\ \A i, j \in 1..Len(Histogram(docs)) : Histogram(docs)[i] = Histogram(docs)[j] => i = j
         /\ \A d \in docs : \E i \in 1..Len(Histogram(docs)) : Histogram(docs)[i] = KeyOf(d.at)
  BY <1>0
<1>. DEFINE T == {d.at : d \in docs}
            g == [d \in docs |-> d.at]
<1>1. T \in SUBSET Nat /\ T # {}
  BY DEF AnyDoc
<1>2. IsFiniteSet(T)
  <2>1. T = {g[d] : d \in docs} /\ DOMAIN g = docs
    OBVIOUS
  <2>. HIDE DEF g, T
  <2>. QED BY <2>1, ImageIs
<1>. HIDE DEF T
<1>3. PICK lo \in Nat : lo = Min(T) /\ \A y \in T : lo <= y
  BY <1>1, LeastIn
<1>4. PICK hi \in Nat : hi \in T /\ hi = Max(T) /\ \A y \in T : y <= hi
  BY <1>1, <1>2, GreatestIn
<1>5. PICK a \in Nat : a = lo \div Span /\ KeyOf(lo) = Span * a
  BY KeyIs
<1>6. PICK b \in Nat : b = hi \div Span /\ KeyOf(hi) = Span * b
  BY KeyIs
<1>7. Span \in Nat \ {0}
  BY FeedAssumption
<1>8. a <= b
  BY <1>3, <1>4, <1>5, <1>6, <1>7, QuotientsGrow
<1>9. (Span * b - Span * a) \div Span = b - a
  <2>1. Span * b = Span * (b - a) + Span * a /\ Span * (b - a) \in Int /\ Span * a \in Int
    <3>1. Span * (a + (b - a)) = Span * a + Span * (b - a) /\ Span * (b - a) \in Int /\ Span * a \in Int
      BY <1>7, Products
    <3>2. a + (b - a) = b
      OBVIOUS
    <3>. QED BY <3>1, <3>2
  <2>2. Span * b - Span * a = Span * (b - a)
    BY <2>1
  <2>3. (Span * (b - a)) \div Span = b - a
    BY <1>7, MultiplesTell
  <2>. QED BY <2>2, <2>3
<1>10. Histogram(docs) = [i \in 1..(Span * b - Span * a) \div Span + 1 |-> Span * a + (i - 1) * Span]
  BY <1>3, <1>4, <1>5, <1>6 DEF Histogram, T
<1>11. PICK n \in Nat : n = b - a + 1
  BY <1>8
<1>12. \A i \in 1..n : Span * a + (i - 1) * Span = Span * (a + i - 1) /\ a + i - 1 \in Nat
  <2>. SUFFICES ASSUME NEW i \in 1..n PROVE Span * a + (i - 1) * Span = Span * (a + i - 1)
    BY <1>11
  <2>1. Span * (a + (i - 1)) = Span * a + Span * (i - 1)
    BY <1>7, Products
  <2>2. a + (i - 1) = a + i - 1 /\ Span * (i - 1) = (i - 1) * Span
    BY <1>7
  <2>. QED BY <2>1, <2>2
<1>13. Histogram(docs) = [i \in 1..n |-> Span * (a + i - 1)]
  BY <1>9, <1>10, <1>11, <1>12
<1>. DEFINE h == Histogram(docs)
<1>14. Len(h) = n /\ \A i \in 1..n : h[i] = Span * (a + i - 1)
  BY <1>13
<1>15. h \in Seq(Nat)
  <2>1. \A i \in 1..n : Span * (a + i - 1) \in Nat
    <3>1. \A i \in 1..n : a + i - 1 \in Nat
      BY <1>12
    <3>. QED BY <1>7, <3>1
  <2>. QED BY <1>13, <2>1
<1>. HIDE DEF h
<1>16. ASSUME NEW i \in 1..n, NEW j \in 1..n, h[i] = h[j] PROVE i = j
  <2>1. a + i - 1 \in Int /\ a + j - 1 \in Int /\ Span * (a + i - 1) = Span * (a + j - 1)
    BY <1>14, <1>16
  <2>2. a + i - 1 = a + j - 1
    BY <1>7, <2>1, MultiplesTell
  <2>. QED BY <2>2
<1>17. ASSUME NEW d \in docs PROVE \E i \in 1..n : h[i] = KeyOf(d.at)
  <2>1. PICK x \in Nat : x = d.at /\ x \in T
    BY <1>1 DEF T
  <2>2. PICK c \in Nat : c = x \div Span /\ KeyOf(x) = Span * c
    BY KeyIs
  <2>3. lo <= x /\ x <= hi
    BY <1>3, <1>4, <2>1
  <2>4. a <= c /\ c <= b
    BY <1>5, <1>6, <1>7, <2>2, <2>3, QuotientsGrow
  <2>5. PICK i \in Int : i = c - a + 1
    OBVIOUS
  <2>6. i \in 1..n /\ a + i - 1 = c
    BY <1>11, <2>4, <2>5
  <2>. QED BY <1>14, <2>1, <2>2, <2>6
<1>. QED BY <1>14, <1>15, <1>16, <1>17 DEF h

\* What the histogram of some documents tells of one bucket.
LEMMA AggCounts ==
  ASSUME NEW docs \in SUBSET AnyDoc, IsFiniteSet(docs), NEW key
  PROVE  /\ ParseAgg("count", docs) \in Seq(AnyPoint)
         /\ CountsOnce(ParseAgg("count", docs), key, Cardinality({d \in docs : KeyOf(d.at) = key}))
<1>. DEFINE h == Histogram(docs)
            DocsOf(k) == {d \in docs : KeyOf(d.at) = k}
            points == [i \in DOMAIN h |-> [time |-> h[i], term |-> NoTerm,
                                           value |-> BucketValue("count", DocsOf(h[i]))]]
<1>1. /\ h \in Seq(Nat)
      /\ \A i, j \in 1..Len(h) : h[i] = h[j] => i = j
      /\ \A d \in docs : \E i \in 1..Len(h) : h[i] = KeyOf(d.at)
  BY HistogramIs
<1>2. ParseAgg("count", docs) = Valued(points)
  BY DEF ParseAgg
<1>. HIDE DEF h
<1>3. \A k : /\ IsFiniteSet(DocsOf(k)) /\ Cardinality(DocsOf(k)) \in Nat
             /\ BucketValue("count", DocsOf(k)) = Cardinality(DocsOf(k))
  <2>. SUFFICES ASSUME NEW k PROVE IsFiniteSet(DocsOf(k)) /\ Cardinality(DocsOf(k)) \in Nat
                                   /\ BucketValue("count", DocsOf(k)) = Cardinality(DocsOf(k))
    OBVIOUS
  <2>1. DocsOf(k) \in SUBSET docs
    OBVIOUS
  <2>. HIDE DEF DocsOf
  <2>2. IsFiniteSet(DocsOf(k)) /\ Cardinality(DocsOf(k)) \in Nat
    BY <2>1, FS_Subset, FS_CardinalityType
  <2>. QED BY <2>2 DEF BucketValue
<1>. HIDE DEF DocsOf
<1>4. PICK n \in Nat : n = Len(h) /\ DOMAIN h = 1..n /\ \A i \in 1..n : h[i] \in Nat
  BY <1>1
<1>5. \A i \in 1..n : points[i] = [time |-> h[i], term |-> NoTerm, value |-> Cardinality(DocsOf(h[i]))]
  BY <1>3, <1>4
<1>6. points \in Seq(AnyPoint) /\ Len(points) = n
  <2>1. \A i \in 1..n : [time |-> h[i], term |-> NoTerm, value |-> Cardinality(DocsOf(h[i]))] \in AnyPoint
    BY <1>3, <1>4 DEF AnyPoint, NoTerm
  <2>2. points = [i \in 1..n |-> points[i]]
    BY <1>4
  <2>. HIDE DEF points
  <2>. QED BY <1>5, <2>1, <2>2
<1>. HIDE DEF points
<1>7. \A i \in 1..n : points[i].time = h[i] /\ points[i].value = Cardinality(DocsOf(h[i]))
  <2>. SUFFICES ASSUME NEW i \in 1..n
                PROVE  points[i].time = h[i] /\ points[i].value = Cardinality(DocsOf(h[i]))
    OBVIOUS
  <2>1. PICK t, v : t = h[i] /\ v = Cardinality(DocsOf(h[i]))
    OBVIOUS
  <2>2. points[i] = [time |-> t, term |-> NoTerm, value |-> v]
    BY <1>5, <2>1
  <2>. QED BY <2>1, <2>2
<1>8. Valued(points) = points
  <2>1. \A i \in 1..Len(points) : points[i].value # NoReading
    BY <1>3, <1>6, <1>7 DEF NoReading
  <2>. QED BY <1>6, <2>1, AllValued
<1>9. CountsOnce(points, key, Cardinality(DocsOf(key)))
  <2>1. CASE \E j \in 1..n : h[j] = key
    <3>1. PICK j \in 1..n : h[j] = key
      BY <2>1
    <3>2. \A i \in 1..n : i # j => h[i] # key
      BY <1>1, <1>4, <3>1
    <3>. QED BY <1>6, <1>7, <3>1, <3>2 DEF CountsOnce
  <2>2. CASE \A j \in 1..n : h[j] # key
    <3>1. DocsOf(key) = {}
      BY <1>1, <1>4, <2>2 DEF DocsOf
    <3>2. Cardinality(DocsOf(key)) = 0
      BY <3>1, FS_EmptySet
    <3>. QED BY <1>6, <1>7, <2>2, <3>2 DEF CountsOnce
  <2>. QED BY <2>1, <2>2
<1>. QED BY <1>2, <1>6, <1>8, <1>9 DEF DocsOf

-----------------------------------------------------------------------------
(* A plain fetch: what its chunks have counted, up to the one it is at.    *)
Stretch == Span * ChunkBuckets

LEMMA StretchIs == Stretch \in Nat \ {0}
<1>1. Span \in Nat \ {0} /\ ChunkBuckets \in Nat \ {0}
  BY FeedAssumption
<1>2. Span * 0 < Span * ChunkBuckets /\ Span * 0 = 0
  BY <1>1, MultiplesTell
<1>3. Span * ChunkBuckets \in Int
  BY <1>1
<1>. QED BY <1>2, <1>3 DEF Stretch

\* The seams of a fetch are as far apart as a chunk is long.
LEMMA SeamsApart ==
  ASSUME NEW l \in Nat \ {0}, NEW s \in Nat, NEW c \in Nat, NEW n \in Nat, c = s + l * n
  PROVE  /\ (c - s) % l = 0
         /\ \A x \in Nat : c < x /\ x < c + l => (x - s) % l # 0
<1>1. l * n \in Int /\ c - s = l * n
  OBVIOUS
<1>2. (c - s) % l = 0
  <2>1. PICK q \in Int, r \in 0..l - 1 : q = (l * n) \div l /\ r = (l * n) % l /\ l * n = l * q + r
    BY <1>1, DivMod
  <2>2. q = n
    BY <2>1, MultiplesTell
  <2>3. r = 0
    BY <1>1, <2>1, <2>2
  <2>. QED BY <1>1, <2>1, <2>3
<1>3. ASSUME NEW x \in Nat, c < x, x < c + l, (x - s) % l = 0 PROVE FALSE
  <2>1. PICK q \in Int, r \in 0..l - 1 : r = (x - s) % l /\ x - s = l * q + r
    <3>1. x - s \in Int
      OBVIOUS
    <3>. QED BY <3>1, DivMod
  <2>2. l * q \in Int /\ l * n < l * q /\ l * q < l * n + l
    BY <1>1, <1>3, <2>1
  <2>3. ~(q <= n)
    <3>1. ASSUME q <= n PROVE l * q <= l * n
      BY <3>1, ProductsGrow
    <3>. QED BY <1>1, <2>2, <3>1
  <2>4. ~(n + 1 <= q)
    <3>1. ASSUME n + 1 <= q PROVE l * (n + 1) <= l * q
      BY <3>1, ProductsGrow
    <3>2. l * (n + 1) = l * n + l * 1 /\ l * 1 = l
      BY Products
    <3>. QED BY <1>1, <2>2, <3>1, <3>2
  <2>. QED BY <2>3, <2>4
<1>. QED BY <1>2, <1>3

Seam(s, e, x) == x > s /\ x < e /\ (x - s) % Stretch = 0
DocsIn(docs, s, e, key) == {d \in docs : d.at \in s..e /\ KeyOf(d.at) = key}
Seams(docs, s, e, c, key) == {d \in docs : Seam(s, e, d.at) /\ d.at < c /\ KeyOf(d.at) = key}
ToldTo(docs, s, e, c, key) ==
  Cardinality(DocsIn(docs, s, c, key)) + Cardinality(Seams(docs, s, e, c, key))

\* How far the fetch has come, at the beginning of a chunk.
ChunkBegins(s, e, c) == (c # s => c < e) /\ \E n \in Nat : c = s + Stretch * n
NextEnd(s, e, c) == IF e > s /\ c + Stretch < e THEN c + Stretch ELSE e

\* Two parts of a set that share some, and two that share none.
LEMMA PartsAddUp ==
  ASSUME NEW A, NEW B, IsFiniteSet(A), IsFiniteSet(B)
  PROVE  /\ Cardinality(A) \in Nat /\ Cardinality(B) \in Nat
         /\ Cardinality(A \cap B) \in Nat
         /\ Cardinality(A \cup B) + Cardinality(A \cap B) = Cardinality(A) + Cardinality(B)
<1>1. IsFiniteSet(A \cap B) /\ IsFiniteSet(A \cup B)
  BY FS_Intersection, FS_Union
<1>2. /\ Cardinality(A) \in Nat /\ Cardinality(B) \in Nat /\ Cardinality(A \cap B) \in Nat
      /\ Cardinality(A \cup B) \in Nat
  BY <1>1, FS_CardinalityType
<1>3. Cardinality(A \cup B) = Cardinality(A) + Cardinality(B) - Cardinality(A \cap B)
  BY FS_Union
<1>. QED BY <1>2, <1>3

\* The next chunk adds the documents of its own, those on its first instant again.
LEMMA ChunkTells ==
  ASSUME NEW docs \in SUBSET AnyDoc, IsFiniteSet(docs), NEW key,
         NEW s \in Nat, NEW e \in Nat, NEW c \in Nat, ChunkBegins(s, e, c)
  PROVE  LET ce == NextEnd(s, e, c)
             so == IF c = s THEN 0 ELSE ToldTo(docs, s, e, c, key) IN
         /\ ToldTo(docs, s, e, ce, key) = so + Cardinality(DocsIn(docs, c, ce, key))
         /\ Cardinality(DocsIn(docs, c, ce, key)) \in Int /\ so \in Int
<1>. DEFINE ce == NextEnd(s, e, c)
            at == {d \in docs : d.at = c /\ KeyOf(d.at) = key}
<1>1. Stretch \in Nat \ {0}
  BY StretchIs
<1>2. PICK n \in Nat : c = s + Stretch * n
  BY DEF ChunkBegins
<1>3. /\ (c - s) % Stretch = 0
      /\ \A x \in Nat : c < x /\ x < c + Stretch => (x - s) % Stretch # 0
  BY <1>1, <1>2, SeamsApart
<1>4. Stretch * n \in Nat
  BY <1>1
<1>5. c >= s /\ (c # s => c < e)
  BY <1>2, <1>4 DEF ChunkBegins
<1>6. ce \in Nat /\ (c # s => c < ce) /\ (ce <= c + Stretch \/ e <= s)
  BY <1>1, <1>5 DEF NextEnd
<1>. HIDE DEF ce
<1>7. \A d \in docs : d.at \in Nat
  BY DEF AnyDoc
<1>8. ASSUME NEW x \in Nat, Seam(s, e, x), x < ce PROVE x <= c
  BY <1>1, <1>3, <1>6, <1>8 DEF Seam
<1>9. \A a, b : IsFiniteSet(DocsIn(docs, a, b, key)) /\ Cardinality(DocsIn(docs, a, b, key)) \in Nat
  <2>. SUFFICES ASSUME NEW a, NEW b
                PROVE  IsFiniteSet(DocsIn(docs, a, b, key)) /\ Cardinality(DocsIn(docs, a, b, key)) \in Nat
    OBVIOUS
  <2>1. DocsIn(docs, a, b, key) \in SUBSET docs
    BY DEF DocsIn
  <2>. QED BY <2>1, FS_Subset, FS_CardinalityType
<1>10. \A b : IsFiniteSet(Seams(docs, s, e, b, key)) /\ Cardinality(Seams(docs, s, e, b, key)) \in Nat
  <2>. SUFFICES ASSUME NEW b PROVE  IsFiniteSet(Seams(docs, s, e, b, key))
                                    /\ Cardinality(Seams(docs, s, e, b, key)) \in Nat
    OBVIOUS
  <2>1. Seams(docs, s, e, b, key) \in SUBSET docs
    BY DEF Seams
  <2>. QED BY <2>1, FS_Subset, FS_CardinalityType
<1>11. CASE c = s
  <2>1. Seams(docs, s, e, ce, key) = {}
    <3>. SUFFICES ASSUME NEW d \in docs, Seam(s, e, d.at), d.at < ce PROVE FALSE
      BY DEF Seams
    <3>1. PICK x \in Nat : x = d.at
      BY <1>7
    <3>2. x <= c
      BY <1>8, <3>1
    <3>. QED BY <1>11, <3>1, <3>2 DEF Seam
  <2>2. Cardinality(Seams(docs, s, e, ce, key)) = 0
    BY <2>1, FS_EmptySet
  <2>. QED BY <1>9, <1>11, <2>2 DEF ToldTo, ce
<1>12. CASE c # s
  <2>. DEFINE A == DocsIn(docs, s, c, key)
              B == DocsIn(docs, c, ce, key)
              P == Seams(docs, s, e, c, key)
  <2>1. s < c /\ c < e /\ c < ce
    BY <1>5, <1>6, <1>12
  <2>2. A \cup B = DocsIn(docs, s, ce, key)
    BY <1>6, <1>7, <2>1 DEF DocsIn
  <2>3. A \cap B = at
    BY <1>6, <1>7, <2>1 DEF DocsIn
  <2>4. Seam(s, e, c)
    BY <1>3, <2>1 DEF Seam
  <2>5. P \cup at = Seams(docs, s, e, ce, key)
    <3>1. \A d \in docs : Seam(s, e, d.at) /\ d.at < ce => d.at < c \/ d.at = c
      <4>. SUFFICES ASSUME NEW d \in docs, Seam(s, e, d.at), d.at < ce PROVE d.at < c \/ d.at = c
        OBVIOUS
      <4>1. PICK x \in Nat : x = d.at
        BY <1>7
      <4>2. x <= c
        BY <1>8, <4>1
      <4>. QED BY <4>1, <4>2
    <3>2. \A d \in docs : d.at < c => d.at < ce
      BY <1>6, <1>7, <2>1
    <3>3. \A d \in docs : d.at = c => Seam(s, e, d.at) /\ d.at < ce
      BY <2>1, <2>4
    <3>. QED BY <3>1, <3>2, <3>3 DEF Seams
  <2>6. P \cap at = {}
    <3>1. \A d \in docs : d.at < c => d.at # c
      BY <1>7
    <3>. QED BY <3>1 DEF Seams
  <2>7. IsFiniteSet(at)
    <3>1. at \in SUBSET docs
      OBVIOUS
    <3>. QED BY <3>1, FS_Subset
  <2>8. IsFiniteSet(A) /\ IsFiniteSet(B) /\ IsFiniteSet(P)
    BY <1>9, <1>10
  <2>. HIDE DEF at, A, B, P
  <2>9. /\ Cardinality(A) \in Nat /\ Cardinality(B) \in Nat /\ Cardinality(at) \in Nat
        /\ Cardinality(DocsIn(docs, s, ce, key)) + Cardinality(at) = Cardinality(A) + Cardinality(B)
    BY <2>2, <2>3, <2>8, PartsAddUp
  <2>10. Cardinality({}) = 0
    BY FS_EmptySet
  <2>11. /\ Cardinality(P) \in Nat
         /\ Cardinality(Seams(docs, s, e, ce, key)) + 0 = Cardinality(P) + Cardinality(at)
    BY <2>5, <2>6, <2>7, <2>8, <2>10, PartsAddUp
  <2>12. PICK w \in Nat, m \in Nat : /\ w = Cardinality(DocsIn(docs, s, ce, key))
                                     /\ m = Cardinality(Seams(docs, s, e, ce, key))
    BY <1>9, <1>10
  <2>13. w + m = (Cardinality(A) + Cardinality(P)) + Cardinality(B)
    BY <2>9, <2>11, <2>12
  <2>14. ToldTo(docs, s, e, c, key) = Cardinality(A) + Cardinality(P)
    BY DEF ToldTo, A, P
  <2>15. ToldTo(docs, s, e, ce, key) = w + m
    BY <2>12 DEF ToldTo
  <2>16. ToldTo(docs, s, e, ce, key) = ToldTo(docs, s, e, c, key) + Cardinality(B)
         /\ Cardinality(B) \in Int /\ ToldTo(docs, s, e, c, key) \in Int
    BY <2>9, <2>11, <2>13, <2>14, <2>15
  <2>. QED BY <1>12, <2>16 DEF B, ce
<1>. QED BY <1>11, <1>12

\* The points of a fetch count what its chunks have told.
CountsTold(docs, s, e, c, out) ==
  /\ out \in Seq(AnyPoint)
  /\ \A key : CountOver(out, key) = IF c = s THEN 0 ELSE ToldTo(docs, s, e, c, key)

\* With the next chunk, the points count what is told up to its end.
LEMMA ChunkCounts ==
  ASSUME NEW docs \in SUBSET AnyDoc, IsFiniteSet(docs), NEW out,
         NEW s \in Nat, NEW e \in Nat, NEW c \in Nat, ChunkBegins(s, e, c),
         CountsTold(docs, s, e, c, out)
  PROVE  LET ce == NextEnd(s, e, c)
             more == out \o ParseAgg("count", InWindow(docs, c, ce)) IN
         more \in Seq(AnyPoint) /\ \A key : CountOver(more, key) = ToldTo(docs, s, e, ce, key)
<1>. DEFINE ce == NextEnd(s, e, c)
            piece == InWindow(docs, c, ce)
            agg == ParseAgg("count", piece)
<1>1. piece \in SUBSET AnyDoc /\ IsFiniteSet(piece)
  <2>1. piece \in SUBSET docs
    BY DEF InWindow
  <2>. HIDE DEF piece
  <2>. QED BY <2>1, FS_Subset
<1>. HIDE DEF ce
<1>2. \A key : {d \in piece : KeyOf(d.at) = key} = DocsIn(docs, c, ce, key)
  BY DEF InWindow, DocsIn
<1>. HIDE DEF piece
<1>3. agg \in Seq(AnyPoint) /\ \A key : CountsOnce(agg, key, Cardinality(DocsIn(docs, c, ce, key)))
  BY <1>1, <1>2, AggCounts
<1>. HIDE DEF agg
<1>4. out \in Seq(AnyPoint)
  BY DEF CountsTold
<1>5. ASSUME NEW key PROVE CountOver(out \o agg, key) = ToldTo(docs, s, e, ce, key)
  <2>1. PICK so : so = IF c = s THEN 0 ELSE ToldTo(docs, s, e, c, key)
    OBVIOUS
  <2>2. PICK v : v = Cardinality(DocsIn(docs, c, ce, key))
    OBVIOUS
  <2>3. ToldTo(docs, s, e, ce, key) = so + v /\ v \in Int
    BY <2>1, <2>2, ChunkTells DEF ce
  <2>4. CountOver(out, key) = so
    BY <2>1 DEF CountsTold
  <2>5. CountsOnce(agg, key, v)
    BY <1>3, <2>2
  <2>6. CountOver(out \o agg, key) = CountOver(out, key) + v
    BY <1>3, <1>4, <2>3, <2>5, CountAppended
  <2>. QED BY <2>3, <2>4, <2>6
<1>6. out \o agg \in Seq(AnyPoint)
  BY <1>3, <1>4
<1>. QED BY <1>5, <1>6 DEF ce, piece, agg

-----------------------------------------------------------------------------
(* A split fetch: the keys of a page, in order, and the points they give.  *)
Pair == Int \X Int

\* Keys are in a total order.
LEMMA BeyondOrders ==
  ASSUME NEW a \in Pair, NEW b \in Pair, NEW c \in Pair
  PROVE  /\ ~Beyond(a, a)
         /\ a = b \/ Beyond(a, b) \/ Beyond(b, a)
         /\ Beyond(a, b) => ~Beyond(b, a)
         /\ (Beyond(a, b) /\ ~Beyond(c, b)) => Beyond(a, c)
         /\ (Beyond(a, b) /\ ~Beyond(a, c)) => Beyond(c, b)
<1>1. PICK a1 \in Int, a2 \in Int : a = <<a1, a2>>
  BY DEF Pair
<1>2. PICK b1 \in Int, b2 \in Int : b = <<b1, b2>>
  BY DEF Pair
<1>3. PICK c1 \in Int, c2 \in Int : c = <<c1, c2>>
  BY DEF Pair
<1>. QED BY <1>1, <1>2, <1>3 DEF Beyond

\* Of a finite set of keys, each has its place.
UpToKey(K, v) == {j \in K : ~Beyond(j, v)}
LEMMA KeysRank ==
  ASSUME NEW K \in SUBSET Pair, IsFiniteSet(K)
  PROVE  /\ Cardinality(K) \in Nat
         /\ \A v \in K : Cardinality(UpToKey(K, v)) \in 1..Cardinality(K)
         /\ \A v, w \in K : Beyond(w, v) => Cardinality(UpToKey(K, v)) < Cardinality(UpToKey(K, w))
         /\ \A i \in 1..Cardinality(K) : \E v \in K : Cardinality(UpToKey(K, v)) = i
<1>. DEFINE n == Cardinality(K)
            rank == [v \in K |-> Cardinality(UpToKey(K, v))]
<1>1. n \in Nat
  BY FS_CardinalityType
<1>2. ASSUME NEW v \in K
      PROVE  IsFiniteSet(UpToKey(K, v)) /\ Cardinality(UpToKey(K, v)) \in 1..n
  <2>0. v \in Pair
    OBVIOUS
  <2>1. UpToKey(K, v) \in SUBSET K /\ v \in UpToKey(K, v)
    BY <2>0, BeyondOrders DEF UpToKey
  <2>2. /\ IsFiniteSet(UpToKey(K, v)) /\ Cardinality(UpToKey(K, v)) <= n
        /\ Cardinality(UpToKey(K, v)) \in Nat
    BY <2>1, FS_Subset, FS_CardinalityType
  <2>3. Cardinality(UpToKey(K, v)) # 0
    BY <2>1, <2>2, FS_EmptySet
  <2>. HIDE DEF n
  <2>. QED BY <1>1, <2>2, <2>3
<1>3. ASSUME NEW v \in K, NEW w \in K, Beyond(w, v)
      PROVE  Cardinality(UpToKey(K, v)) < Cardinality(UpToKey(K, w))
  <2>1. v \in Pair /\ w \in Pair /\ \A x \in K : x \in Pair
    OBVIOUS
  <2>2. UpToKey(K, v) \in SUBSET UpToKey(K, w)
    <3>. SUFFICES ASSUME NEW x \in K, ~Beyond(x, v), Beyond(x, w) PROVE FALSE
      BY DEF UpToKey
    <3>1. x \in Pair
      OBVIOUS
    <3>2. Beyond(w, v) /\ Beyond(x, w) /\ ~Beyond(x, v)
      BY <1>3
    <3>3. Beyond(v, w)
      BY <2>1, <3>1, <3>2, BeyondOrders
    <3>. QED BY <2>1, <3>2, <3>3, BeyondOrders
  <2>3. ~Beyond(w, w)
    BY <2>1, BeyondOrders
  <2>4. w \in UpToKey(K, w) /\ w \notin UpToKey(K, v)
    BY <1>3, <2>3 DEF UpToKey
  <2>5. /\ Cardinality(UpToKey(K, v)) <= Cardinality(UpToKey(K, w))
        /\ Cardinality(UpToKey(K, v)) # Cardinality(UpToKey(K, w))
    BY <1>2, <2>2, <2>4, FS_Subset
  <2>6. Cardinality(UpToKey(K, v)) \in Int /\ Cardinality(UpToKey(K, w)) \in Int
    BY <1>1, <1>2
  <2>. QED BY <2>5, <2>6
<1>4. rank \in Injection(K, 1..n)
  <2>1. rank \in [K -> 1..n] /\ \A v \in K : rank[v] = Cardinality(UpToKey(K, v))
    BY <1>2
  <2>2. ASSUME NEW v \in K, NEW w \in K, rank[v] = rank[w] PROVE v = w
    <3>1. v \in Pair /\ w \in Pair
      OBVIOUS
    <3>2. rank[v] \in Int
      BY <1>1, <2>1
    <3>. HIDE DEF rank
    <3>3. ~Beyond(v, w) /\ ~Beyond(w, v)
      BY <1>3, <2>1, <2>2, <3>2
    <3>. QED BY <3>1, <3>3, BeyondOrders
  <2>. HIDE DEF rank
  <2>. QED BY <2>1, <2>2 DEF Injection, IsInjective
<1>5. rank \in Surjection(K, 1..n)
  <2>1. IsFiniteSet(1..n) /\ Cardinality(1..n) = n
    BY <1>1, FS_Interval
  <2>. HIDE DEF rank
  <2>. QED BY <1>4, <2>1, FS_Injection
<1>6. \A i \in 1..n : \E v \in K : Cardinality(UpToKey(K, v)) = i
  BY <1>5 DEF Surjection
<1>. QED BY <1>1, <1>2, <1>3, <1>6

BucketOf(d) == <<KeyOf(d.at), d.term>>
KeysAfter(docs, after) == {k \in {BucketOf(d) : d \in docs} : Beyond(k, after)}

LEMMA BucketTyped ==
  ASSUME NEW d \in AnyDoc
  PROVE  KeyOf(d.at) \in Nat /\ d.term \in Nat /\ BucketOf(d) \in Nat \X Nat /\ BucketOf(d) \in Pair
<1>1. d.at \in Nat /\ d.term \in Nat
  BY DEF AnyDoc
<1>2. KeyOf(d.at) \in Nat
  BY <1>1, KeyIs
<1>. QED BY <1>1, <1>2 DEF BucketOf, Pair

\* A page is the first of the keys after the one it is asked for.
IsPage(page, K) ==
  /\ page \in Seq(Nat \X Nat)
  /\ \A i \in 1..Len(page) : page[i] \in K
  /\ \A i, j \in 1..Len(page) : i < j => Beyond(page[j], page[i])
  /\ Len(page) = 0 => K = {}
  /\ Len(page) # 0 =>
       \A k \in K : ~Beyond(k, page[Len(page)]) => \E i \in 1..Len(page) : page[i] = k

LEMMA PageIs ==
  ASSUME NEW docs \in SUBSET AnyDoc, IsFiniteSet(docs), NEW after
  PROVE  IsPage(PageKeys(docs, after), KeysAfter(docs, after))
<1>. DEFINE K == KeysAfter(docs, after)
            n == Cardinality(K)
            m == Min({PageSize, n})
            page == PageKeys(docs, after)
<1>1. K \in SUBSET Pair /\ \A k \in K : k \in Nat \X Nat
  BY BucketTyped DEF KeysAfter
<1>2. IsFiniteSet(K)
  <2>. DEFINE g == [d \in docs |-> BucketOf(d)]
              B == {BucketOf(d) : d \in docs}
              T == {g[d] : d \in docs}
  <2>1. B = T /\ DOMAIN g = docs
    OBVIOUS
  <2>3. K \in SUBSET B
    BY DEF KeysAfter
  <2>. HIDE DEF g, B, K
  <2>2. IsFiniteSet(T)
    BY <2>1, ImageIs
  <2>. HIDE DEF T
  <2>. QED BY <2>1, <2>2, <2>3, FS_Subset
<1>3. page = [i \in 1..m |-> CHOOSE k \in K : Cardinality(UpToKey(K, k)) = i]
  BY DEF PageKeys, KeysAfter, BucketOf, UpToKey
<1>. HIDE DEF K, page
<1>4. /\ n \in Nat
      /\ \A v \in K : Cardinality(UpToKey(K, v)) \in 1..n
      /\ \A v, w \in K : Beyond(w, v) => Cardinality(UpToKey(K, v)) < Cardinality(UpToKey(K, w))
      /\ \A i \in 1..n : \E v \in K : Cardinality(UpToKey(K, v)) = i
  BY <1>1, <1>2, KeysRank
<1>. HIDE DEF n
<1>5. PageSize \in Nat \ {0}
  BY FeedAssumption
<1>6. m \in Nat /\ m <= n /\ (m = n \/ m = PageSize)
  BY <1>4, <1>5, MinOfTwo
<1>. HIDE DEF m
<1>7. \A i \in 1..m : page[i] \in K /\ Cardinality(UpToKey(K, page[i])) = i
  <2>. SUFFICES ASSUME NEW i \in 1..m PROVE page[i] \in K /\ Cardinality(UpToKey(K, page[i])) = i
    OBVIOUS
  <2>1. i \in 1..n
    BY <1>4, <1>6
  <2>2. \E v \in K : Cardinality(UpToKey(K, v)) = i
    BY <1>4, <2>1
  <2>3. page[i] = CHOOSE k \in K : Cardinality(UpToKey(K, k)) = i
    BY <1>3
  <2>. QED BY <2>2, <2>3
<1>8. page \in Seq(Nat \X Nat) /\ Len(page) = m
  <2>1. \A i \in 1..m : page[i] \in Nat \X Nat
    BY <1>1, <1>7
  <2>2. page = [i \in 1..m |-> page[i]]
    BY <1>3
  <2>. QED BY <1>6, <2>1, <2>2
<1>9. \A v \in K, w \in K :
         Cardinality(UpToKey(K, v)) < Cardinality(UpToKey(K, w)) => Beyond(w, v)
  <2>. SUFFICES ASSUME NEW v \in K, NEW w \in K, ~Beyond(w, v),
                       Cardinality(UpToKey(K, v)) < Cardinality(UpToKey(K, w))
                PROVE  FALSE
    OBVIOUS
  <2>1. v \in Pair /\ w \in Pair
    BY <1>1
  <2>2. v = w \/ Beyond(v, w)
    BY <2>1, BeyondOrders
  <2>3. PICK a \in Int, b \in Int : a = Cardinality(UpToKey(K, v)) /\ b = Cardinality(UpToKey(K, w))
    BY <1>4
  <2>. QED BY <1>4, <2>2, <2>3
<1>10. ASSUME NEW i \in 1..m, NEW j \in 1..m, i < j PROVE Beyond(page[j], page[i])
  BY <1>7, <1>9, <1>10
<1>11. ASSUME m = 0 PROVE K = {}
  <2>1. n = 0
    BY <1>5, <1>6, <1>11
  <2>. QED BY <1>2, <2>1, FS_EmptySet DEF n
<1>12. ASSUME m # 0, NEW k \in K, ~Beyond(k, page[m]) PROVE \E i \in 1..m : page[i] = k
  <2>1. m \in 1..m /\ page[m] \in K /\ Cardinality(UpToKey(K, page[m])) = m
    BY <1>6, <1>7, <1>12
  <2>2. PICK r \in 1..n : r = Cardinality(UpToKey(K, k))
    BY <1>4
  <2>3. r <= m
    <3>1. m < r => Beyond(k, page[m])
      BY <1>9, <2>1, <2>2
    <3>. QED BY <1>4, <1>6, <1>12, <2>2, <3>1
  <2>4. r \in 1..m
    BY <1>6, <2>3
  <2>5. page[r] \in K /\ Cardinality(UpToKey(K, page[r])) = r
    BY <1>7, <2>4
  <2>6. ~Beyond(k, page[r]) /\ ~Beyond(page[r], k)
    <3>1. ~(r < r)
      BY <2>4
    <3>. QED BY <1>4, <2>2, <2>5, <3>1
  <2>7. k \in Pair /\ page[r] \in Pair
    BY <1>1, <2>5
  <2>8. page[r] = k
    BY <2>6, <2>7, BeyondOrders
  <2>. QED BY <2>4, <2>8
<1>. QED BY <1>7, <1>8, <1>10, <1>11, <1>12 DEF IsPage, K, page

\* A bucket's value is a number, for a count that of its documents.
LEMMA ValueTyped ==
  ASSUME NEW func, NEW docs \in SUBSET AnyDoc, IsFiniteSet(docs)
  PROVE  BucketValue(func, docs) \in Int /\ BucketValue("count", docs) # NoReading
<1>1. Cardinality(docs) \in Nat
  BY FS_CardinalityType
<1>. DEFINE V == {d.value : d \in docs}
            g == [d \in docs |-> d.value]
            T == {g[d] : d \in docs}
            seen == V \ {NoReading}
<1>2. V = T /\ DOMAIN g = docs
  OBVIOUS
<1>3. seen \in SUBSET V /\ seen \in SUBSET Nat
  BY DEF AnyDoc
<1>. HIDE DEF g, V
<1>4. IsFiniteSet(T)
  BY <1>2, ImageIs
<1>. HIDE DEF T, seen
<1>5. IsFiniteSet(seen)
  BY <1>2, <1>3, <1>4, FS_Subset
<1>6. seen # {} => Max(seen) \in seen
  BY <1>3, <1>5, GreatestIn
<1>7. /\ BucketValue("count", docs) = Cardinality(docs)
      /\ BucketValue(func, docs) \in {Cardinality(docs), NoReading, Max(seen)}
      /\ seen = {} => BucketValue(func, docs) \in {Cardinality(docs), NoReading}
  BY DEF BucketValue, seen, V
<1>8. seen # {} => Max(seen) \in Nat
  BY <1>3, <1>6
<1>9. PICK c \in Nat : c = Cardinality(docs)
  BY <1>1
<1>10. PICK v : v = BucketValue(func, docs)
  OBVIOUS
<1>11. PICK x : x = Max(seen)
  OBVIOUS
<1>12. v = c \/ v = NoReading \/ (seen # {} /\ v = x)
  BY <1>7, <1>9, <1>10, <1>11
<1>13. v \in Int
  BY <1>8, <1>11, <1>12 DEF NoReading
<1>. QED BY <1>7, <1>9, <1>10, <1>13 DEF NoReading

KeyAt(p) == <<p.time, p.term>>

\* The points of a page are in its order, and counts leave none out.
PointsOf(points, page) ==
  /\ points \in Seq(AnyPoint)
  /\ \A i \in 1..Len(points) : \E a \in 1..Len(page) : KeyAt(points[i]) = page[a]
  /\ \A i, j \in 1..Len(points) : i < j =>
       \E a, b \in 1..Len(page) : a < b /\ KeyAt(points[i]) = page[a] /\ KeyAt(points[j]) = page[b]

LEMMA CompositeIs ==
  ASSUME NEW func, NEW docs \in SUBSET AnyDoc, IsFiniteSet(docs), NEW page \in Seq(Nat \X Nat)
  PROVE  /\ PointsOf(ParseComposite(func, docs, page), page)
         /\ func = "count" =>
              /\ Len(ParseComposite(func, docs, page)) = Len(page)
              /\ \A i \in 1..Len(page) : KeyAt(ParseComposite(func, docs, page)[i]) = page[i]
<1>. DEFINE DocsOf(k) == {d \in docs : <<KeyOf(d.at), d.term>> = k}
            points == [i \in DOMAIN page |-> [time |-> page[i][1], term |-> page[i][2],
                                              value |-> BucketValue(func, DocsOf(page[i]))]]
            out == ParseComposite(func, docs, page)
<1>1. out = Valued(points)
  BY DEF ParseComposite
<1>2. \A k : BucketValue(func, DocsOf(k)) \in Int /\ BucketValue("count", DocsOf(k)) # NoReading
  <2>. SUFFICES ASSUME NEW k
                PROVE  BucketValue(func, DocsOf(k)) \in Int /\ BucketValue("count", DocsOf(k)) # NoReading
    OBVIOUS
  <2>1. DocsOf(k) \in SUBSET docs
    OBVIOUS
  <2>. HIDE DEF DocsOf
  <2>2. DocsOf(k) \in SUBSET AnyDoc /\ IsFiniteSet(DocsOf(k))
    BY <2>1, FS_Subset
  <2>. QED BY <2>2, ValueTyped
<1>3. PICK n \in Nat : n = Len(page) /\ DOMAIN page = 1..n /\ \A i \in 1..n : page[i] \in Nat \X Nat
  OBVIOUS
<1>. HIDE DEF DocsOf, out
<1>4. \A i \in 1..n : points[i] = [time |-> page[i][1], term |-> page[i][2],
                                   value |-> BucketValue(func, DocsOf(page[i]))]
  BY <1>3
<1>5. points = [i \in 1..n |-> points[i]]
  BY <1>3
<1>. HIDE DEF points
<1>6. \A i \in 1..n : /\ points[i] \in AnyPoint /\ KeyAt(points[i]) = page[i]
                      /\ func = "count" => points[i].value # NoReading
  <2>. SUFFICES ASSUME NEW i \in 1..n
                PROVE  /\ points[i] \in AnyPoint /\ KeyAt(points[i]) = page[i]
                       /\ func = "count" => points[i].value # NoReading
    OBVIOUS
  <2>1. PICK t \in Nat, u \in Nat : page[i] = <<t, u>>
    BY <1>3
  <2>2. PICK v \in Int : v = BucketValue(func, DocsOf(page[i]))
    BY <1>2
  <2>3. func = "count" => v # NoReading
    BY <1>2, <2>2
  <2>4. points[i] = [time |-> page[i][1], term |-> page[i][2], value |-> v]
    BY <1>4, <2>2
  <2>5. page[i][1] = t /\ page[i][2] = u
    BY <2>1
  <2>6. points[i] = [time |-> t, term |-> u, value |-> v]
    BY <2>4, <2>5
  <2>7. points[i].time = t /\ points[i].term = u /\ points[i].value = v /\ points[i] \in AnyPoint
    BY <2>6 DEF AnyPoint
  <2>. QED BY <2>1, <2>3, <2>7 DEF KeyAt
<1>7. points \in Seq(AnyPoint) /\ Len(points) = n
  <2>1. \A i \in 1..n : points[i] \in AnyPoint
    BY <1>6
  <2>. QED BY <1>5, <2>1
<1>8. /\ out \in Seq(AnyPoint)
      /\ \A i \in 1..Len(out) : \E j \in 1..n : out[i] = points[j]
      /\ \A i, j \in 1..Len(out) : i < j =>
           \E a, b \in 1..n : a < b /\ out[i] = points[a] /\ out[j] = points[b]
  <2>. DEFINE kept == Valued(points)
  <2>1. /\ kept \in Seq(AnyPoint)
        /\ \A i \in 1..Len(kept) : \E j \in 1..Len(points) : kept[i] = points[j]
        /\ \A i, j \in 1..Len(kept) : i < j =>
             \E a, b \in 1..Len(points) : a < b /\ kept[i] = points[a] /\ kept[j] = points[b]
    BY <1>7, ValuedIs
  <2>2. out = kept /\ Len(points) = n
    BY <1>1, <1>7
  <2>. HIDE DEF kept
  <2>. QED BY <2>1, <2>2
<1>9. PointsOf(out, page)
  <2>1. ASSUME NEW i \in 1..Len(out) PROVE \E a \in 1..n : KeyAt(out[i]) = page[a]
    <3>1. PICK a \in 1..n : out[i] = points[a]
      BY <1>8
    <3>. QED BY <1>6, <3>1
  <2>2. ASSUME NEW i \in 1..Len(out), NEW j \in 1..Len(out), i < j
        PROVE  \E a, b \in 1..n : a < b /\ KeyAt(out[i]) = page[a] /\ KeyAt(out[j]) = page[b]
    <3>1. PICK a \in 1..n, b \in 1..n : a < b /\ out[i] = points[a] /\ out[j] = points[b]
      BY <1>8, <2>2
    <3>2. KeyAt(points[a]) = page[a] /\ KeyAt(points[b]) = page[b]
      BY <1>6
    <3>. QED BY <3>1, <3>2
  <2>. QED BY <1>3, <1>8, <2>1, <2>2 DEF PointsOf
<1>10. ASSUME func = "count" PROVE Len(out) = n /\ \A i \in 1..n : KeyAt(out[i]) = page[i]
  <2>1. \A i \in 1..Len(points) : points[i].value # NoReading
    BY <1>6, <1>7, <1>10
  <2>2. out = points
    BY <1>1, <1>7, <2>1, AllValued
  <2>. QED BY <1>6, <1>7, <2>2
<1>. QED BY <1>3, <1>9, <1>10 DEF out

\* The points so far are in order, and none is beyond the page asked for next.
InOrder(out, after) ==
  /\ out \in Seq(AnyPoint) /\ after \in Pair
  /\ \A i, j \in 1..Len(out) : i < j => Beyond(KeyAt(out[j]), KeyAt(out[i]))
  /\ \A i \in 1..Len(out) : ~Beyond(KeyAt(out[i]), after)

\* Every bucket up to there has its point.
ReadTo(docs, out, after) ==
  \A d \in docs : ~Beyond(BucketOf(d), after) => \E i \in 1..Len(out) : KeyAt(out[i]) = BucketOf(d)

NextAfter(page, after) == IF page = <<>> THEN after ELSE page[Len(page)]

LEMMA PairOf == \A p \in AnyPoint : KeyAt(p) \in Pair
BY DEF AnyPoint, KeyAt, Pair

\* The next page's points go on in order, and leave no key out before its last.
LEMMA PageKeeps ==
  ASSUME NEW docs \in SUBSET AnyDoc, IsFiniteSet(docs), NEW func, NEW out, NEW after,
         InOrder(out, after)
  PROVE  LET page == PageKeys(docs, after)
             points == ParseComposite(func, docs, page) IN
         /\ InOrder(out \o points, NextAfter(page, after))
         /\ func = "count" /\ ReadTo(docs, out, after) =>
              ReadTo(docs, out \o points, NextAfter(page, after))
         /\ (page = <<>> \/ (func = "count" /\ points = <<>>)) =>
              \A d \in docs : ~Beyond(BucketOf(d), NextAfter(page, after))
<1>. DEFINE page == PageKeys(docs, after)
            points == ParseComposite(func, docs, page)
            K == KeysAfter(docs, after)
            next == NextAfter(page, after)
            more == out \o points
<1>1. IsPage(page, K)
  BY PageIs
<1>2. \A k \in K : k \in Pair /\ Beyond(k, after)
  BY BucketTyped DEF KeysAfter
<1>3. \A d \in docs : BucketOf(d) \in Pair /\ (Beyond(BucketOf(d), after) => BucketOf(d) \in K)
  BY BucketTyped DEF KeysAfter
<1>. HIDE DEF K, page
<1>4. PICK m \in Nat : m = Len(page) /\ page \in Seq(Nat \X Nat) /\ (page = <<>> <=> m = 0)
  BY <1>1 DEF IsPage
<1>5. /\ PointsOf(points, page)
      /\ func = "count" => Len(points) = m /\ \A i \in 1..m : KeyAt(points[i]) = page[i]
  BY <1>4, CompositeIs
<1>. HIDE DEF points
<1>6. /\ \A i \in 1..m : page[i] \in K
      /\ \A i, j \in 1..m : i < j => Beyond(page[j], page[i])
      /\ m = 0 => K = {}
      /\ m # 0 => \A k \in K : ~Beyond(k, page[m]) => \E i \in 1..m : page[i] = k
  BY <1>1, <1>4 DEF IsPage
<1>7. /\ out \in Seq(AnyPoint) /\ after \in Pair
      /\ \A i, j \in 1..Len(out) : i < j => Beyond(KeyAt(out[j]), KeyAt(out[i]))
      /\ \A i \in 1..Len(out) : ~Beyond(KeyAt(out[i]), after)
  BY DEF InOrder
<1>8. /\ points \in Seq(AnyPoint)
      /\ \A i \in 1..Len(points) : \E a \in 1..m : KeyAt(points[i]) = page[a]
      /\ \A i, j \in 1..Len(points) : i < j =>
           \E a, b \in 1..m : a < b /\ KeyAt(points[i]) = page[a] /\ KeyAt(points[j]) = page[b]
  BY <1>4, <1>5 DEF PointsOf
<1>9. next = IF m = 0 THEN after ELSE page[m]
  BY <1>4 DEF NextAfter
<1>. HIDE DEF next
<1>10. next \in Pair /\ (next = after \/ Beyond(next, after))
  BY <1>2, <1>6, <1>7, <1>9
<1>11. \A a \in 1..m : page[a] \in Pair /\ Beyond(page[a], after) /\ ~Beyond(page[a], next)
  <2>. SUFFICES ASSUME NEW a \in 1..m
                PROVE  page[a] \in Pair /\ Beyond(page[a], after) /\ ~Beyond(page[a], next)
    OBVIOUS
  <2>1. page[a] \in Pair /\ Beyond(page[a], after)
    BY <1>2, <1>6
  <2>2. m \in 1..m /\ next = page[m]
    BY <1>9
  <2>3. a = m \/ a < m
    OBVIOUS
  <2>4. ~Beyond(page[a], next)
    BY <1>6, <1>10, <2>1, <2>2, <2>3, BeyondOrders
  <2>. QED BY <2>1, <2>4
<1>. DEFINE n == Len(out)
<1>12. /\ n \in Nat /\ Len(points) \in Nat /\ Len(more) = n + Len(points) /\ more \in Seq(AnyPoint)
       /\ \A i \in 1..n : more[i] = out[i]
       /\ \A i \in 1..Len(points) : n + i \in 1..Len(more) /\ more[n + i] = points[i]
       /\ \A i \in 1..Len(more) : i \in Int /\ (i \notin 1..n => i - n \in 1..Len(points) /\ i = n + (i - n))
  BY <1>7, <1>8
<1>. HIDE DEF more, n
<1>13. \A i \in 1..n : KeyAt(more[i]) \in Pair /\ KeyAt(more[i]) = KeyAt(out[i])
  BY <1>7, <1>12, PairOf DEF n
<1>14. \A i \in 1..Len(more) : i \notin 1..n =>
          /\ KeyAt(more[i]) \in Pair /\ Beyond(KeyAt(more[i]), after) /\ ~Beyond(KeyAt(more[i]), next)
          /\ i - n \in 1..Len(points) /\ more[i] = points[i - n]
  <2>. SUFFICES ASSUME NEW i \in 1..Len(more), i \notin 1..n
                PROVE  /\ KeyAt(more[i]) \in Pair /\ Beyond(KeyAt(more[i]), after)
                       /\ ~Beyond(KeyAt(more[i]), next)
                       /\ i - n \in 1..Len(points) /\ more[i] = points[i - n]
    OBVIOUS
  <2>1. PICK k \in 1..Len(points) : k = i - n /\ i = n + k
    BY <1>12
  <2>2. more[i] = points[k]
    BY <1>12, <2>1
  <2>3. PICK a \in 1..m : KeyAt(points[k]) = page[a]
    BY <1>8
  <2>. QED BY <1>11, <2>1, <2>2, <2>3
<1>15. ASSUME NEW i \in 1..Len(more), NEW j \in 1..Len(more), i < j
       PROVE  Beyond(KeyAt(more[j]), KeyAt(more[i]))
  <2>1. CASE i \in 1..n /\ j \in 1..n
    BY <1>7, <1>12, <1>15, <2>1 DEF n
  <2>2. CASE i \in 1..n /\ j \notin 1..n
    <3>1. ~Beyond(KeyAt(more[i]), after) /\ KeyAt(more[i]) \in Pair
      BY <1>7, <1>13, <2>2 DEF n
    <3>2. Beyond(KeyAt(more[j]), after) /\ KeyAt(more[j]) \in Pair
      BY <1>14, <2>2
    <3>. QED BY <1>7, <3>1, <3>2, BeyondOrders
  <2>3. CASE i \notin 1..n /\ j \notin 1..n
    <3>1. PICK x \in 1..Len(points), y \in 1..Len(points) :
             x = i - n /\ y = j - n /\ more[i] = points[x] /\ more[j] = points[y]
      BY <1>14, <2>3
    <3>2. x < y
      BY <1>12, <1>15, <3>1
    <3>3. PICK a \in 1..m, b \in 1..m : /\ a < b /\ KeyAt(points[x]) = page[a]
                                        /\ KeyAt(points[y]) = page[b]
      BY <1>8, <3>2
    <3>4. Beyond(page[b], page[a])
      BY <1>6, <3>3
    <3>. QED BY <3>1, <3>3, <3>4
  <2>4. ~(i \notin 1..n /\ j \in 1..n)
    BY <1>12, <1>15
  <2>. QED BY <2>1, <2>2, <2>3, <2>4
<1>16. ASSUME NEW i \in 1..Len(more) PROVE ~Beyond(KeyAt(more[i]), next)
  <2>1. CASE i \in 1..n
    <3>1. ~Beyond(KeyAt(more[i]), after) /\ KeyAt(more[i]) \in Pair
      BY <1>7, <1>13, <2>1 DEF n
    <3>. QED BY <1>7, <1>10, <3>1, BeyondOrders
  <2>2. CASE i \notin 1..n
    BY <1>14, <2>2
  <2>. QED BY <2>1, <2>2
<1>17. InOrder(more, next)
  BY <1>10, <1>12, <1>15, <1>16 DEF InOrder
<1>18. ASSUME func = "count", ReadTo(docs, out, after) PROVE ReadTo(docs, more, next)
  <2>. SUFFICES ASSUME NEW d \in docs, ~Beyond(BucketOf(d), next)
                PROVE  \E i \in 1..Len(more) : KeyAt(more[i]) = BucketOf(d)
    BY DEF ReadTo
  <2>1. CASE ~Beyond(BucketOf(d), after)
    <3>1. PICK i \in 1..n : KeyAt(out[i]) = BucketOf(d)
      BY <1>18, <2>1 DEF ReadTo, n
    <3>2. i \in 1..Len(more)
      BY <1>12
    <3>. QED BY <1>13, <3>1, <3>2
  <2>2. CASE Beyond(BucketOf(d), after)
    <3>1. BucketOf(d) \in K
      BY <1>3, <2>2
    <3>2. m # 0
      BY <1>6, <3>1
    <3>3. PICK i \in 1..m : page[i] = BucketOf(d)
      BY <1>6, <1>9, <3>1, <3>2
    <3>4. i \in 1..Len(points) /\ KeyAt(points[i]) = BucketOf(d)
      BY <1>5, <1>18, <3>3
    <3>5. n + i \in 1..Len(more) /\ more[n + i] = points[i]
      BY <1>12, <3>4
    <3>. QED BY <3>4, <3>5
  <2>. QED BY <2>1, <2>2
<1>19. ASSUME page = <<>> \/ (func = "count" /\ points = <<>>), NEW d \in docs
       PROVE  ~Beyond(BucketOf(d), next)
  <2>1. m = 0
    <3>1. ASSUME func = "count", points = <<>> PROVE m = 0
      <4>1. Len(points) = 0
        BY <3>1
      <4>. QED BY <1>5, <3>1, <4>1
    <3>. QED BY <1>4, <1>19, <3>1
  <2>2. K = {} /\ next = after
    BY <1>6, <1>9, <2>1
  <2>. QED BY <1>3, <2>2
<1>. QED BY <1>17, <1>18, <1>19 DEF page, points, next, more

\* The points of one chunk.
LEMMA AggTyped ==
  ASSUME NEW func, NEW docs \in SUBSET AnyDoc, IsFiniteSet(docs)
  PROVE  ParseAgg(func, docs) \in Seq(AnyPoint)
<1>. DEFINE h == Histogram(docs)
            DocsOf(k) == {d \in docs : KeyOf(d.at) = k}
            points == [i \in DOMAIN h |-> [time |-> h[i], term |-> NoTerm,
                                           value |-> BucketValue(func, DocsOf(h[i]))]]
<1>1. ParseAgg(func, docs) = Valued(points)
  BY DEF ParseAgg
<1>2. h \in Seq(Nat)
  BY HistogramIs
<1>. HIDE DEF h
<1>3. \A k : BucketValue(func, DocsOf(k)) \in Int
  <2>. SUFFICES ASSUME NEW k PROVE BucketValue(func, DocsOf(k)) \in Int
    OBVIOUS
  <2>1. DocsOf(k) \in SUBSET docs
    OBVIOUS
  <2>. HIDE DEF DocsOf
  <2>2. DocsOf(k) \in SUBSET AnyDoc /\ IsFiniteSet(DocsOf(k))
    BY <2>1, FS_Subset
  <2>. QED BY <2>2, ValueTyped
<1>. HIDE DEF DocsOf
<1>4. PICK n \in Nat : DOMAIN h = 1..n /\ \A i \in 1..n : h[i] \in Nat
  BY <1>2
<1>5. \A i \in 1..n : points[i] = [time |-> h[i], term |-> NoTerm, value |-> BucketValue(func, DocsOf(h[i]))]
  BY <1>4
<1>6. points = [i \in 1..n |-> points[i]]
  BY <1>4
<1>. HIDE DEF points
<1>7. \A i \in 1..n : points[i] \in AnyPoint
  <2>. SUFFICES ASSUME NEW i \in 1..n PROVE points[i] \in AnyPoint
    OBVIOUS
  <2>1. PICK t \in Nat, v \in Int : t = h[i] /\ v = BucketValue(func, DocsOf(h[i]))
    BY <1>3, <1>4
  <2>2. points[i] = [time |-> t, term |-> NoTerm, value |-> v]
    BY <1>5, <2>1
  <2>. QED BY <2>2 DEF AnyPoint, NoTerm
<1>8. points \in Seq(AnyPoint)
  BY <1>6, <1>7
<1>. QED BY <1>1, <1>8, ValuedIs

-----------------------------------------------------------------------------
(* A fetch, while it runs and when it is done.                             *)

AnyFetch == [mode : {"plain", "split", "error"}, func : {"count", "max"}, start : Nat, end : Nat,
             cursor : Nat, after : Pair, page : Nat, out : Seq(AnyPoint), still : BOOLEAN]

FetchStands(docs, t) ==
  /\ t.mode = "plain" =>
       /\ ChunkBegins(t.start, t.end, t.cursor)
       /\ (t.still /\ t.func = "count") => CountsTold(docs, t.start, t.end, t.cursor, t.out)
  /\ t.mode = "split" =>
       /\ InOrder(t.out, t.after)
       /\ (t.still /\ t.func = "count") => ReadTo(InWindow(docs, t.start, t.end), t.out, t.after)

Ascends(out) == \A i, j \in 1..Len(out) : i < j => Beyond(KeyAt(out[j]), KeyAt(out[i]))
Holds(docs, out) == \A d \in docs : \E i \in 1..Len(out) : KeyAt(out[i]) = BucketOf(d)

GotStands(docs, t) ==
  /\ (t.mode = "plain" /\ t.still /\ t.func = "count") =>
       \A key : CountOver(t.out, key) = ToldTo(docs, t.start, t.end, t.end, key)
  /\ t.mode = "split" =>
       /\ Ascends(t.out)
       /\ (t.still /\ t.func = "count" /\ t.page < MaxPages) =>
            Holds(InWindow(docs, t.start, t.end), t.out)

FeedInv ==
  /\ feed \in [docs : SUBSET AnyDoc, task : {Waiting} \cup AnyFetch, got : {NotYet} \cup AnyFetch]
  /\ IsFiniteSet(feed.docs)
  /\ feed.task # Waiting => FetchStands(feed.docs, feed.task)
  /\ feed.got # NotYet => GotStands(feed.docs, feed.got)

LEMMA FeedStart == FeedInit => FeedInv
<1>. SUFFICES ASSUME FeedInit PROVE FeedInv
  OBVIOUS
<1>1. feed = [docs |-> {}, task |-> Waiting, got |-> NotYet]
  BY DEF FeedInit
<1>2. feed.docs = {} /\ feed.task = Waiting /\ feed.got = NotYet
  BY <1>1
<1>3. feed \in [docs : SUBSET AnyDoc, task : {Waiting} \cup AnyFetch, got : {NotYet} \cup AnyFetch]
  BY <1>1
<1>. QED BY <1>2, <1>3, FS_EmptySet DEF FeedInv

\* The invariant of the next state, from its three parts.
LEMMA FeedIs ==
  ASSUME NEW docs \in SUBSET AnyDoc, IsFiniteSet(docs),
         NEW task \in {Waiting} \cup AnyFetch, NEW got \in {NotYet} \cup AnyFetch,
         feed' = [docs |-> docs, task |-> task, got |-> got],
         task = Waiting \/ FetchStands(docs, task), got = NotYet \/ GotStands(docs, got)
  PROVE  FeedInv'
<1>1. feed'.docs = docs /\ feed'.task = task /\ feed'.got = got
  OBVIOUS
<1>2. feed' \in [docs : SUBSET AnyDoc, task : {Waiting} \cup AnyFetch, got : {NotYet} \cup AnyFetch]
  OBVIOUS
<1>. QED BY <1>1, <1>2 DEF FeedInv

LEMMA FeedWas ==
  ASSUME FeedInv
  PROVE  /\ feed.docs \in SUBSET AnyDoc /\ IsFiniteSet(feed.docs)
         /\ feed.task \in {Waiting} \cup AnyFetch /\ feed.got \in {NotYet} \cup AnyFetch
         /\ feed = [docs |-> feed.docs, task |-> feed.task, got |-> feed.got]
         /\ feed.task = Waiting \/ FetchStands(feed.docs, feed.task)
         /\ feed.got = NotYet \/ GotStands(feed.docs, feed.got)
BY DEF FeedInv

\* A document indexed during a fetch ends what can be said of its counts.
LEMMA IndexKeeps ==
  ASSUME FeedInv, NEW at \in 0..LastDocTime, NEW term \in Terms,
         NEW value \in Readings \cup {NoReading}, Index(at, term, value)
  PROVE  FeedInv'
<1>. DEFINE copies == {d \in feed.docs : [at |-> d.at, term |-> d.term, value |-> d.value]
                                         = [at |-> at, term |-> term, value |-> value]}
            doc == [at |-> at, term |-> term, value |-> value, copy |-> Cardinality(copies)]
            docs == feed.docs \cup {doc}
            task == IF feed.task = Waiting THEN Waiting ELSE [feed.task EXCEPT !.still = FALSE]
<1>1. /\ feed.docs \in SUBSET AnyDoc /\ IsFiniteSet(feed.docs)
      /\ feed.task \in {Waiting} \cup AnyFetch
      /\ feed = [docs |-> feed.docs, task |-> feed.task, got |-> feed.got]
      /\ feed.task = Waiting \/ FetchStands(feed.docs, feed.task)
  BY FeedWas
<1>2. doc \in AnyDoc
  <2>1. copies \in SUBSET feed.docs
    OBVIOUS
  <2>. HIDE DEF copies
  <2>2. Cardinality(copies) \in Nat
    BY <1>1, <2>1, FS_Subset, FS_CardinalityType
  <2>3. at \in Nat /\ term \in Nat /\ value \in Nat \cup {NoReading}
    BY FeedAssumption
  <2>. QED BY <2>2, <2>3 DEF AnyDoc
<1>3. docs \in SUBSET AnyDoc /\ IsFiniteSet(docs)
  <2>. HIDE DEF doc
  <2>. QED BY <1>1, <1>2, FS_AddElement
<1>4. feed' = [feed EXCEPT !.docs = docs, !.task = task, !.got = NotYet]
  BY DEF Index
<1>. HIDE DEF docs
<1>5. task \in {Waiting} \cup AnyFetch /\ (task = Waiting \/ FetchStands(docs, task))
  <2>1. CASE feed.task = Waiting
    BY <2>1
  <2>2. CASE feed.task # Waiting
    <3>1. PICK t \in AnyFetch : t = feed.task /\ FetchStands(feed.docs, t)
      BY <1>1, <2>2
    <3>2. PICK u : u = [t EXCEPT !.still = FALSE]
      OBVIOUS
    <3>3. /\ u \in AnyFetch /\ u.mode = t.mode /\ u.start = t.start /\ u.end = t.end
          /\ u.cursor = t.cursor /\ u.after = t.after /\ u.out = t.out /\ ~u.still
      BY <3>2 DEF AnyFetch
    <3>4. FetchStands(docs, u)
      BY <3>1, <3>3 DEF FetchStands
    <3>5. task = u
      BY <2>2, <3>1, <3>2
    <3>. QED BY <3>3, <3>4, <3>5
  <2>. QED BY <2>1, <2>2
<1>. HIDE DEF task
<1>6. feed' = [docs |-> docs, task |-> task, got |-> NotYet]
  <2>1. PICK f : f = feed /\ f = [docs |-> f.docs, task |-> f.task, got |-> f.got]
    BY <1>1
  <2>. QED BY <1>4, <2>1
<1>. QED BY <1>3, <1>5, <1>6, FeedIs

LEMMA Replaced ==
  ASSUME NEW f, NEW d, NEW t, NEW g, NEW x, f = [docs |-> d, task |-> t, got |-> g]
  PROVE  /\ [f EXCEPT !.task = x] = [docs |-> d, task |-> x, got |-> g]
         /\ [f EXCEPT !.got = x] = [docs |-> d, task |-> t, got |-> x]
OBVIOUS

LEMMA StartKeeps ==
  ASSUME FeedInv, NEW split \in BOOLEAN, NEW field \in BOOLEAN, NEW func \in {"count", "max"},
         NEW w \in AskedWindows, StartFetch(split, func, field, w[1], w[2])
  PROVE  FeedInv'
<1>. DEFINE task == [mode |-> IF split THEN "split" ELSE "plain", func |-> func,
                     start |-> w[1], end |-> w[2], cursor |-> w[1],
                     after |-> <<-1, -1>>, page |-> 0, out |-> <<>>, still |-> TRUE]
<1>1. PICK s \in Nat, e \in Nat : s = w[1] /\ e = w[2]
  BY FeedAssumption
<1>2. PICK docs : docs = feed.docs /\ docs \in SUBSET AnyDoc /\ IsFiniteSet(docs)
  BY FeedWas
<1>3. feed.task = Waiting /\ feed.got = NotYet
  BY DEF StartFetch
<1>4. feed = [docs |-> docs, task |-> Waiting, got |-> NotYet]
  BY <1>2, <1>3, FeedWas
<1>5. feed' = IF func # "count" /\ ~field THEN [feed EXCEPT !.got = [task EXCEPT !.mode = "error"]]
                                          ELSE [feed EXCEPT !.task = task]
  BY DEF StartFetch
<1>6. PICK m \in {"plain", "split"} : m = IF split THEN "split" ELSE "plain"
  OBVIOUS
<1>7. <<-1, -1>> \in Pair /\ <<>> \in Seq(AnyPoint)
  BY DEF Pair
<1>8. PICK t : t = [mode |-> m, func |-> func, start |-> s, end |-> e, cursor |-> s,
                    after |-> <<-1, -1>>, page |-> 0, out |-> <<>>, still |-> TRUE]
  OBVIOUS
<1>9. t = task
  BY <1>1, <1>6, <1>8
<1>10. /\ t \in AnyFetch /\ t.start = s /\ t.cursor = s /\ t.end = e /\ t.out = <<>>
       /\ t.after = <<-1, -1>> /\ t.mode = m
  BY <1>7, <1>8 DEF AnyFetch
<1>. HIDE DEF task
<1>11. CASE func # "count" /\ ~field
  <2>1. PICK u : u = [t EXCEPT !.mode = "error"]
    OBVIOUS
  <2>2. u \in AnyFetch /\ u.mode = "error"
    BY <1>10, <2>1 DEF AnyFetch
  <2>3. GotStands(docs, u)
    BY <2>2 DEF GotStands
  <2>4. feed' = [feed EXCEPT !.got = u]
    BY ONLY <1>5, <1>9, <1>11, <2>1, Zenon
  <2>5. feed' = [docs |-> docs, task |-> Waiting, got |-> u]
    BY <1>4, <2>4, Replaced
  <2>. QED BY <1>2, <2>2, <2>3, <2>5, FeedIs
<1>12. CASE ~(func # "count" /\ ~field)
  <2>0. feed' = [feed EXCEPT !.task = t]
    BY ONLY <1>5, <1>9, <1>12, Zenon
  <2>1. feed' = [docs |-> docs, task |-> t, got |-> NotYet]
    BY <1>4, <2>0, Replaced
  <2>2. ChunkBegins(s, e, s)
    <3>1. s = s + Stretch * 0
      BY StretchIs
    <3>. QED BY <3>1 DEF ChunkBegins
  <2>3. CountsTold(docs, s, e, s, <<>>)
    BY <1>7, CountNone DEF CountsTold
  <2>4. InOrder(<<>>, <<-1, -1>>)
    BY <1>7 DEF InOrder
  <2>5. ReadTo(InWindow(docs, s, e), <<>>, <<-1, -1>>)
    <3>. SUFFICES ASSUME NEW d \in docs PROVE Beyond(BucketOf(d), <<-1, -1>>)
      BY DEF ReadTo, InWindow
    <3>1. PICK x \in Nat, y \in Nat : BucketOf(d) = <<x, y>>
      BY <1>2, BucketTyped
    <3>. QED BY <3>1 DEF Beyond
  <2>6. FetchStands(docs, t)
    BY <1>10, <2>2, <2>3, <2>4, <2>5 DEF FetchStands
  <2>. QED BY <1>2, <1>10, <2>1, <2>6, FeedIs
<1>. QED BY <1>11, <1>12

LEMMA ChunkKeeps == ASSUME FeedInv, FetchChunk PROVE FeedInv'
<1>1. PICK docs, t, got : /\ docs = feed.docs /\ t = feed.task /\ got = feed.got
                          /\ docs \in SUBSET AnyDoc /\ IsFiniteSet(docs)
                          /\ got \in {NotYet} \cup AnyFetch
                          /\ got = NotYet \/ GotStands(docs, got)
                          /\ feed = [docs |-> docs, task |-> t, got |-> got]
  BY FeedWas
<1>2. t.mode = "plain" /\ t \in AnyFetch /\ FetchStands(docs, t)
  <2>1. t.mode = "plain"
    BY <1>1 DEF FetchChunk
  <2>2. t # Waiting
    BY <2>1 DEF Waiting
  <2>. QED BY <1>1, <2>1, <2>2, FeedWas
<1>3. PICK s \in Nat, e \in Nat, c \in Nat : s = t.start /\ e = t.end /\ c = t.cursor
  BY <1>2 DEF AnyFetch
<1>4. PICK out \in Seq(AnyPoint), func \in {"count", "max"} : out = t.out /\ func = t.func
  BY <1>2 DEF AnyFetch
<1>5. PICK ce : ce = NextEnd(s, e, c)
  OBVIOUS
<1>6. ChunkEnd(t) = ce
  BY <1>3, <1>5 DEF ChunkEnd, NextEnd, Stretch
<1>7. PICK agg : agg = ParseAgg(func, InWindow(docs, c, ce))
  OBVIOUS
<1>8. PICK done : done = [t EXCEPT !.out = out \o agg, !.cursor = c + Stretch]
  OBVIOUS
<1>9. /\ feed' = IF done.cursor < e THEN [feed EXCEPT !.task = done]
                                    ELSE [feed EXCEPT !.task = Waiting, !.got = done]
  BY <1>1, <1>3, <1>4, <1>6, <1>7, <1>8 DEF FetchChunk, Finished, Stretch
<1>10. agg \in Seq(AnyPoint)
  <2>1. InWindow(docs, c, ce) \in SUBSET docs
    BY DEF InWindow
  <2>2. InWindow(docs, c, ce) \in SUBSET AnyDoc /\ IsFiniteSet(InWindow(docs, c, ce))
    BY <1>1, <2>1, FS_Subset
  <2>. QED BY <1>7, <2>2, AggTyped
<1>11. Stretch \in Nat \ {0}
  BY StretchIs
<1>12. PICK more \in Seq(AnyPoint), next \in Nat : more = out \o agg /\ next = c + Stretch
  <2>1. out \o agg \in Seq(AnyPoint)
    BY <1>10
  <2>2. c + Stretch \in Nat
    BY <1>11
  <2>. QED BY <2>1, <2>2
<1>13. /\ done \in AnyFetch /\ done.mode = "plain" /\ done.start = s /\ done.end = e
       /\ done.cursor = next /\ done.out = more /\ done.func = func /\ done.still = t.still
  BY <1>2, <1>3, <1>4, <1>8, <1>12 DEF AnyFetch
<1>14. ChunkBegins(s, e, c) /\ ((t.still /\ func = "count") => CountsTold(docs, s, e, c, out))
  BY <1>2, <1>3, <1>4 DEF FetchStands
<1>15. (t.still /\ func = "count") => \A key : CountOver(more, key) = ToldTo(docs, s, e, ce, key)
  <2>. SUFFICES ASSUME t.still, func = "count"
                PROVE  \A key : CountOver(more, key) = ToldTo(docs, s, e, ce, key)
    OBVIOUS
  <2>1. CountsTold(docs, s, e, c, out)
    BY <1>14
  <2>. QED BY <1>1, <1>5, <1>7, <1>12, <1>14, <2>1, ChunkCounts
<1>16. PICK n \in Nat : c = s + Stretch * n
  BY <1>14 DEF ChunkBegins
<1>17. Stretch * n \in Nat /\ next = s + Stretch * (n + 1) /\ s < next
  <2>1. Stretch * (n + 1) = Stretch * n + Stretch * 1 /\ Stretch * 1 = Stretch /\ Stretch * n \in Nat
    BY <1>11, Products
  <2>. QED BY <1>11, <1>12, <1>16, <2>1
<1>18. CASE next < e
  <2>1. ce = next
    BY <1>5, <1>12, <1>17, <1>18 DEF NextEnd
  <2>2. ChunkBegins(s, e, next)
    BY <1>17, <1>18 DEF ChunkBegins
  <2>3. (t.still /\ func = "count") => CountsTold(docs, s, e, next, more)
    BY <1>12, <1>15, <1>17, <2>1 DEF CountsTold
  <2>4. FetchStands(docs, done)
    BY <1>13, <2>2, <2>3 DEF FetchStands
  <2>5. feed' = [docs |-> docs, task |-> done, got |-> got]
    BY <1>1, <1>9, <1>13, <1>18
  <2>. QED BY <1>1, <1>13, <2>4, <2>5, FeedIs
<1>19. CASE ~(next < e)
  <2>1. ce = e
    BY <1>5, <1>12, <1>19 DEF NextEnd
  <2>2. GotStands(docs, done)
    BY <1>13, <1>15, <2>1 DEF GotStands
  <2>3. feed' = [docs |-> docs, task |-> Waiting, got |-> done]
    BY <1>1, <1>9, <1>13, <1>19
  <2>. QED BY <1>1, <1>13, <2>2, <2>3, FeedIs
<1>. QED BY <1>18, <1>19

LEMMA PageStepKeeps == ASSUME FeedInv, FetchPage PROVE FeedInv'
<1>1. PICK docs, t, got : /\ docs = feed.docs /\ t = feed.task /\ got = feed.got
                          /\ docs \in SUBSET AnyDoc /\ IsFiniteSet(docs)
                          /\ got \in {NotYet} \cup AnyFetch
                          /\ got = NotYet \/ GotStands(docs, got)
                          /\ feed = [docs |-> docs, task |-> t, got |-> got]
  BY FeedWas
<1>2. t.mode = "split" /\ t \in AnyFetch /\ FetchStands(docs, t)
  <2>1. t.mode = "split"
    BY <1>1 DEF FetchPage
  <2>2. t # Waiting
    BY <2>1 DEF Waiting
  <2>. QED BY <1>1, <2>1, <2>2, FeedWas
<1>3. PICK s \in Nat, e \in Nat, after \in Pair, pg \in Nat :
         s = t.start /\ e = t.end /\ after = t.after /\ pg = t.page
  BY <1>2 DEF AnyFetch
<1>4. PICK out \in Seq(AnyPoint), func \in {"count", "max"} : out = t.out /\ func = t.func
  BY <1>2 DEF AnyFetch
<1>5. PICK win : win = InWindow(docs, s, e) /\ win \in SUBSET AnyDoc /\ IsFiniteSet(win)
  <2>1. InWindow(docs, s, e) \in SUBSET docs
    BY DEF InWindow
  <2>. QED BY <1>1, <2>1, FS_Subset
<1>6. PICK page : page = PageKeys(win, after)
  OBVIOUS
<1>7. PICK points : points = ParseComposite(func, win, page)
  OBVIOUS
<1>8. PICK next : next = NextAfter(page, after)
  OBVIOUS
<1>9. PICK done : done = [t EXCEPT !.out = out \o points, !.page = pg + 1, !.after = next]
  OBVIOUS
<1>10. feed' = IF LastPage(page, points, done.page) THEN [feed EXCEPT !.task = Waiting, !.got = done]
                                                    ELSE [feed EXCEPT !.task = done]
  BY <1>1, <1>3, <1>4, <1>5, <1>6, <1>7, <1>8, <1>9 DEF FetchPage, Finished, NextAfter
<1>11. InOrder(out, after) /\ ((t.still /\ func = "count") => ReadTo(win, out, after))
  BY <1>2, <1>3, <1>4, <1>5 DEF FetchStands
<1>12. PICK more : more = out \o points
  OBVIOUS
<1>13. /\ InOrder(more, next)
       /\ func = "count" /\ ReadTo(win, out, after) => ReadTo(win, more, next)
       /\ (page = <<>> \/ (func = "count" /\ points = <<>>)) =>
            \A d \in win : ~Beyond(BucketOf(d), next)
  BY <1>5, <1>6, <1>7, <1>8, <1>11, <1>12, PageKeeps
<1>14. more \in Seq(AnyPoint) /\ next \in Pair /\ Ascends(more)
  BY <1>13 DEF InOrder, Ascends
<1>15. /\ done \in AnyFetch /\ done.mode = "split" /\ done.start = s /\ done.end = e
       /\ done.after = next /\ done.out = more /\ done.func = func /\ done.still = t.still
       /\ done.page = pg + 1
  <2>1. PICK pn \in Nat : pn = pg + 1
    OBVIOUS
  <2>2. done = [t EXCEPT !.out = more, !.page = pn, !.after = next]
    BY <1>9, <1>12, <2>1
  <2>3. /\ done \in AnyFetch /\ done.mode = t.mode /\ done.start = t.start /\ done.end = t.end
        /\ done.after = next /\ done.out = more /\ done.func = t.func /\ done.still = t.still
        /\ done.page = pn
    BY <1>2, <1>14, <2>2 DEF AnyFetch
  <2>. QED BY <1>2, <1>3, <1>4, <2>1, <2>3
<1>16. (t.still /\ func = "count") => ReadTo(win, more, next)
  BY <1>11, <1>13
<1>17. CASE LastPage(page, points, done.page)
  <2>1. ASSUME t.still, func = "count", pg + 1 < MaxPages PROVE Holds(win, more)
    <3>1. page = <<>> \/ points = <<>>
      <4>1. MaxPages \in Nat
        BY FeedAssumption
      <4>2. pg + 1 # MaxPages
        BY <2>1, <4>1
      <4>. QED BY <1>15, <1>17, <4>2 DEF LastPage
    <3>2. \A d \in win : ~Beyond(BucketOf(d), next)
      BY <1>13, <2>1, <3>1
    <3>3. ReadTo(win, more, next)
      BY <1>16, <2>1
    <3>. QED BY <3>2, <3>3 DEF ReadTo, Holds
  <2>2. GotStands(docs, done)
    BY <1>5, <1>14, <1>15, <2>1 DEF GotStands
  <2>3. feed' = [docs |-> docs, task |-> Waiting, got |-> done]
    BY <1>1, <1>10, <1>17
  <2>. QED BY <1>1, <1>15, <2>2, <2>3, FeedIs
<1>18. CASE ~LastPage(page, points, done.page)
  <2>1. FetchStands(docs, done)
    BY <1>5, <1>13, <1>15, <1>16 DEF FetchStands
  <2>2. feed' = [docs |-> docs, task |-> done, got |-> got]
    BY <1>1, <1>10, <1>18
  <2>. QED BY <1>1, <1>15, <2>1, <2>2, FeedIs
<1>. QED BY <1>17, <1>18

LEMMA FailsKeep == ASSUME FeedInv, FetchFails PROVE FeedInv'
<1>1. PICK docs, t, got : /\ docs = feed.docs /\ t = feed.task /\ got = feed.got
                          /\ docs \in SUBSET AnyDoc /\ IsFiniteSet(docs)
                          /\ feed = [docs |-> docs, task |-> t, got |-> got]
  BY FeedWas
<1>2. t \in AnyFetch
  BY <1>1, FeedWas DEF FetchFails
<1>3. PICK u : u = [t EXCEPT !.mode = "error", !.out = <<>>]
  OBVIOUS
<1>4. u \in AnyFetch /\ u.mode = "error"
  <2>1. <<>> \in Seq(AnyPoint)
    OBVIOUS
  <2>. QED BY <1>2, <1>3, <2>1 DEF AnyFetch
<1>5. GotStands(docs, u)
  BY <1>4 DEF GotStands
<1>6. feed' = [docs |-> docs, task |-> Waiting, got |-> u]
  BY <1>1, <1>3 DEF FetchFails, Finished
<1>. QED BY <1>1, <1>4, <1>5, <1>6, FeedIs

LEMMA TakenKeeps == ASSUME FeedInv, Taken PROVE FeedInv'
<1>1. PICK docs, t, got : /\ docs = feed.docs /\ t = feed.task /\ got = feed.got
                          /\ docs \in SUBSET AnyDoc /\ IsFiniteSet(docs)
                          /\ t \in {Waiting} \cup AnyFetch
                          /\ t = Waiting \/ FetchStands(docs, t)
                          /\ feed = [docs |-> docs, task |-> t, got |-> got]
  BY FeedWas
<1>2. feed' = [docs |-> docs, task |-> t, got |-> NotYet]
  BY <1>1 DEF Taken
<1>. QED BY <1>1, <1>2, FeedIs

LEMMA FeedKeeps == FeedInv /\ [FeedNext]_feedVars => FeedInv'
<1>. SUFFICES ASSUME FeedInv, [FeedNext]_feedVars PROVE FeedInv'
  OBVIOUS
<1>1. CASE Taken
  BY <1>1, TakenKeeps
<1>2. ASSUME NEW at \in 0..LastDocTime, NEW term \in Terms, NEW value \in Readings \cup {NoReading},
             Index(at, term, value)
      PROVE  FeedInv'
  BY <1>2, IndexKeeps
<1>3. ASSUME NEW split \in BOOLEAN, NEW field \in BOOLEAN, NEW func \in {"count", "max"},
             NEW w \in AskedWindows, StartFetch(split, func, field, w[1], w[2])
      PROVE  FeedInv'
  BY <1>3, StartKeeps
<1>4. CASE FetchChunk
  BY <1>4, ChunkKeeps
<1>5. CASE FetchPage
  BY <1>5, PageStepKeeps
<1>6. CASE FetchFails
  BY <1>6, FailsKeep
<1>7. CASE UNCHANGED feedVars
  BY <1>7 DEF feedVars, FeedInv
<1>. QED BY <1>1, <1>2, <1>3, <1>4, <1>5, <1>6, <1>7 DEF FeedNext

\* What the invariant says of a fetch that is done is what the properties ask.
LEMMA FeedTells == FeedInv => ChunksCoverWindow /\ PagesAdvance /\ CountsReadWhole
<1>. SUFFICES ASSUME FeedInv PROVE ChunksCoverWindow /\ PagesAdvance /\ CountsReadWhole
  OBVIOUS
<1>1. CASE feed.got = NotYet
  <2>1. feed.got.mode = "none"
    BY <1>1 DEF NotYet
  <2>. QED BY <2>1 DEF ChunksCoverWindow, PagesAdvance, CountsReadWhole
<1>2. CASE feed.got # NotYet
  <2>1. PICK docs, t : docs = feed.docs /\ t = feed.got /\ t \in AnyFetch /\ GotStands(docs, t)
    BY <1>2, FeedWas
  <2>2. docs \in SUBSET AnyDoc
    BY <2>1, FeedWas
  <2>3. ChunksCoverWindow
    <3>. SUFFICES ASSUME t.mode = "plain", t.still, t.func = "count", NEW key
                  PROVE  LET of == {d \in Wanted : KeyOf(d.at) = key} IN
                         CountOver(t.out, key) =
                            Cardinality(of) + Cardinality({d \in of : OnSeam(t, d.at)})
      BY <2>1 DEF ChunksCoverWindow
    <3>. DEFINE of == {d \in Wanted : KeyOf(d.at) = key}
    <3>1. PICK s \in Nat, e \in Nat : s = t.start /\ e = t.end
      BY <2>1 DEF AnyFetch
    <3>2. CountOver(t.out, key) = ToldTo(docs, s, e, e, key)
      BY <2>1, <3>1 DEF GotStands
    <3>3. of = DocsIn(docs, s, e, key)
      BY <2>1, <3>1 DEF Wanted, InWindow, DocsIn
    <3>4. \A d \in docs : d.at \in Nat
      BY <2>2 DEF AnyDoc
    <3>5. \A x : OnSeam(t, x) <=> Seam(s, e, x)
      BY <3>1 DEF OnSeam, Seam, Stretch
    <3>6. {d \in DocsIn(docs, s, e, key) : OnSeam(t, d.at)} = Seams(docs, s, e, e, key)
      <4>1. \A d \in docs : Seam(s, e, d.at) => d.at \in s..e /\ d.at < e
        <5>. SUFFICES ASSUME NEW d \in docs, Seam(s, e, d.at) PROVE d.at \in s..e /\ d.at < e
          OBVIOUS
        <5>1. PICK x \in Nat : x = d.at
          BY <3>4
        <5>. QED BY <5>1 DEF Seam
      <4>. QED BY <3>5, <4>1 DEF DocsIn, Seams
    <3>. QED BY <3>2, <3>3, <3>6 DEF ToldTo
  <2>4. PagesAdvance
    <3>. SUFFICES ASSUME t.mode = "split" PROVE Ascends(t.out)
      <4>1. t.out \in Seq(AnyPoint)
        BY <2>1 DEF AnyFetch
      <4>2. DOMAIN t.out = 1..Len(t.out)
        BY <4>1
      <4>. QED BY <2>1, <4>2 DEF PagesAdvance, Ascends, KeyAt
    <3>. QED BY <2>1 DEF GotStands
  <2>5. CountsReadWhole
    <3>. SUFFICES ASSUME t.mode = "split", t.func = "count", t.still, t.page < MaxPages,
                         NEW d \in Wanted
                  PROVE  \E p \in ToSet(t.out) : p.time = KeyOf(d.at) /\ p.term = d.term
      BY <2>1 DEF CountsReadWhole, AllPagesRead
    <3>1. Holds(InWindow(docs, t.start, t.end), t.out)
      BY <2>1 DEF GotStands
    <3>2. PICK i \in 1..Len(t.out) : KeyAt(t.out[i]) = BucketOf(d)
      BY <2>1, <3>1 DEF Holds, Wanted
    <3>3. t.out \in Seq(AnyPoint)
      BY <2>1 DEF AnyFetch
    <3>4. t.out[i] \in ToSet(t.out)
      BY <3>3 DEF ToSet
    <3>. QED BY <3>2, <3>4 DEF KeyAt, BucketOf
  <2>. QED BY <2>3, <2>4, <2>5
<1>. QED BY <1>1, <1>2

(* FetchesCover: a long plain fetch counts each document of its window     *)
(* once, those on a seam of two chunks twice; a split fetch pages on and    *)
(* never gives a bucket twice, and a count of it reads every page           *)
(* (Fetch and fetchComposite in datafeed/elasticsearch.go).                 *)
THEOREM FetchesCorrect == ServicesSpec => []FetchesCover
<1>1. ServicesInit => FeedInv
  BY FeedStart DEF ServicesInit
<1>2. FeedInv /\ [ServicesNext]_allVars => FeedInv'
  BY Steps, FeedKeeps
<1>3. FeedInv => FetchesCover
  BY FeedTells DEF FetchesCover
<1>. QED BY <1>1, <1>2, <1>3, PTL DEF ServicesSpec, allVars

=============================================================================
