----------------------- MODULE IncidentTracker_proofs -----------------------
(***************************************************************************)
(* Theorems about IncidentTracker, for any callers and views, any limits   *)
(* and any number of restarts.                                             *)
(***************************************************************************)
EXTENDS IncidentTracker, FiniteSetTheorems, WellFoundedInduction, TLAPS

-----------------------------------------------------------------------------
(* Sequences and records.                                                  *)

LEMMA AppendFacts ==
  ASSUME NEW S, NEW s \in Seq(S), NEW x \in S, NEW t, t = Append(s, x)
  PROVE  /\ t \in Seq(S) /\ Len(t) = Len(s) + 1 /\ Len(s) \in Nat
         /\ DOMAIN t = DOMAIN s \cup {Len(t)} /\ Len(t) \notin DOMAIN s
         /\ DOMAIN s = 1..Len(s)
         /\ \A i \in DOMAIN s : t[i] = s[i]
         /\ t[Len(t)] = x
OBVIOUS

\* Only the oldest are trimmed.
LEMMA TrimmedFacts ==
  ASSUME NEW S, NEW s \in Seq(S), Len(s) <= MaxResolved + 1
  PROVE  /\ Trimmed(s) \in Seq(S) /\ Len(Trimmed(s)) <= MaxResolved
         /\ \E off \in Nat : \A i \in DOMAIN Trimmed(s) :
              i + off \in DOMAIN s /\ Trimmed(s)[i] = s[i + off]
<1>1. MaxResolved \in Nat /\ MaxResolved >= 1 /\ Len(s) \in Nat
  BY LimitsAssumption
<1>2. CASE Len(s) > MaxResolved
  <2>1. Len(s) = MaxResolved + 1 /\ Trimmed(s) = SubSeq(s, 2, Len(s))
    BY <1>1, <1>2 DEF Trimmed
  <2>2. /\ Trimmed(s) \in Seq(S) /\ Len(Trimmed(s)) = MaxResolved
        /\ DOMAIN Trimmed(s) = 1..MaxResolved
        /\ \A i \in 1..MaxResolved : Trimmed(s)[i] = s[i + 1]
    BY <1>1, <2>1
  <2>3. \A i \in DOMAIN Trimmed(s) : i + 1 \in DOMAIN s /\ Trimmed(s)[i] = s[i + 1]
    BY <1>1, <2>1, <2>2
  <2>. QED BY <1>1, <2>2, <2>3
<1>3. CASE ~(Len(s) > MaxResolved)
  <2>1. Trimmed(s) = s
    BY <1>3 DEF Trimmed
  <2>2. \A i \in DOMAIN s : i + 0 \in DOMAIN s /\ s[i] = s[i + 0]
    OBVIOUS
  <2>3. 0 \in Nat /\ Len(s) <= MaxResolved
    BY <1>1, <1>3
  <2>. QED BY <2>1, <2>2, <2>3
<1>. QED BY <1>2, <1>3

-----------------------------------------------------------------------------
(* The inductive invariant, but for the matching.                          *)

\* What the tracker holds, or the state file: every id was taken from a
\* sequence number up to n, and is open or resolved once.
Table(o, r, n) ==
  /\ IsFiniteSet(DOMAIN o) /\ DOMAIN o \subseteq Ids
  /\ \A k \in DOMAIN o : o[k] \in Tracked /\ k[2] <= n
  /\ r \in Seq(Ids) /\ Len(r) <= MaxResolved
  /\ \A i \in DOMAIN r : r[i][2] <= n /\ r[i] \notin DOMAIN o
  /\ \A i, j \in DOMAIN r : r[i] = r[j] => i = j
  /\ n \in Nat

RunShape(r) ==
  /\ r = [busy |-> r.busy, at |-> r.at, fresh |-> r.fresh, pick |-> r.pick,
          todo |-> r.todo, used |-> r.used, from |-> r.from]
  /\ r.busy \in BOOLEAN
  /\ r.at \in 0..MaxTime
  /\ r.fresh \in Views \cup {<<>>}
  /\ r.todo \subseteq DOMAIN r.fresh
  /\ r.from \in Nat \ {0}

Control ==
  /\ now \in 0..MaxTime
  /\ waiting \in [Callers -> SUBSET [at: 0..MaxTime, fresh: Views]]
  /\ RunShape(run) /\ run.used \subseteq DOMAIN open
  /\ restarts \in 0..MaxRestarts

Tables ==
  /\ Table(open, resolved, seq)
  /\ saved = <<saved[1], saved[2], saved[3]>> /\ Table(saved[1], saved[2], saved[3])

Types == Control /\ Tables /\ events \in Seq(Event)

-----------------------------------------------------------------------------
(* Types.                                                                  *)

LEMMA FreshFacts ==
  ASSUME NEW view \in Views \cup {<<>>}, NEW i \in DOMAIN view
  PROVE  /\ view[i] \in Fresh /\ IsFiniteSet(view[i].ents)
         /\ view[i].end \in Int /\ view[i].score \in Int
<1>1. DOMAIN <<>> = {}
  OBVIOUS
<1>2. view \in Views
  BY <1>1
<1>. QED BY <1>2, ViewsAssumption DEF Fresh

LEMMA TrackedNew ==
  ASSUME NEW f \in Fresh
  PROVE  [inc |-> f, peak |-> f.score, active |-> f.end] \in Tracked
BY DEF Tracked

LEMMA TrackedExtended ==
  ASSUME NEW f \in Fresh, NEW o \in Tracked
  PROVE  Extended(o, f) \in Tracked
BY DEF Tracked, Extended

LEMMA FreeShape == RunShape(Free)
BY BoundsAssumption DEF RunShape, Free

LEMMA PairedRun ==
  ASSUME RunShape(run), NEW i, NEW k, Paired(i, k)
  PROVE  /\ RunShape(run') /\ run'.busy = run.busy /\ run'.at = run.at
         /\ run'.fresh = run.fresh /\ run'.pick = run.pick /\ run'.from = run.from
         /\ run'.todo = run.todo \ {i} /\ run'.used = run.used \cup {k}
<1>. DEFINE r == [busy |-> run.busy, at |-> run.at, fresh |-> run.fresh,
                  pick |-> run.pick, todo |-> run.todo \ {i},
                  used |-> run.used \cup {k}, from |-> run.from]
<1>1. run' = r
  BY DEF Paired, RunShape
<1>2. RunShape(r)
  BY DEF RunShape
<1>. QED BY <1>1, <1>2

-----------------------------------------------------------------------------
(* What the iterations of the loops do to the tables and the events.       *)

\* An iteration of the first loop that continues an open incident.
LEMMA ExtendFacts ==
  ASSUME Types, NEW i, NEW k, k \in DOMAIN open, i \in run.todo, Extend(i, k)
  PROVE  /\ i \in DOMAIN run.fresh /\ run.fresh[i] \in Fresh
         /\ DOMAIN open' = DOMAIN open
         /\ open'[k] = Extended(open[k], run.fresh[i])
         /\ \A l \in DOMAIN open : l # k => open'[l] = open[l]
         /\ open[k] \in Tracked /\ open'[k] \in Tracked
         /\ Table(open', resolved', seq')
         /\ Paired(i, k)
<1>1. /\ RunShape(run) /\ Table(open, resolved, seq)
  BY DEF Types, Control, Tables
<1>2. i \in DOMAIN run.fresh /\ run.fresh[i] \in Fresh
  BY <1>1, FreshFacts DEF RunShape
<1>3. /\ open' = [open EXCEPT ![k] = Extended(@, run.fresh[i])]
      /\ resolved' = resolved /\ seq' = seq /\ Paired(i, k)
  BY DEF Extend
<1>4. /\ DOMAIN open' = DOMAIN open
      /\ open'[k] = Extended(open[k], run.fresh[i])
      /\ \A l \in DOMAIN open : l # k => open'[l] = open[l]
  BY <1>3
<1>5. open[k] \in Tracked
  BY <1>1 DEF Table
<1>6. open'[k] \in Tracked
  BY <1>2, <1>4, <1>5, TrackedExtended
<1>7. Table(open', resolved', seq')
  BY <1>1, <1>3, <1>4, <1>6 DEF Table
<1>. QED BY <1>2, <1>3, <1>4, <1>5, <1>6, <1>7

\* One that opens an incident: its id has a sequence number of its own.
LEMMA OpenNewFacts ==
  ASSUME Types, NEW i, i \in run.todo, OpenNew(i)
  PROVE  /\ i \in DOMAIN run.fresh /\ run.fresh[i] \in Fresh
         /\ NewId \in Ids /\ NewId[1] = run.at /\ NewId[2] = seq + 1
         /\ NewId \notin DOMAIN open /\ seq' = seq + 1
         /\ DOMAIN open' = DOMAIN open \cup {NewId}
         /\ \A l \in DOMAIN open : open'[l] = open[l]
         /\ open'[NewId] = [inc |-> run.fresh[i], peak |-> run.fresh[i].score,
                            active |-> run.fresh[i].end]
         /\ open'[NewId] \in Tracked
         /\ Table(open', resolved', seq')
         /\ Paired(i, NewId)
         /\ Emit("opened", NewId, open'[NewId])
<1>. DEFINE id == NewId
            tr == [inc |-> run.fresh[i], peak |-> run.fresh[i].score,
                   active |-> run.fresh[i].end]
<1>1. /\ RunShape(run) /\ Table(open, resolved, seq)
  BY DEF Types, Control, Tables
<1>2. i \in DOMAIN run.fresh /\ run.fresh[i] \in Fresh
  BY <1>1, FreshFacts DEF RunShape
<1>3. /\ open' = [k \in DOMAIN open \cup {id} |-> IF k = id THEN tr ELSE open[k]]
      /\ Emit("opened", id, tr)
      /\ resolved' = resolved /\ seq' = seq + 1 /\ Paired(i, id)
  BY DEF OpenNew
<1>4. /\ id \in Ids /\ id[1] = run.at /\ id[2] = seq + 1
  BY <1>1 DEF NewId, Ids, RunShape, Table
<1>5. seq \in Nat /\ \A k \in DOMAIN open : k[2] <= seq /\ k \in Ids
  BY <1>1 DEF Table
<1>6. id \notin DOMAIN open
  BY <1>4, <1>5
<1>7. \A n \in DOMAIN resolved : resolved[n] # id
  BY <1>1, <1>4, <1>5 DEF Table
<1>. HIDE DEF id
<1>8. /\ DOMAIN open' = DOMAIN open \cup {id} /\ open'[id] = tr
      /\ \A l \in DOMAIN open : open'[l] = open[l]
  BY <1>3, <1>6
<1>9. tr \in Tracked
  BY <1>2, TrackedNew
<1>. HIDE DEF tr
<1>10. IsFiniteSet(DOMAIN open')
  BY <1>1, <1>8, FS_AddElement DEF Table
<1>11. \A k \in DOMAIN open' : open'[k] \in Tracked /\ k[2] <= seq' /\ k \in Ids
  <2>1. \A k \in DOMAIN open : open[k] \in Tracked /\ k[2] <= seq /\ k \in Ids
    BY <1>1 DEF Table
  <2>2. \A k \in Ids : k[2] \in Nat
    BY DEF Ids
  <2>. QED BY <1>3, <1>4, <1>5, <1>8, <1>9, <2>1, <2>2
<1>12. \A n \in DOMAIN resolved' : resolved'[n][2] <= seq' /\ resolved'[n] \notin DOMAIN open'
  <2>1. \A n \in DOMAIN resolved : /\ resolved[n][2] <= seq
                                   /\ resolved[n] \notin DOMAIN open
                                   /\ resolved[n] \in Ids
    BY <1>1 DEF Table
  <2>2. \A k \in Ids : k[2] \in Nat
    BY DEF Ids
  <2>. QED BY <1>3, <1>5, <1>7, <1>8, <2>1, <2>2
<1>13. Table(open', resolved', seq')
  <2>1. /\ resolved' \in Seq(Ids) /\ Len(resolved') <= MaxResolved
        /\ \A i1, i2 \in DOMAIN resolved' : resolved'[i1] = resolved'[i2] => i1 = i2
    BY <1>1, <1>3 DEF Table
  <2>2. seq' \in Nat
    BY <1>3, <1>5
  <2>3. /\ DOMAIN open' \subseteq Ids
        /\ \A k \in DOMAIN open' : open'[k] \in Tracked /\ k[2] <= seq'
    BY <1>11
  <2>. QED BY <1>10, <1>12, <2>1, <2>2, <2>3 DEF Table
<1>. QED BY <1>2, <1>3, <1>4, <1>6, <1>8, <1>9, <1>13 DEF id, tr

\* One that resolves.
LEMMA ResolveFacts ==
  ASSUME Types, NEW k, k \in DOMAIN open, Resolve(k)
  PROVE  /\ DOMAIN open' = DOMAIN open \ {k}
         /\ \A l \in DOMAIN open' : open'[l] = open[l]
         /\ open[k] \in Tracked /\ k \notin run.used
         /\ Table(open', resolved', seq')
         /\ Emit("resolved", k, open[k])
<1>. DEFINE r == Append(resolved, k)
<1>1. Table(open, resolved, seq)
  BY DEF Types, Tables
<1>2. /\ open' = [l \in DOMAIN open \ {k} |-> open[l]]
      /\ resolved' = Trimmed(r) /\ seq' = seq
      /\ Emit("resolved", k, open[k]) /\ k \notin run.used
  BY DEF Resolve, Due
<1>3. /\ DOMAIN open' = DOMAIN open \ {k}
      /\ \A l \in DOMAIN open' : open'[l] = open[l]
  BY <1>2
<1>4. k \in Ids /\ open[k] \in Tracked /\ k[2] <= seq
  BY <1>1 DEF Table
<1>5. resolved \in Seq(Ids) /\ Len(resolved) <= MaxResolved
  BY <1>1 DEF Table
<1>6. /\ r \in Seq(Ids) /\ Len(r) = Len(resolved) + 1 /\ Len(resolved) \in Nat
      /\ DOMAIN r = DOMAIN resolved \cup {Len(r)} /\ Len(r) \notin DOMAIN resolved
      /\ \A n \in DOMAIN resolved : r[n] = resolved[n]
      /\ r[Len(r)] = k
  BY <1>4, <1>5, AppendFacts
<1>. HIDE DEF r
<1>7. \A n \in DOMAIN r : r[n][2] <= seq /\ (r[n] = k \/ r[n] \notin DOMAIN open)
  BY <1>1, <1>4, <1>6 DEF Table
<1>8. \A m, n \in DOMAIN r : r[m] = r[n] => m = n
  <2>1. \A n \in DOMAIN resolved : resolved[n] # k
    BY <1>1 DEF Table
  <2>. QED BY <1>1, <1>6, <2>1 DEF Table
<1>9. /\ Trimmed(r) \in Seq(Ids) /\ Len(Trimmed(r)) <= MaxResolved
      /\ \E off \in Nat : \A n \in DOMAIN Trimmed(r) :
           n + off \in DOMAIN r /\ Trimmed(r)[n] = r[n + off]
  <2>1. Len(r) <= MaxResolved + 1
    BY <1>5, <1>6, LimitsAssumption
  <2>. QED BY <1>6, <2>1, TrimmedFacts
<1>10. PICK off \in Nat : \A n \in DOMAIN Trimmed(r) :
           n + off \in DOMAIN r /\ Trimmed(r)[n] = r[n + off]
  BY <1>9
<1>11. DOMAIN Trimmed(r) = 1..Len(Trimmed(r)) /\ Len(Trimmed(r)) \in Nat
  BY <1>9
<1>12. \A m, n \in DOMAIN Trimmed(r) : Trimmed(r)[m] = Trimmed(r)[n] => m = n
  <2>. SUFFICES ASSUME NEW m \in DOMAIN Trimmed(r), NEW n \in DOMAIN Trimmed(r),
                       Trimmed(r)[m] = Trimmed(r)[n]
                PROVE  m = n
    OBVIOUS
  <2>1. m + off = n + off
    BY <1>8, <1>10
  <2>. QED BY <1>11, <2>1
<1>13. \A n \in DOMAIN Trimmed(r) : /\ Trimmed(r)[n][2] <= seq
                                    /\ Trimmed(r)[n] \notin DOMAIN open'
  BY <1>3, <1>7, <1>10
<1>14. IsFiniteSet(DOMAIN open')
  BY <1>1, <1>3, FS_RemoveElement DEF Table
<1>15. Table(open', resolved', seq')
  BY <1>1, <1>2, <1>3, <1>9, <1>12, <1>13, <1>14 DEF Table
<1>. QED BY <1>2, <1>3, <1>4, <1>15

\* The step appends one event.
Grown ==
  /\ DOMAIN events' = DOMAIN events \cup {Len(events')}
  /\ Len(events') \notin DOMAIN events
  /\ Len(events) \in Nat /\ DOMAIN events = 1..Len(events)
  /\ Len(events') = Len(events) + 1
  /\ \A e \in DOMAIN events : events'[e] = events[e]

LEMMA EmitFacts ==
  ASSUME Types, NEW kind \in {"opened", "escalated", "resolved"}, NEW k \in Ids,
         NEW tr \in Tracked, Emit(kind, k, tr)
  PROVE  /\ Grown /\ events' \in Seq(Event)
         /\ events'[Len(events')].kind = kind /\ events'[Len(events')].id = k
         /\ events'[Len(events')].peak = tr.peak
         /\ events'[Len(events')].life = restarts
         /\ events'[Len(events')].at = run.at
<1>. DEFINE ev == [kind |-> kind, id |-> k, peak |-> tr.peak, at |-> run.at,
                   life |-> restarts]
<1>1. ev \in Event
  BY DEF Types, Control, RunShape, Tracked, Event
<1>2. events \in Seq(Event) /\ events' = Append(events, ev)
  BY DEF Types, Emit
<1>3. /\ ev.kind = kind /\ ev.id = k /\ ev.peak = tr.peak /\ ev.life = restarts
      /\ ev.at = run.at
  OBVIOUS
<1>. HIDE DEF ev
<1>4. /\ events' \in Seq(Event) /\ Len(events') = Len(events) + 1
      /\ Len(events) \in Nat /\ DOMAIN events = 1..Len(events)
      /\ DOMAIN events' = DOMAIN events \cup {Len(events')}
      /\ Len(events') \notin DOMAIN events
      /\ \A e \in DOMAIN events : events'[e] = events[e]
      /\ events'[Len(events')] = ev
  BY <1>1, <1>2, AppendFacts
<1>. QED BY <1>3, <1>4 DEF Grown

\* What the steps outside the two loops leave alone.
LEMMA Quiet ==
  ASSUME [Next]_vars
  PROVE  \/ Reconcile \/ Restart
         \/ /\ UNCHANGED <<tracked, events, restarts>>
            /\ run' = run \/ \E c \in Callers : Begin(c)
BY DEF Next, Tick, Call, Begin, Save, vars, tracked

-----------------------------------------------------------------------------
(* Type correctness.                                                       *)

LEMMA EmptyTable == Table(<<>>, <<>>, 0)
<1>1. DOMAIN <<>> = {} /\ <<>> \in Seq(Ids) /\ Len(<<>>) = 0
  OBVIOUS
<1>. QED BY <1>1, FS_EmptySet, LimitsAssumption DEF Table

LEMMA TypesInit == Init => Types
<1>. SUFFICES ASSUME Init PROVE Types
  OBVIOUS
<1>1. Tables
  BY EmptyTable DEF Init, Tables
<1>2. Control
  BY FreeShape, BoundsAssumption DEF Init, Control, Free
<1>3. events \in Seq(Event)
  BY DEF Init
<1>. QED BY <1>1, <1>2, <1>3 DEF Types

LEMMA LoopTypes ==
  ASSUME Types, Reconcile
  PROVE  Types'
<1>1. /\ Control /\ RunShape(run) /\ run.used \subseteq DOMAIN open
      /\ Table(open, resolved, seq) /\ events \in Seq(Event)
      /\ saved = <<saved[1], saved[2], saved[3]>> /\ Table(saved[1], saved[2], saved[3])
  BY DEF Types, Control, Tables
<1>2. ASSUME NEW i \in run.todo, OpenNew(i)
      PROVE  Types'
  <2>1. /\ NewId \in Ids /\ open'[NewId] \in Tracked /\ Table(open', resolved', seq')
        /\ Paired(i, NewId) /\ DOMAIN open' = DOMAIN open \cup {NewId}
        /\ Emit("opened", NewId, open'[NewId])
    BY <1>2, OpenNewFacts
  <2>2. RunShape(run') /\ run'.used = run.used \cup {NewId}
    BY <1>1, <2>1, PairedRun
  <2>3. events' \in Seq(Event)
    BY <2>1, EmitFacts
  <2>4. UNCHANGED <<now, waiting, restarts, saved>>
    BY <1>2 DEF OpenNew
  <2>. QED BY <1>1, <2>1, <2>2, <2>3, <2>4 DEF Types, Control, Tables
<1>3. ASSUME NEW i \in run.todo, NEW k \in DOMAIN open, Extend(i, k)
      PROVE  Types'
  <2>1. /\ open'[k] \in Tracked /\ Table(open', resolved', seq')
        /\ Paired(i, k) /\ DOMAIN open' = DOMAIN open /\ k \in Ids
    BY <1>1, <1>3, ExtendFacts DEF Table
  <2>2. RunShape(run') /\ run'.used = run.used \cup {k}
    BY <1>1, <2>1, PairedRun
  <2>3. events' \in Seq(Event)
    <3>1. CASE Emit("escalated", k, open'[k])
      BY <2>1, <3>1, EmitFacts
    <3>2. CASE UNCHANGED events
      BY <1>1, <3>2
    <3>. QED BY <1>3, <3>1, <3>2 DEF Extend
  <2>4. UNCHANGED <<now, waiting, restarts, saved>>
    BY <1>3 DEF Extend
  <2>. QED BY <1>1, <2>1, <2>2, <2>3, <2>4 DEF Types, Control, Tables
<1>4. ASSUME NEW k \in DOMAIN open, Resolve(k)
      PROVE  Types'
  <2>1. /\ open[k] \in Tracked /\ Table(open', resolved', seq') /\ k \in Ids
        /\ DOMAIN open' = DOMAIN open \ {k} /\ k \notin run.used
        /\ Emit("resolved", k, open[k])
    BY <1>1, <1>4, ResolveFacts DEF Table
  <2>2. events' \in Seq(Event)
    BY <2>1, EmitFacts
  <2>3. UNCHANGED <<now, waiting, run, restarts, saved>>
    BY <1>4 DEF Resolve
  <2>. QED BY <1>1, <2>1, <2>2, <2>3 DEF Types, Control, Tables
<1>5. CASE Finish
  <2>1. run' = Free /\ UNCHANGED <<now, waiting, tracked, saved, restarts, events>>
    BY <1>5 DEF Finish
  <2>2. RunShape(run') /\ run'.used = {}
    BY <2>1, FreeShape DEF Free
  <2>. QED BY <1>1, <2>1, <2>2 DEF Types, Control, Tables, tracked
<1>. QED BY <1>2, <1>3, <1>4, <1>5 DEF Reconcile

LEMMA TypesStep == Types /\ [Next]_vars => Types'
<1>. SUFFICES ASSUME Types, [Next]_vars PROVE Types'
  OBVIOUS
<1>1. /\ now \in 0..MaxTime /\ restarts \in 0..MaxRestarts
      /\ waiting \in [Callers -> SUBSET [at: 0..MaxTime, fresh: Views]]
      /\ RunShape(run) /\ run.used \subseteq DOMAIN open
      /\ Table(open, resolved, seq) /\ events \in Seq(Event)
      /\ saved = <<saved[1], saved[2], saved[3]>> /\ Table(saved[1], saved[2], saved[3])
  BY DEF Types, Control, Tables
<1>2. CASE Reconcile
  BY <1>2, LoopTypes
<1>3. CASE Tick
  <2>1. now' \in 0..MaxTime
    BY <1>1, <1>3 DEF Tick
  <2>. QED BY <1>1, <1>3, <2>1 DEF Tick, Types, Control, Tables, tracked
<1>4. ASSUME NEW c \in Callers, NEW view \in Views, Call(c, view)
      PROVE  Types'
  <2>1. waiting' \in [Callers -> SUBSET [at: 0..MaxTime, fresh: Views]]
    BY <1>1, <1>4 DEF Call
  <2>. QED BY <1>1, <1>4, <2>1 DEF Call, Types, Control, Tables, tracked
<1>5. ASSUME NEW c \in Callers, Begin(c)
      PROVE  Types'
  <2>1. PICK w \in waiting[c] :
          run' = [busy |-> TRUE, at |-> w.at, fresh |-> w.fresh,
               pick |-> [i \in DOMAIN w.fresh |-> Pairing(w.fresh[i])],
               todo |-> DOMAIN w.fresh, used |-> {}, from |-> Len(events) + 1]
    BY <1>5 DEF Begin
  <2>2. w \in [at: 0..MaxTime, fresh: Views] /\ Len(events) \in Nat
    BY <1>1
  <2>3. RunShape(run') /\ run'.used = {}
    BY <2>1, <2>2 DEF RunShape
  <2>4. waiting' \in [Callers -> SUBSET [at: 0..MaxTime, fresh: Views]]
    BY <1>1, <1>5 DEF Begin
  <2>. QED BY <1>1, <1>5, <2>3, <2>4 DEF Begin, Types, Control, Tables, tracked
<1>6. CASE Save
  <2>1. saved' = <<open, resolved, seq>>
    BY <1>6 DEF Save, tracked
  <2>2. /\ saved'[1] = open /\ saved'[2] = resolved /\ saved'[3] = seq
    BY <2>1
  <2>. QED BY <1>1, <1>6, <2>1, <2>2 DEF Save, Types, Control, Tables, tracked
<1>7. CASE Restart
  <2>1. now' = now /\ restarts' \in 0..MaxRestarts
    BY <1>1, <1>7, BoundsAssumption DEF Restart
  <2>2. run' = Free /\ RunShape(run') /\ run'.used = {}
    BY <1>7, FreeShape DEF Restart, Free
  <2>3. /\ open' = saved[1] /\ resolved' = saved[2] /\ seq' = saved[3]
        /\ waiting' = [c \in Callers |-> {}] /\ UNCHANGED <<saved, events>>
    BY <1>7 DEF Restart
  <2>. QED BY <1>1, <2>1, <2>2, <2>3 DEF Types, Control, Tables
<1>8. CASE UNCHANGED vars
  BY <1>1, <1>8 DEF vars, tracked, Types, Control, Tables
<1>. QED BY <1>2, <1>3, <1>4, <1>5, <1>6, <1>7, <1>8 DEF Next

LEMMA TypesAlways == Spec => []Types
BY TypesInit, TypesStep, PTL DEF Spec

\* An id is open or resolved, never both, and resolved once, also after a
\* restart that sets the sequence number back.
THEOREM OneRecordCorrect == Spec => []OneRecord
<1>1. Types => OneRecord
  BY DEF Types, Tables, Table, OneRecord
<1>. QED BY <1>1, TypesAlways, PTL

-----------------------------------------------------------------------------
(* Ids are given once, unless a crash lost the first incident.             *)

\* The history variables are of their types; the sequence number is beyond every
\* id of this life and every one that was not lost, and the one in the state file
\* beyond those it was saved with; an id starts with the second of its call.
IdNumbers ==
  /\ keptTo \in 0..Len(events) /\ lostEvents \subseteq DOMAIN events
  /\ \A e \in DOMAIN events :
       /\ events[e].life <= restarts
       /\ events[e].life = restarts => events[e].id[2] <= seq
  /\ \A e \in DOMAIN events : Of("opened", e) =>
       /\ events[e].id[1] = events[e].at
       /\ e \notin lostEvents => events[e].id[2] <= seq
       /\ e \notin lostEvents /\ e <= keptTo => events[e].id[2] <= saved[3]

\* The event that an iteration appends is of this life, and of the newest id
\* if it opens.
LEMMA LoopEvents ==
  ASSUME Types, Reconcile
  PROVE  /\ UNCHANGED <<now, waiting, restarts, saved, history>>
         /\ run'.busy => run.busy /\ run'.at = run.at
         /\ run'.at \in {run.at, 0}
         /\ seq \in Nat /\ seq' \in Nat /\ seq <= seq'
         /\ \/ UNCHANGED events
            \/ /\ Grown /\ events'[Len(events')] \in Event
               /\ events'[Len(events')].life = restarts
               /\ events'[Len(events')].id[2] <= seq'
               /\ events'[Len(events')].kind = "opened" =>
                    /\ run.busy /\ seq' = seq + 1
                    /\ events'[Len(events')].id[1] = run.at
                    /\ events'[Len(events')].at = run.at
                    /\ events'[Len(events')].id[2] = seq + 1
<1>. DEFINE n == Len(events')
<1>1. /\ RunShape(run) /\ Table(open, resolved, seq) /\ seq \in Nat
      /\ Types' /\ events' \in Seq(Event)
  BY LoopTypes DEF Types, Control, Tables, Table
<1>2. ASSUME NEW i \in run.todo, OpenNew(i)
      PROVE  /\ UNCHANGED <<now, waiting, restarts, saved, history>> /\ run'.busy = run.busy
             /\ run'.at = run.at /\ seq' = seq + 1 /\ run.busy /\ Grown
             /\ n \in DOMAIN events'
             /\ events'[n].life = restarts
             /\ events'[n].id[1] = run.at /\ events'[n].id[2] = seq + 1
             /\ events'[n].at = run.at
  <2>1. /\ NewId \in Ids /\ NewId[1] = run.at /\ NewId[2] = seq + 1
        /\ seq' = seq + 1 /\ open'[NewId] \in Tracked
        /\ Paired(i, NewId) /\ Emit("opened", NewId, open'[NewId])
    BY <1>2, OpenNewFacts
  <2>2. run'.busy = run.busy /\ run'.at = run.at
    BY <1>1, <2>1, PairedRun
  <2>3. run.busy /\ UNCHANGED <<now, waiting, restarts, saved, history>>
    BY <1>2 DEF OpenNew, Turn, history
  <2>4. /\ Grown /\ n \in DOMAIN events' /\ events'[n].life = restarts
        /\ events'[n].id = NewId /\ events'[n].at = run.at
    BY <2>1, EmitFacts DEF Grown
  <2>. QED BY <2>1, <2>2, <2>3, <2>4
<1>3. ASSUME NEW i \in run.todo, NEW k \in DOMAIN open, Extend(i, k)
      PROVE  /\ UNCHANGED <<now, waiting, restarts, seq, saved, history>> /\ run'.busy = run.busy
             /\ run'.at = run.at
             /\ \/ UNCHANGED events
                \/ /\ Grown /\ n \in DOMAIN events'
                   /\ events'[n].life = restarts /\ events'[n].id[2] <= seq
                   /\ events'[n].kind # "opened"
  <2>1. /\ open'[k] \in Tracked /\ Paired(i, k) /\ k \in Ids /\ k[2] <= seq
    BY <1>1, <1>3, ExtendFacts DEF Table
  <2>2. run'.busy = run.busy /\ run'.at = run.at
    BY <1>1, <2>1, PairedRun
  <2>3. UNCHANGED <<now, waiting, restarts, seq, saved, history>>
        /\ (Emit("escalated", k, open'[k]) \/ UNCHANGED events)
    BY <1>3 DEF Extend, history
  <2>4. CASE Emit("escalated", k, open'[k])
    <3>1. /\ Grown /\ n \in DOMAIN events' /\ events'[n].life = restarts
          /\ events'[n].id = k /\ events'[n].kind = "escalated"
      BY <2>1, <2>4, EmitFacts DEF Grown
    <3>. QED BY <2>1, <2>2, <2>3, <3>1
  <2>. QED BY <2>2, <2>3, <2>4
<1>4. ASSUME NEW k \in DOMAIN open, Resolve(k)
      PROVE  /\ UNCHANGED <<now, waiting, restarts, seq, run, saved, history>>
             /\ Grown /\ n \in DOMAIN events'
             /\ events'[n].life = restarts /\ events'[n].id[2] <= seq
             /\ events'[n].kind # "opened"
  <2>1. /\ open[k] \in Tracked /\ k \in Ids /\ k[2] <= seq
        /\ Emit("resolved", k, open[k])
    BY <1>1, <1>4, ResolveFacts DEF Table
  <2>2. UNCHANGED <<now, waiting, restarts, seq, run, saved, history>>
    BY <1>4 DEF Resolve, history
  <2>3. /\ Grown /\ n \in DOMAIN events' /\ events'[n].life = restarts
        /\ events'[n].id = k /\ events'[n].kind = "resolved"
    BY <2>1, EmitFacts DEF Grown
  <2>. QED BY <2>1, <2>2, <2>3
<1>5. CASE Finish
  BY <1>1, <1>5 DEF Finish, Free, tracked, history
<1>6. \A e \in DOMAIN events' : events'[e] \in Event
  BY <1>1
<1>7. CASE \E i \in run.todo : OpenNew(i)
  BY <1>1, <1>2, <1>6, <1>7
<1>8. CASE \E i \in run.todo, k \in DOMAIN open : Extend(i, k)
  BY <1>1, <1>3, <1>6, <1>8
<1>9. CASE \E k \in DOMAIN open : Resolve(k)
  BY <1>1, <1>4, <1>6, <1>9
<1>. QED BY <1>5, <1>7, <1>8, <1>9 DEF Reconcile

LEMMA IdsStep ==
  ASSUME Types, IdNumbers, IdsUnique, Reconcile
  PROVE  IdNumbers' /\ IdsUnique'
<1>. DEFINE n == Len(events')
<1>1. /\ UNCHANGED <<saved, history, restarts>>
      /\ seq \in Nat /\ seq' \in Nat /\ seq <= seq'
      /\ restarts \in Nat
  BY LoopEvents, BoundsAssumption DEF Types, Control
<1>2. \A e \in DOMAIN events : events[e].id[2] \in Nat
  <2>1. \A e \in DOMAIN events : events[e] \in Event
    BY DEF Types
  <2>. QED BY <2>1 DEF Event, Ids
<1>3. /\ keptTo' = keptTo /\ lostEvents' = lostEvents /\ saved' = saved
      /\ keptTo \in 0..Len(events) /\ lostEvents \subseteq DOMAIN events
  BY <1>1 DEF IdNumbers, history
<1>4. ASSUME NEW e \in DOMAIN events, events'[e] = events[e], Of("opened", e)'
      PROVE  /\ events'[e].id[1] = events'[e].at
             /\ e \notin lostEvents => events'[e].id[2] <= seq /\ events'[e].id[2] <= seq'
             /\ e \notin lostEvents /\ e <= keptTo => events'[e].id[2] <= saved[3]
  BY <1>1, <1>2, <1>4 DEF IdNumbers, Of
<1>5. ASSUME NEW e \in DOMAIN events, events'[e] = events[e]
      PROVE  /\ events'[e].life <= restarts'
             /\ events'[e].life = restarts' => events'[e].id[2] <= seq'
  BY <1>1, <1>2, <1>5 DEF IdNumbers
<1>6. CASE UNCHANGED events
  BY <1>1, <1>3, <1>4, <1>6, <1>5 DEF IdNumbers, IdsUnique, Of
<1>7. CASE /\ Grown
           /\ events'[n].life = restarts /\ events'[n].id[2] <= seq'
           /\ events'[n].kind = "opened" =>
                /\ seq' = seq + 1
                /\ events'[n].id[1] = run.at /\ events'[n].id[2] = seq + 1
                /\ events'[n].at = run.at
  <2>1. /\ DOMAIN events' = DOMAIN events \cup {n} /\ n \notin DOMAIN events
        /\ \A e \in DOMAIN events : events'[e] = events[e]
        /\ n = Len(events) + 1 /\ Len(events) \in Nat /\ DOMAIN events = 1..Len(events)
    BY <1>7 DEF Grown
  <2>2. keptTo' \in 0..Len(events')
    BY <1>3, <2>1
  <2>. HIDE DEF n
  <2>3. ASSUME NEW e \in DOMAIN events', Of("opened", e)'
        PROVE  /\ events'[e].id[1] = events'[e].at
               /\ e \notin lostEvents => events'[e].id[2] <= seq'
               /\ e \notin lostEvents /\ e <= keptTo => events'[e].id[2] <= saved[3]
    <3>1. CASE e \in DOMAIN events
      BY <1>4, <2>1, <2>3, <3>1
    <3>2. CASE e = n
      <4>1. events'[n].kind = "opened"
        BY <2>3, <3>2 DEF Of
      <4>. QED BY <1>1, <1>3, <1>7, <2>1, <3>2, <4>1
    <3>. QED BY <2>1, <3>1, <3>2
  <2>4. IdNumbers'
    <3>1. ASSUME NEW e \in DOMAIN events'
          PROVE  /\ events'[e].life <= restarts'
                 /\ events'[e].life = restarts' => events'[e].id[2] <= seq'
      BY <1>1, <1>7, <1>5, <2>1, <3>1
    <3>. QED BY <1>3, <2>1, <2>2, <2>3, <3>1 DEF IdNumbers
  <2>5. ASSUME NEW d \in DOMAIN events', NEW e \in DOMAIN events', d < e,
               Of("opened", d)', Of("opened", e)', events'[d].id = events'[e].id
        PROVE  d \in lostEvents' /\ events'[d].at = events'[e].at
    <3>1. events'[d].at = events'[e].at
      BY <2>3, <2>5
    <3>2. CASE e \in DOMAIN events
      <4>1. d \in DOMAIN events /\ events'[d] = events[d] /\ events'[e] = events[e]
        BY <2>1, <2>5, <3>2
      <4>2. Of("opened", d) /\ Of("opened", e) /\ events[d].id = events[e].id
        BY <2>5, <4>1 DEF Of
      <4>. QED BY <1>3, <2>5, <3>1, <3>2, <4>1, <4>2 DEF IdsUnique
    <3>3. CASE e = n
      <4>1. /\ d \in DOMAIN events /\ events'[d] = events[d]
            /\ events'[n].kind = "opened"
        BY <2>1, <2>5, <3>3 DEF Of
      <4>2. events[d].id[2] = seq + 1
        BY <1>7, <2>5, <3>3, <4>1
      <4>3. d \notin lostEvents => events'[d].id[2] <= seq
        BY <1>4, <2>5, <4>1
      <4>. QED BY <1>1, <1>3, <3>1, <4>1, <4>2, <4>3
    <3>. QED BY <2>1, <3>2, <3>3
  <2>. QED BY <2>4, <2>5 DEF IdsUnique
<1>. QED BY <1>6, <1>7, LoopEvents

LEMMA IdNumbersStep == Types /\ IdNumbers /\ IdsUnique /\ [Next]_vars => IdNumbers' /\ IdsUnique'
<1>. SUFFICES ASSUME Types, IdNumbers, IdsUnique, [Next]_vars
              PROVE  IdNumbers' /\ IdsUnique'
  OBVIOUS
<1>1. CASE Reconcile
  BY <1>1, IdsStep
<1>2. DOMAIN events = 1..Len(events) /\ Len(events) \in Nat
  BY DEF Types
<1>3. CASE Save
  <2>1. /\ saved'[3] = seq /\ keptTo' = Len(events)
        /\ UNCHANGED <<open, resolved, seq, events, lostEvents, restarts>>
    BY <1>3 DEF Save, tracked
  <2>. QED BY <1>2, <2>1 DEF IdNumbers, IdsUnique, Of
<1>4. CASE Restart
  <2>1. /\ seq' = saved[3] /\ lostEvents' = lostEvents \cup {e \in DOMAIN events : e > keptTo}
        /\ restarts' = restarts + 1 /\ UNCHANGED <<saved, events, keptTo>>
    BY <1>4 DEF Restart
  <2>2. \A e \in DOMAIN events : e \notin lostEvents' => e \notin lostEvents /\ e <= keptTo
    BY <1>2, <2>1 DEF IdNumbers
  <2>3. restarts \in Nat /\ \A e \in DOMAIN events : events[e].life \in Nat
    <3>1. \A e \in DOMAIN events : events[e] \in Event
      BY DEF Types
    <3>2. \A e \in Event : e.life \in Nat
      BY BoundsAssumption DEF Event
    <3>. QED BY <3>1, <3>2, BoundsAssumption DEF Types, Control
  <2>4. IdNumbers'
    BY <2>1, <2>2, <2>3 DEF IdNumbers, Of
  <2>5. IdsUnique'
    BY <2>1 DEF IdsUnique, Of
  <2>. QED BY <2>4, <2>5
<1>5. CASE UNCHANGED <<tracked, saved, events, history, restarts>>
  BY <1>5 DEF IdNumbers, IdsUnique, Of, tracked, history
<1>. QED BY <1>1, <1>3, <1>4, <1>5 DEF Next, Tick, Call, Begin, vars

LEMMA IdNumbersAlways == Spec => [](IdNumbers /\ IdsUnique)
<1>1. Init => IdNumbers /\ IdsUnique
  BY DEF Init, IdNumbers, IdsUnique
<1>. QED BY <1>1, TypesAlways, IdNumbersStep, PTL DEF Spec

\* Every variable keeps its type.
THEOREM TypeCorrect == Spec => []TypeOK
<1>1. Types /\ IdNumbers => TypeOK
  BY DEF Types, Control, Tables, Table, RunShape, IdNumbers, TypeOK
<1>. QED BY <1>1, TypesAlways, IdNumbersAlways, PTL

\* An incident that a state file has held keeps its id for good, however often
\* the process is restarted from an older state and however the clock is set:
\* the sequence number restored is beyond the ids that were saved.
THEOREM IdsAlwaysUnique == Spec => []IdsUnique
BY IdNumbersAlways, PTL

-----------------------------------------------------------------------------
(* The clock of an incident.                                               *)

\* Whatever view comes last, an open incident's last activity never goes back.
THEOREM ActivityAlwaysAdvances == Spec => ActivityAdvances
<1>. DEFINE Advances == \A k \in DOMAIN open \cap DOMAIN open' :
                          restarts' = restarts => open[k].active <= open'[k].active
<1>1. ASSUME Types, [Next]_vars
      PROVE  Advances
  <2>1. Table(open, resolved, seq) /\ restarts \in Nat
    BY BoundsAssumption, <1>1 DEF Types, Control, Tables
  <2>2. \A f \in Fresh : f.end \in Int
    BY ViewsAssumption DEF Fresh
  <2>3. \A k \in DOMAIN open : open[k] \in Tracked /\ open[k].active \in Int
    BY <2>1, <2>2 DEF Table, Tracked
  <2>4. ASSUME NEW i \in run.todo, NEW k \in DOMAIN open, Extend(i, k)
        PROVE  Advances
    <3>1. /\ open'[k] = Extended(open[k], run.fresh[i]) /\ run.fresh[i] \in Fresh
          /\ \A l \in DOMAIN open : l # k => open'[l] = open[l]
      BY <1>1, <2>4, ExtendFacts
    <3>2. open'[k].active = IF run.fresh[i].end > open[k].active
                            THEN run.fresh[i].end ELSE open[k].active
      BY <3>1 DEF Extended
    <3>. QED BY <2>2, <2>3, <3>1, <3>2
  <2>5. ASSUME NEW i \in run.todo, OpenNew(i)
        PROVE  Advances
    <3>1. \A l \in DOMAIN open : open'[l] = open[l]
      BY <1>1, <2>5, OpenNewFacts
    <3>. QED BY <2>3, <3>1
  <2>6. ASSUME NEW k \in DOMAIN open, Resolve(k)
        PROVE  Advances
    <3>1. \A l \in DOMAIN open' : open'[l] = open[l]
      BY <1>1, <2>6, ResolveFacts
    <3>. QED BY <2>3, <3>1
  <2>7. CASE UNCHANGED open
    BY <2>3, <2>7
  <2>8. CASE Restart
    BY <2>1, <2>8 DEF Restart
  <2>. QED BY <1>1, <2>4, <2>5, <2>6, <2>7, <2>8
       DEF Next, Tick, Call, Begin, Reconcile, Finish, Save, vars, tracked
<1>. QED BY <1>1, TypesAlways, PTL DEF Spec, ActivityAdvances

-----------------------------------------------------------------------------
(* What the events tell.                                                   *)

\* An event settles whether its incident is open, and says nothing of others.
LEMMA TellStep ==
  ASSUME EventsTellOpen, Grown, restarts' = restarts, NEW k,
         events'[Len(events')].id = k, events'[Len(events')].life = restarts,
         \A l : l # k => (l \in DOMAIN open' <=> l \in DOMAIN open),
         k \in DOMAIN open' <=> events'[Len(events')].kind # "resolved"
  PROVE  EventsTellOpen'
<1>. DEFINE n == Len(events')
<1>1. /\ DOMAIN events' = DOMAIN events \cup {n} /\ n \notin DOMAIN events
      /\ n \in Nat /\ \A e \in DOMAIN events : events'[e] = events[e] /\ e \in Nat /\ e < n
  BY DEF Grown
<1>. HIDE DEF n
<1>2. \A e : e \in LastOf(k)' => e = n
  <2>1. events'[n].id = k /\ n \in DOMAIN events'
    BY <1>1 DEF n
  <2>2. \A e : e \in LastOf(k)' =>
          e \in DOMAIN events' /\ \A d \in DOMAIN events' : events'[d].id = k => d <= e
    BY DEF LastOf
  <2>. QED BY <1>1, <2>1, <2>2
<1>3. \A l : l # k => LastOf(l)' = LastOf(l)
  BY <1>1 DEF LastOf, n
<1>4. \A e \in DOMAIN events : Of("resolved", e)' <=> Of("resolved", e)
  BY <1>1 DEF Of
<1>5. \A e : Of("resolved", e)' <=> events'[e].kind = "resolved"
  BY DEF Of
<1>6. ASSUME NEW l \in DOMAIN open', NEW e \in LastOf(l)'
      PROVE  ~Of("resolved", e)'
  <2>1. CASE l = k
    BY <1>2, <1>5, <1>6, <2>1 DEF n
  <2>2. CASE l # k
    <3>1. l \in DOMAIN open /\ e \in LastOf(l) /\ e \in DOMAIN events
      BY <1>3, <1>6, <2>2 DEF LastOf
    <3>. QED BY <1>4, <3>1 DEF EventsTellOpen
  <2>. QED BY <2>1, <2>2
<1>7. ASSUME NEW e \in DOMAIN events', NEW l, l = events'[e].id,
             e \in LastOf(l)', ~Of("resolved", e)'
      PROVE  l \in DOMAIN open'
  <2>1. CASE l = k
    BY <1>2, <1>5, <1>7, <2>1 DEF n
  <2>2. CASE l # k
    <3>1. e \in LastOf(l) /\ e \in DOMAIN events
      BY SMTT(30), <1>3, <1>7, <2>2 DEF LastOf
    <3>2. l = events[e].id /\ ~Of("resolved", e)
      BY <1>1, <1>4, <1>7, <3>1
    <3>. QED BY <2>2, <3>1, <3>2 DEF EventsTellOpen
  <2>. QED BY <2>1, <2>2
<1>. QED BY <1>6, <1>7 DEF EventsTellOpen

LEMMA TellsStep ==
  Types /\ IdNumbers /\ EventsTellOpen /\ [Next]_vars => EventsTellOpen'
<1>. SUFFICES ASSUME Types, IdNumbers, EventsTellOpen, [Next]_vars
              PROVE  EventsTellOpen'
  OBVIOUS
<1>1. /\ Table(open, resolved, seq) /\ restarts \in Nat
      /\ \A e \in DOMAIN events : events[e] \in Event
  BY BoundsAssumption DEF Types, Control, Tables
<1>2. CASE DOMAIN open' = DOMAIN open /\ UNCHANGED <<events, restarts>>
  BY <1>2 DEF EventsTellOpen, LastOf, Of
<1>3. ASSUME NEW i \in run.todo, OpenNew(i)
      PROVE  EventsTellOpen'
  <2>1. /\ DOMAIN open' = DOMAIN open \cup {NewId}
        /\ Emit("opened", NewId, open'[NewId])
        /\ NewId \in Ids /\ open'[NewId] \in Tracked
    BY <1>3, OpenNewFacts
  <2>2. /\ Grown /\ events'[Len(events')].kind = "opened"
        /\ events'[Len(events')].id = NewId /\ events'[Len(events')].life = restarts
    BY <2>1, EmitFacts
  <2>3. restarts' = restarts
    BY <1>3 DEF OpenNew
  <2>. QED BY <2>1, <2>2, <2>3, TellStep
<1>4. ASSUME NEW i \in run.todo, NEW k \in DOMAIN open, Extend(i, k)
      PROVE  EventsTellOpen'
  <2>1. DOMAIN open' = DOMAIN open /\ open'[k] \in Tracked /\ k \in Ids
    BY <1>1, <1>4, ExtendFacts DEF Table
  <2>2. restarts' = restarts /\ (Emit("escalated", k, open'[k]) \/ UNCHANGED events)
    BY <1>4 DEF Extend
  <2>3. CASE Emit("escalated", k, open'[k])
    <3>1. /\ Grown /\ events'[Len(events')].kind = "escalated"
          /\ events'[Len(events')].id = k /\ events'[Len(events')].life = restarts
      BY <2>1, <2>3, EmitFacts
    <3>. QED BY <2>1, <2>2, <3>1, TellStep
  <2>. QED BY <1>2, <2>1, <2>2, <2>3
<1>5. ASSUME NEW k \in DOMAIN open, Resolve(k)
      PROVE  EventsTellOpen'
  <2>1. /\ DOMAIN open' = DOMAIN open \ {k} /\ open[k] \in Tracked /\ k \in Ids
        /\ Emit("resolved", k, open[k])
    BY <1>1, <1>5, ResolveFacts DEF Table
  <2>2. /\ Grown /\ events'[Len(events')].kind = "resolved"
        /\ events'[Len(events')].id = k /\ events'[Len(events')].life = restarts
    BY <2>1, EmitFacts
  <2>3. restarts' = restarts
    BY <1>5 DEF Resolve
  <2>. QED BY <2>1, <2>2, <2>3, TellStep
<1>6. CASE Restart
  <2>1. restarts' = restarts + 1 /\ UNCHANGED events
    BY <1>6 DEF Restart
  <2>2. \A e \in DOMAIN events : events[e].life \in Nat /\ events[e].life <= restarts
    BY <1>1, BoundsAssumption DEF IdNumbers, Event
  <2>3. \A l : LastOf(l)' = {}
    BY <1>1, <2>1, <2>2 DEF LastOf
  <2>. QED BY <2>3 DEF EventsTellOpen
<1>. QED BY <1>2, <1>3, <1>4, <1>5, <1>6
     DEF Next, Tick, Call, Begin, Reconcile, Finish, Save, vars, tracked

\* Between two restarts the receiver of the events knows exactly what is open.
THEOREM EventsAlwaysTellOpen == Spec => []EventsTellOpen
<1>1. Init => IdNumbers /\ IdsUnique
  BY DEF Init, IdNumbers, IdsUnique, Free
<1>2. Init => EventsTellOpen
  BY DEF Init, EventsTellOpen, LastOf
<1>. QED BY <1>1, <1>2, TypesAlways, IdNumbersStep, TellsStep, PTL DEF Spec

-----------------------------------------------------------------------------
(* Escalation.                                                             *)

\* What was told of an open incident is not above the band it has reached.
Told ==
  \A e \in DOMAIN events :
    events[e].life = restarts /\ events[e].id \in DOMAIN open
      => SeverityBand(events[e].peak) <= SeverityBand(open[events[e].id].peak)

LEMMA BandFacts ==
  /\ \A s : SeverityBand(s) \in 0..2
  /\ \A s, t \in Int : s <= t => SeverityBand(s) <= SeverityBand(t)
BY DEF SeverityBand

LEMMA ExtendUpwards ==
  ASSUME Types, Told, EscalatesUpwards,
         NEW i \in run.todo, NEW k \in DOMAIN open, Extend(i, k)
  PROVE  Told' /\ EscalatesUpwards'
<1>. DEFINE n == Len(events')
<1>1. /\ DOMAIN open' = DOMAIN open /\ open[k] \in Tracked /\ open'[k] \in Tracked
      /\ open'[k] = Extended(open[k], run.fresh[i]) /\ run.fresh[i] \in Fresh
      /\ \A l \in DOMAIN open : l # k => open'[l] = open[l]
      /\ k \in Ids
  BY ExtendFacts DEF Types, Tables, Table
<1>2. \A f \in Fresh : f.score \in Int
  BY ViewsAssumption DEF Fresh
<1>3. open[k].peak \in Int /\ open'[k].peak \in Int /\ run.fresh[i].score \in Int
  BY <1>1, <1>2 DEF Tracked
<1>4. open[k].peak <= open'[k].peak
  BY <1>1, <1>3 DEF Extended
<1>5. /\ SeverityBand(open[k].peak) <= SeverityBand(open'[k].peak)
      /\ \A s : SeverityBand(s) \in Int
  BY <1>3, <1>4, BandFacts
<1>6. /\ restarts' = restarts
      /\ IF SeverityBand(open'[k].peak) > SeverityBand(open[k].peak)
         THEN Emit("escalated", k, open'[k]) ELSE UNCHANGED events
  BY DEF Extend
<1>7. ASSUME NEW e \in DOMAIN events, events[e].life = restarts,
             events[e].id \in DOMAIN open
      PROVE  SeverityBand(events[e].peak) <= SeverityBand(open'[events[e].id].peak)
  <2>1. SeverityBand(events[e].peak) <= SeverityBand(open[events[e].id].peak)
    BY <1>7 DEF Told
  <2>2. CASE events[e].id = k
    BY <1>5, <2>1, <2>2
  <2>3. CASE events[e].id # k
    BY <1>1, <1>7, <2>1, <2>3
  <2>. QED BY <2>2, <2>3
<1>8. CASE UNCHANGED events
  BY <1>1, <1>6, <1>7, <1>8 DEF Told, EscalatesUpwards, Of
<1>9. CASE /\ Emit("escalated", k, open'[k])
           /\ SeverityBand(open'[k].peak) > SeverityBand(open[k].peak)
  <2>1. /\ Grown /\ events'[n].kind = "escalated" /\ events'[n].id = k
        /\ events'[n].peak = open'[k].peak /\ events'[n].life = restarts
    BY <1>1, <1>9, EmitFacts
  <2>2. /\ DOMAIN events' = DOMAIN events \cup {n} /\ n \notin DOMAIN events
        /\ n \in Nat
        /\ \A e \in DOMAIN events : events'[e] = events[e] /\ e \in Nat /\ e < n
    BY <2>1 DEF Grown
  <2>. HIDE DEF n
  <2>3. Told'
    BY <1>1, <1>5, <1>6, <1>7, <2>1, <2>2 DEF Told
  <2>4. \A e \in DOMAIN events : events[e].life = restarts /\ events[e].id = k
          => SeverityBand(events[e].peak) < SeverityBand(events'[n].peak)
    <3>1. \A e \in DOMAIN events : events[e].life = restarts /\ events[e].id = k
          => SeverityBand(events[e].peak) <= SeverityBand(open[k].peak)
      BY DEF Told
    <3>. QED BY <1>5, <1>9, <2>1, <3>1
  <2>5. EscalatesUpwards'
    <3>. SUFFICES ASSUME NEW d \in DOMAIN events', NEW e \in DOMAIN events',
                         d < e, events'[d].id = events'[e].id,
                         events'[d].life = events'[e].life,
                         events'[e].kind = "escalated"
                  PROVE  SeverityBand(events'[d].peak) < SeverityBand(events'[e].peak)
      BY DEF EscalatesUpwards, Of
    <3>1. CASE e \in DOMAIN events
      <4>1. d \in DOMAIN events
        BY <2>2, <3>1
      <4>. QED BY <2>2, <3>1, <4>1 DEF EscalatesUpwards, Of
    <3>2. CASE e = n
      <4>1. d \in DOMAIN events
        BY <2>2, <3>2
      <4>. QED BY <2>1, <2>2, <2>4, <3>2, <4>1
    <3>. QED BY <2>2, <3>1, <3>2
  <2>. QED BY <2>3, <2>5
<1>. QED BY <1>5, <1>6, <1>8, <1>9

\* An event of another kind comes after all escalations.
LEMMA UpwardsKept ==
  ASSUME EscalatesUpwards, Grown, events'[Len(events')].kind # "escalated"
  PROVE  EscalatesUpwards'
<1>. DEFINE n == Len(events')
<1>1. /\ DOMAIN events' = DOMAIN events \cup {n} /\ n \in Nat
      /\ \A e \in DOMAIN events : events'[e] = events[e] /\ e \in Nat /\ e < n
      /\ events'[n].kind # "escalated"
  BY DEF Grown
<1>. HIDE DEF n
<1>. SUFFICES ASSUME NEW d \in DOMAIN events', NEW e \in DOMAIN events',
                     d < e, events'[d].id = events'[e].id,
                     events'[d].life = events'[e].life,
                     events'[e].kind = "escalated"
              PROVE  SeverityBand(events'[d].peak) < SeverityBand(events'[e].peak)
  BY DEF EscalatesUpwards, Of
<1>2. e \in DOMAIN events
  BY <1>1
<1>3. d \in DOMAIN events
  BY <1>1, <1>2
<1>. QED BY <1>1, <1>2, <1>3 DEF EscalatesUpwards, Of

LEMMA UpwardsStep ==
  Types /\ IdNumbers /\ Told /\ EscalatesUpwards /\ [Next]_vars
    => Told' /\ EscalatesUpwards'
<1>. SUFFICES ASSUME Types, IdNumbers, Told, EscalatesUpwards, [Next]_vars
              PROVE  Told' /\ EscalatesUpwards'
  OBVIOUS
<1>. DEFINE n == Len(events')
<1>1. /\ Table(open, resolved, seq) /\ seq \in Nat /\ restarts \in Nat
      /\ \A e \in DOMAIN events : events[e] \in Event
  BY BoundsAssumption DEF Types, Control, Tables, Table
<1>2. \A e \in DOMAIN events :
        /\ events[e].life \in Nat /\ events[e].life <= restarts
        /\ events[e].id[2] \in Nat
        /\ events[e].life = restarts => events[e].id[2] <= seq
  BY <1>1, BoundsAssumption DEF IdNumbers, Event, Ids
<1>3. \A s : SeverityBand(s) <= SeverityBand(s)
  BY BandFacts
<1>4. ASSUME NEW i \in run.todo, OpenNew(i)
      PROVE  Told' /\ EscalatesUpwards'
  <2>. DEFINE id == NewId
  <2>1. /\ DOMAIN open' = DOMAIN open \cup {id} /\ id[2] = seq + 1 /\ id \in Ids
        /\ \A l \in DOMAIN open : open'[l] = open[l]
        /\ open'[id] \in Tracked /\ Emit("opened", id, open'[id])
    BY <1>4, OpenNewFacts
  <2>. HIDE DEF id
  <2>2. /\ Grown /\ events'[n].kind = "opened" /\ events'[n].id = id
        /\ events'[n].peak = open'[id].peak /\ events'[n].life = restarts
    BY <2>1, EmitFacts
  <2>3. /\ DOMAIN events' = DOMAIN events \cup {n}
        /\ \A e \in DOMAIN events : events'[e] = events[e]
    BY <2>2 DEF Grown
  <2>4. restarts' = restarts
    BY <1>4 DEF OpenNew
  <2>. HIDE DEF n
  <2>5. \A e \in DOMAIN events : events[e].life = restarts => events[e].id # id
    BY <1>1, <1>2, <2>1
  <2>6. Told'
    BY <1>3, <2>1, <2>2, <2>3, <2>4, <2>5 DEF Told
  <2>. QED BY <2>2, <2>6, UpwardsKept DEF n
<1>5. ASSUME NEW k \in DOMAIN open, Resolve(k)
      PROVE  Told' /\ EscalatesUpwards'
  <2>1. /\ DOMAIN open' = DOMAIN open \ {k} /\ open[k] \in Tracked /\ k \in Ids
        /\ \A l \in DOMAIN open' : open'[l] = open[l]
        /\ Emit("resolved", k, open[k])
    BY <1>1, <1>5, ResolveFacts DEF Table
  <2>2. /\ Grown /\ events'[n].kind = "resolved" /\ events'[n].id = k
    BY <2>1, EmitFacts
  <2>3. /\ DOMAIN events' = DOMAIN events \cup {n}
        /\ \A e \in DOMAIN events : events'[e] = events[e]
    BY <2>2 DEF Grown
  <2>4. restarts' = restarts
    BY <1>5 DEF Resolve
  <2>. HIDE DEF n
  <2>5. Told'
    BY <2>1, <2>2, <2>3, <2>4 DEF Told
  <2>. QED BY <2>2, <2>5, UpwardsKept DEF n
<1>6. CASE Restart
  <2>1. restarts' = restarts + 1 /\ UNCHANGED events
    BY <1>6 DEF Restart
  <2>2. \A e \in DOMAIN events : events[e].life # restarts'
    BY <1>1, <1>2, <2>1
  <2>. QED BY <2>1, <2>2 DEF Told, EscalatesUpwards, Of
<1>7. CASE UNCHANGED <<open, events, restarts>>
  BY <1>7 DEF Told, EscalatesUpwards, Of
<1>. QED BY <1>4, <1>5, <1>6, <1>7, ExtendUpwards
     DEF Next, Tick, Call, Begin, Reconcile, Finish, Save, vars, tracked

\* Each escalation that is told is to a band above all that was told of the
\* incident in this life.
THEOREM EscalatesAlwaysUpwards == Spec => []EscalatesUpwards
<1>1. Init => IdNumbers /\ IdsUnique
  BY DEF Init, IdNumbers, IdsUnique, Free
<1>2. Init => Told /\ EscalatesUpwards
  BY DEF Init, Told, EscalatesUpwards
<1>. QED BY <1>1, <1>2, TypesAlways, IdNumbersStep, UpwardsStep, PTL DEF Spec

-----------------------------------------------------------------------------
(* Matching.                                                               *)

Fraction(p) == p[1] \in Nat /\ p[2] \in Nat \ {0}

LEMMA OverlapFraction ==
  ASSUME NEW a, NEW b, IsFiniteSet(a), IsFiniteSet(b)
  PROVE  Fraction(Overlap(a, b))
<1>1. CASE a = {} \/ b = {}
  BY <1>1 DEF Overlap, NoOverlap, Fraction
<1>2. CASE a # {} /\ b # {}
  <2>1. IsFiniteSet(a \cap b)
    BY FS_Intersection
  <2>2. Cardinality(a \cap b) \in Nat /\ Cardinality(a) \in Nat /\ Cardinality(b) \in Nat
    BY <2>1, FS_CardinalityType
  <2>3. Cardinality(a) # 0 /\ Cardinality(b) # 0
    BY <1>2, FS_EmptySet
  <2>4. Smaller(Cardinality(a), Cardinality(b)) \in Nat \ {0}
    BY <2>2, <2>3 DEF Smaller
  <2>. QED BY <1>2, <2>2, <2>4 DEF Overlap, Fraction
<1>. QED BY <1>1, <1>2

\* Fractions are compared by cross multiplication, which is a total order.
LEMMA LessTrans ==
  ASSUME NEW p, NEW q, NEW r, Fraction(p), Fraction(q), Fraction(r),
         ~Less(q, p), ~Less(r, q)
  PROVE  ~Less(r, p) /\ (~Less(p, q) /\ ~Less(q, r) => ~Less(p, r))
<1>. DEFINE a == p[1]  b == p[2]  c == q[1]  d == q[2]  e == r[1]  f == r[2]
<1>1. /\ a \in Nat /\ b \in Nat /\ c \in Nat /\ d \in Nat /\ e \in Nat /\ f \in Nat
      /\ b > 0 /\ d > 0 /\ f > 0
      /\ a * d <= c * b /\ c * f <= e * d
  BY DEF Fraction, Less
<1>2. ASSUME NEW x \in Nat, NEW y \in Nat, NEW z \in Nat, z > 0, x * z <= y * z
      PROVE  x <= y
  BY <1>2
<1>3. ASSUME NEW u1 \in Nat, NEW u2 \in Nat, NEW v1 \in Nat, NEW v2 \in Nat,
             NEW w1 \in Nat, NEW w2 \in Nat, u2 > 0, v2 > 0, w2 > 0,
             u1 * v2 <= v1 * u2, v1 * w2 <= w1 * v2
      PROVE  u1 * w2 <= w1 * u2
  <2>1. (u1 * v2) * w2 <= (v1 * u2) * w2 /\ (v1 * w2) * u2 <= (w1 * v2) * u2
    BY <1>3
  <2>2. /\ (u1 * v2) * w2 = (u1 * w2) * v2 /\ (v1 * u2) * w2 = (v1 * w2) * u2
        /\ (w1 * v2) * u2 = (w1 * u2) * v2
    BY <1>3
  <2>3. /\ u1 * w2 \in Nat /\ w1 * u2 \in Nat
        /\ (u1 * v2) * w2 \in Nat /\ (v1 * u2) * w2 \in Nat /\ (w1 * v2) * u2 \in Nat
    BY <1>3
  <2>4. (u1 * w2) * v2 <= (w1 * u2) * v2
    BY <2>1, <2>2, <2>3
  <2>. QED BY <1>2, <1>3, <2>3, <2>4
<1>4. a * f <= e * b
  BY <1>1, <1>3
<1>5. ASSUME ~Less(p, q), ~Less(q, r)
      PROVE  ~Less(p, r)
  <2>1. c * b <= a * d /\ e * d <= c * f
    BY <1>1, <1>5 DEF Less
  <2>2. e * b <= a * f
    BY <1>1, <1>3, <2>1
  <2>. QED BY <1>1, <2>2 DEF Less
<1>. QED BY <1>1, <1>4, <1>5 DEF Less

LEMMA WithFraction ==
  ASSUME Types, NEW f \in Fresh, NEW k \in DOMAIN open
  PROVE  Fraction(With(f, k)) /\ k \in Ids
<1>1. k \in Ids /\ open[k].inc \in Fresh
  BY DEF Types, Tables, Table, Tracked
<1>2. \A g \in Fresh : IsFiniteSet(g.ents)
  BY ViewsAssumption DEF Fresh
<1>. QED BY <1>1, <1>2, OverlapFraction DEF With

\* AsGood is a total preorder of the open ids, and equal ones are the same.
LEMMA AsGoodOrder ==
  ASSUME Types, NEW f \in Fresh,
         NEW k \in DOMAIN open, NEW l \in DOMAIN open, NEW m \in DOMAIN open
  PROVE  /\ AsGood(f, k, l) \/ AsGood(f, l, k)
         /\ AsGood(f, k, l) /\ AsGood(f, l, k) => k = l
         /\ AsGood(f, k, l) /\ AsGood(f, l, m) => AsGood(f, k, m)
<1>. DEFINE p == With(f, k)  q == With(f, l)  r == With(f, m)
<1>1. /\ Fraction(p) /\ Fraction(q) /\ Fraction(r)
      /\ k \in Ids /\ l \in Ids /\ m \in Ids
  BY WithFraction
<1>2. /\ KeyBefore(k, l) => ~KeyBefore(l, k)
      /\ ~KeyBefore(k, l) /\ ~KeyBefore(l, k) => k = l
      /\ ~KeyBefore(l, k) /\ ~KeyBefore(m, l) => ~KeyBefore(m, k)
  <2>1. /\ k = <<k[1], k[2]>> /\ l = <<l[1], l[2]>> /\ m = <<m[1], m[2]>>
        /\ k[1] \in Nat /\ k[2] \in Nat /\ l[1] \in Nat /\ l[2] \in Nat
        /\ m[1] \in Nat /\ m[2] \in Nat
    BY <1>1, BoundsAssumption DEF Ids
  <2>. QED BY <2>1 DEF KeyBefore
<1>3. /\ AsGood(f, k, l) <=> Less(q, p) \/ (~Less(p, q) /\ ~KeyBefore(l, k))
      /\ AsGood(f, l, k) <=> Less(p, q) \/ (~Less(q, p) /\ ~KeyBefore(k, l))
      /\ AsGood(f, l, m) <=> Less(r, q) \/ (~Less(q, r) /\ ~KeyBefore(m, l))
      /\ AsGood(f, k, m) <=> Less(r, p) \/ (~Less(p, r) /\ ~KeyBefore(m, k))
  BY DEF AsGood
<1>. HIDE DEF p, q, r
<1>4. /\ ~(Less(p, q) /\ Less(q, p)) /\ ~(Less(q, r) /\ Less(r, q))
      /\ ~(Less(p, r) /\ Less(r, p))
  <2>1. \A x, y \in Int : ~(x < y /\ y < x)
    OBVIOUS
  <2>2. /\ p[1] * q[2] \in Int /\ q[1] * p[2] \in Int /\ q[1] * r[2] \in Int
        /\ r[1] * q[2] \in Int /\ p[1] * r[2] \in Int /\ r[1] * p[2] \in Int
    BY <1>1 DEF Fraction
  <2>. QED BY <2>1, <2>2 DEF Less
<1>5. AsGood(f, k, l) \/ AsGood(f, l, k)
  BY <1>2, <1>3
<1>6. AsGood(f, k, l) /\ AsGood(f, l, k) => k = l
  BY <1>2, <1>3, <1>4
<1>7. ASSUME AsGood(f, k, l), AsGood(f, l, m)
      PROVE  AsGood(f, k, m)
  <2>1. ~Less(p, q) /\ ~Less(q, r)
    BY <1>3, <1>4, <1>7
  <2>2. ~Less(p, r)
    BY <1>1, <2>1, LessTrans
  <2>3. CASE Less(r, p)
    BY <1>3, <2>3
  <2>4. CASE ~Less(r, p)
    <3>1. ~Less(r, q)
      BY <1>1, <2>1, <2>4, LessTrans
    <3>2. ~Less(q, p)
      BY <1>1, <2>1, <2>4, LessTrans
    <3>. QED BY <1>2, <1>3, <1>7, <2>2, <3>1, <3>2
  <2>. QED BY <2>3, <2>4
<1>. QED BY <1>5, <1>6, <1>7

\* If anything matches, there is a best match, and only one.
LEMMA BestMatchExists ==
  ASSUME Types, NEW f \in Fresh, NEW used, Matches(f, used) # {}
  PROVE  BestMatch(f, used) # {}
<1>. DEFINE M == Matches(f, used)
            Up(k) == {l \in M : AsGood(f, l, k)}
            T == {Up(k) : k \in M}
<1>1. M \subseteq DOMAIN open /\ IsFiniteSet(DOMAIN open) /\ M # {}
  BY DEF Matches, Types, Tables, Table
<1>2. IsFiniteSet(M)
  BY <1>1, FS_Subset
<1>3. BestMatch(f, used) = {k \in M : \A l \in M : AsGood(f, k, l)}
  BY DEF BestMatch
<1>. HIDE DEF M
<1>4. T \subseteq FiniteSubsetsOf(M)
  <2>1. ASSUME NEW k \in M
        PROVE  Up(k) \in FiniteSubsetsOf(M)
    <3>1. Up(k) \subseteq M
      OBVIOUS
    <3>2. IsFiniteSet(Up(k))
      BY <1>2, <3>1, FS_Subset
    <3>. QED BY <3>1, <3>2 DEF FiniteSubsetsOf
  <2>. QED BY <2>1
<1>5. T # {}
  BY <1>1
<1>6. IsWellFoundedOn(StrictSubsetOrdering(M), FiniteSubsetsOf(M))
  BY FS_StrictSubsetOrderingWellFounded
<1>7. PICK U \in T : \A V \in T : ~(<<V, U>> \in StrictSubsetOrdering(M))
  BY <1>4, <1>5, <1>6, WFMin
<1>8. PICK k \in M : U = Up(k)
  BY <1>7
<1>9. ASSUME NEW l \in M
      PROVE  AsGood(f, k, l)
  <2>1. SUFFICES ASSUME ~AsGood(f, k, l)
                 PROVE  FALSE
    OBVIOUS
  <2>2. AsGood(f, l, k)
    BY <1>1, <2>1, AsGoodOrder
  <2>3. \A m \in M : AsGood(f, m, l) => AsGood(f, m, k)
    BY <1>1, <2>2, AsGoodOrder
  <2>4. AsGood(f, k, k)
    BY <1>1, AsGoodOrder
  <2>5. Up(l) \subseteq Up(k) /\ k \in Up(k) /\ k \notin Up(l) /\ Up(k) \subseteq M
    BY <2>1, <2>3, <2>4
  <2>6. <<Up(l), Up(k)>> \in StrictSubsetOrdering(M)
    BY <2>5 DEF StrictSubsetOrdering
  <2>. QED BY <1>7, <1>8, <2>6
<1>. QED BY <1>3, <1>9

LEMMA BestMatchOne ==
  ASSUME Types, NEW f \in Fresh, NEW used,
         NEW k \in BestMatch(f, used), NEW l \in BestMatch(f, used)
  PROVE  k = l /\ k \in DOMAIN open /\ k \notin used
<1>1. /\ k \in DOMAIN open /\ l \in DOMAIN open /\ k \notin used
      /\ AsGood(f, k, l) /\ AsGood(f, l, k)
  BY DEF BestMatch, Matches
<1>. QED BY <1>1, AsGoodOrder

\* While a call runs: a fresh incident was paired with one open incident at the
\* most, what the call opened it has marked as used, and that overlapped with
\* nothing that is not used.
OnePick ==
  \A i \in DOMAIN run.fresh : \A k, l \in run.pick[i].key :
    k = l /\ k \in Ids

Apart(k, l) == ~Enough(Overlap(open[k].inc.ents, open[l].inc.ents))

Unmatched ==
  /\ OnePick
  /\ run.busy => \A k : OpenedHere(k) =>
       k \in run.used /\ \A l \in DOMAIN open \ run.used : Apart(k, l)

\* The key that an iteration continues is not used yet.
LEMMA KeyUnused ==
  ASSUME Types, OnePick, NEW i \in DOMAIN run.fresh, NEW k \in Key(i)
  PROVE  k \notin run.used
<1>1. run.fresh[i] \in Fresh
  BY FreshFacts DEF Types, Control, RunShape
<1>2. CASE run.pick[i].key = {} \/ run.pick[i].key \subseteq run.used
  <2>1. k \in BestMatch(run.fresh[i], run.used)
    BY <1>2 DEF Key
  <2>. QED BY <1>1, <2>1, BestMatchOne
<1>3. CASE ~(run.pick[i].key = {} \/ run.pick[i].key \subseteq run.used)
  <2>1. k \in run.pick[i].key
    BY <1>3 DEF Key
  <2>2. \A l \in run.pick[i].key : l = k
    BY <2>1 DEF OnePick
  <2>. QED BY <1>3, <2>2
<1>. QED BY <1>2, <1>3

\* A fresh incident that opens a new one overlaps with nothing left.
LEMMA NothingLeft ==
  ASSUME Types, NEW i \in DOMAIN run.fresh, Key(i) = {},
         NEW l \in DOMAIN open \ run.used
  PROVE  ~Enough(Overlap(run.fresh[i].ents, open[l].inc.ents))
<1>1. run.fresh[i] \in Fresh
  BY FreshFacts DEF Types, Control, RunShape
<1>2. BestMatch(run.fresh[i], run.used) = {}
  BY DEF Key
<1>3. Matches(run.fresh[i], run.used) = {}
  BY <1>1, <1>2, BestMatchExists
<1>. QED BY <1>3 DEF Matches, With

\* Other events do not open.
LEMMA OpenedKept ==
  ASSUME Types, Grown, events'[Len(events')].kind # "opened", run'.from = run.from,
         NEW m, OpenedHere(m)'
  PROVE  OpenedHere(m)
<1>. DEFINE n == Len(events')
<1>1. /\ n = Len(events) + 1 /\ Len(events) \in Nat /\ DOMAIN events = 1..Len(events)
      /\ \A e \in DOMAIN events : events'[e] = events[e]
      /\ events'[n].kind # "opened"
  BY DEF Grown
<1>2. \E e \in run.from..n : events'[e].id = m /\ events'[e].kind = "opened"
  BY DEF OpenedHere, Of
<1>. HIDE DEF n
<1>3. PICK e \in run.from..n : events'[e].id = m /\ events'[e].kind = "opened"
  BY <1>2
<1>4. e \in run.from..Len(events) /\ e \in DOMAIN events
  BY <1>1, <1>3 DEF Types, Control, RunShape
<1>. QED BY <1>1, <1>3, <1>4 DEF OpenedHere, Of

LEMMA MatchingStep == Types /\ Unmatched /\ [Next]_vars => Unmatched'
<1>. SUFFICES ASSUME Types, Unmatched, [Next]_vars
              PROVE  Unmatched'
  OBVIOUS
<1>. DEFINE n == Len(events')
<1>1. /\ RunShape(run) /\ Table(open, resolved, seq) /\ run.used \subseteq DOMAIN open
      /\ run.from \in Nat /\ events \in Seq(Event)
  BY DEF Types, Control, Tables, RunShape
<1>2. ASSUME NEW i \in run.todo, OpenNew(i)
      PROVE  Unmatched'
  <2>. DEFINE id == NewId
  <2>1. /\ i \in DOMAIN run.fresh /\ id \notin DOMAIN open /\ id \in Ids
        /\ DOMAIN open' = DOMAIN open \cup {id}
        /\ \A l \in DOMAIN open : open'[l] = open[l]
        /\ open'[id] = [inc |-> run.fresh[i], peak |-> run.fresh[i].score,
                        active |-> run.fresh[i].end]
        /\ open'[id] \in Tracked /\ Paired(i, id) /\ Emit("opened", id, open'[id])
    BY <1>2, OpenNewFacts
  <2>2. Key(i) = {} /\ run.busy
    BY <1>2 DEF OpenNew, Turn
  <2>. HIDE DEF id
  <2>3. /\ run'.busy = run.busy /\ run'.fresh = run.fresh /\ run'.pick = run.pick
        /\ run'.from = run.from /\ run'.used = run.used \cup {id}
    BY <1>1, <2>1, PairedRun
  <2>4. /\ Grown /\ events'[n].id = id
    BY <2>1, EmitFacts
  <2>5. /\ n = Len(events) + 1 /\ Len(events) \in Nat /\ DOMAIN events = 1..Len(events)
        /\ \A e \in DOMAIN events : events'[e] = events[e]
    BY <2>4 DEF Grown
  <2>. HIDE DEF n
  <2>6. \A k : OpenedHere(k)' => k = id \/ OpenedHere(k)
    <3>1. \A k : OpenedHere(k)' =>
            \E e \in run.from..n : events'[e].id = k /\ events'[e].kind = "opened"
      BY <2>3 DEF OpenedHere, Of, n
    <3>2. ASSUME NEW k, NEW e \in run.from..n,
                 events'[e].id = k, events'[e].kind = "opened", k # id
          PROVE  OpenedHere(k)
      <4>1. e \in run.from..Len(events) /\ e \in DOMAIN events
        BY <1>1, <2>4, <2>5, <3>2 DEF Types, Control, RunShape
      <4>. QED BY <2>5, <3>2, <4>1 DEF OpenedHere, Of
    <3>. QED BY <3>1, <3>2
  <2>7. \A l \in DOMAIN open' \ run'.used : l \in DOMAIN open \ run.used /\ open'[l] = open[l]
    BY <2>1, <2>3
  <2>8. ASSUME NEW k, OpenedHere(k)', NEW l \in DOMAIN open' \ run'.used
        PROVE  k \in run'.used /\ ~Enough(Overlap(open'[k].inc.ents, open'[l].inc.ents))
    <3>1. CASE k = id
      <4>1. open'[k].inc.ents = run.fresh[i].ents
        BY <2>1, <3>1
      <4>2. ~Enough(Overlap(run.fresh[i].ents, open[l].inc.ents))
        BY <2>1, <2>2, <2>7, NothingLeft
      <4>. QED BY <2>3, <2>7, <3>1, <4>1, <4>2
    <3>2. CASE OpenedHere(k)
      <4>1. k \in run.used /\ Apart(k, l)
        BY <2>2, <2>7, <3>2 DEF Unmatched
      <4>2. k \in DOMAIN open /\ open'[k] = open[k]
        BY <1>1, <2>1, <4>1
      <4>. QED BY <2>3, <2>7, <4>1, <4>2 DEF Apart
    <3>. QED BY <2>6, <2>8, <3>1, <3>2
  <2>9. \A k : OpenedHere(k)' => k \in run'.used
    BY <2>2, <2>3, <2>6 DEF Unmatched
  <2>10. OnePick'
    BY <2>3 DEF Unmatched, OnePick
  <2>. QED BY <2>8, <2>9, <2>10 DEF Unmatched, Apart
<1>3. ASSUME NEW i \in run.todo, NEW k \in DOMAIN open, Extend(i, k)
      PROVE  Unmatched'
  <2>1. /\ i \in DOMAIN run.fresh /\ DOMAIN open' = DOMAIN open
        /\ \A l \in DOMAIN open : l # k => open'[l] = open[l]
        /\ open'[k] \in Tracked /\ Paired(i, k) /\ k \in Ids
    BY <1>1, <1>3, ExtendFacts DEF Table
  <2>2. /\ k \in Key(i) /\ run.busy
        /\ Emit("escalated", k, open'[k]) \/ UNCHANGED events
    BY <1>3 DEF Extend, Turn
  <2>3. k \notin run.used
    BY <2>1, <2>2, KeyUnused DEF Unmatched
  <2>4. /\ run'.busy = run.busy /\ run'.fresh = run.fresh /\ run'.pick = run.pick
        /\ run'.from = run.from /\ run'.used = run.used \cup {k}
    BY <1>1, <2>1, PairedRun
  <2>5. \A m : OpenedHere(m)' => OpenedHere(m)
    <3>1. CASE UNCHANGED events
      BY <2>4, <3>1 DEF OpenedHere, Of
    <3>2. CASE Emit("escalated", k, open'[k])
      <4>1. Grown /\ events'[n].kind = "escalated"
        BY <2>1, <3>2, EmitFacts
      <4>. QED BY <2>4, <4>1, OpenedKept
    <3>. QED BY <2>2, <3>1, <3>2
  <2>6. ASSUME NEW m, OpenedHere(m)', NEW l \in DOMAIN open' \ run'.used
        PROVE  ~Enough(Overlap(open'[m].inc.ents, open'[l].inc.ents))
    <3>1. l \in DOMAIN open \ run.used /\ l # k
      BY <2>1, <2>4
    <3>2. m \in run.used /\ Apart(m, l)
      BY <2>2, <2>5, <2>6, <3>1 DEF Unmatched
    <3>3. m \in DOMAIN open /\ m # k
      BY <1>1, <2>3, <3>2
    <3>4. open'[m] = open[m] /\ open'[l] = open[l]
      BY <2>1, <3>1, <3>3
    <3>. QED BY <3>2, <3>4 DEF Apart
  <2>7. \A m : OpenedHere(m)' => m \in run'.used
    BY <2>2, <2>4, <2>5 DEF Unmatched
  <2>8. OnePick'
    BY <2>4 DEF Unmatched, OnePick
  <2>. QED BY <2>6, <2>7, <2>8 DEF Unmatched, Apart
<1>4. ASSUME NEW k \in DOMAIN open, Resolve(k)
      PROVE  Unmatched'
  <2>1. /\ DOMAIN open' = DOMAIN open \ {k} /\ k \notin run.used
        /\ \A l \in DOMAIN open' : open'[l] = open[l]
        /\ open[k] \in Tracked /\ k \in Ids /\ Emit("resolved", k, open[k])
    BY <1>1, <1>4, ResolveFacts DEF Table
  <2>2. Grown /\ events'[n].kind = "resolved"
    BY <2>1, EmitFacts
  <2>3. run' = run /\ run.busy
    BY <1>4 DEF Resolve
  <2>4. \A m : OpenedHere(m)' => OpenedHere(m)
    BY <2>2, <2>3, OpenedKept
  <2>5. ASSUME NEW m, OpenedHere(m)', NEW l \in DOMAIN open' \ run'.used
        PROVE  ~Enough(Overlap(open'[m].inc.ents, open'[l].inc.ents))
    <3>1. l \in DOMAIN open \ run.used
      BY <2>1, <2>3
    <3>2. m \in run.used /\ Apart(m, l)
      BY <2>3, <2>4, <2>5, <3>1 DEF Unmatched
    <3>3. open'[m] = open[m] /\ open'[l] = open[l]
      BY <1>1, <2>1, <3>2
    <3>. QED BY <3>2, <3>3 DEF Apart
  <2>6. \A m : OpenedHere(m)' => m \in run'.used
    BY <2>3, <2>4 DEF Unmatched
  <2>7. OnePick'
    BY <2>3 DEF Unmatched, OnePick
  <2>. QED BY <2>5, <2>6, <2>7 DEF Unmatched, Apart
<1>5. ASSUME NEW c \in Callers, Begin(c)
      PROVE  Unmatched'
  <2>1. PICK w \in waiting[c] :
          run' = [busy |-> TRUE, at |-> w.at, fresh |-> w.fresh,
               pick |-> [i \in DOMAIN w.fresh |-> Pairing(w.fresh[i])],
               todo |-> DOMAIN w.fresh, used |-> {}, from |-> Len(events) + 1]
    BY <1>5 DEF Begin
  <2>2. /\ run'.fresh = w.fresh /\ run'.from = Len(events) + 1
        /\ run'.pick = [i \in DOMAIN w.fresh |-> Pairing(w.fresh[i])]
        /\ w.fresh \in Views /\ UNCHANGED events /\ Len(events) \in Nat
    BY <1>1, <1>5, <2>1 DEF Begin, Types, Control
  <2>3. \A m : ~OpenedHere(m)'
    BY <2>2 DEF OpenedHere
  <2>4. OnePick'
    <3>. SUFFICES ASSUME NEW i \in DOMAIN w.fresh,
                         NEW k \in Pairing(w.fresh[i]).key,
                         NEW l \in Pairing(w.fresh[i]).key
                  PROVE  k = l /\ k \in Ids
      BY <2>2 DEF OnePick
    <3>1. w.fresh[i] \in Fresh
      BY <2>2, FreshFacts
    <3>2. k \in BestMatch(w.fresh[i], {}) /\ l \in BestMatch(w.fresh[i], {})
      BY DEF Pairing
    <3>3. k = l /\ k \in DOMAIN open
      BY <3>1, <3>2, BestMatchOne
    <3>. QED BY <1>1, <3>3 DEF Table
  <2>. QED BY <2>3, <2>4 DEF Unmatched
<1>6. CASE run' = Free
  BY <1>6 DEF Free, Unmatched, OnePick
<1>7. CASE UNCHANGED <<run, open, events>>
  BY <1>7 DEF Unmatched, OnePick, OpenedHere, Apart, Of
<1>. QED BY <1>2, <1>3, <1>4, <1>5, <1>6, <1>7
     DEF Next, Tick, Call, Reconcile, Finish, Save, Restart, vars, tracked

\* A call opens an incident only when nothing open is left for it.
THEOREM OpensAlwaysUnmatched == Spec => []OpensOnlyUnmatched
<1>1. Init => Unmatched
  BY DEF Init, Unmatched, OnePick, Free
<1>2. Unmatched => OpensOnlyUnmatched
  BY DEF Unmatched, Apart, OpensOnlyUnmatched
<1>. QED BY <1>1, <1>2, TypesAlways, MatchingStep, PTL DEF Spec

=============================================================================
