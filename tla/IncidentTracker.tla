-------------------------- MODULE IncidentTracker --------------------------
(***************************************************************************)
(* correlate.Tracker: the incidents that correlation finds anew at every   *)
(* poll are matched to the ones already open, so that an ongoing trouble   *)
(* keeps one identity; open ones that nothing matched and that are quiet   *)
(* for ResolveAfter are resolved.                                          *)
(*                                                                         *)
(* Reconcile reads the clock, then takes the mutex: a caller may wait with *)
(* an old time and an old view.  Under the mutex it runs two loops, which  *)
(* are steps here: Begin pairs every fresh incident with its best match,   *)
(* Extend and OpenNew are the iterations of the first loop, Resolve and    *)
(* KeepOpen those of the second, in whatever order the map yields its keys.*)
(* Save and Restart are the tracker's part of the server's state file.     *)
(*                                                                         *)
(* An incident is its entity set, its end and its score; the id is the     *)
(* second it was opened in and the tracker's sequence number.              *)
(***************************************************************************)
EXTENDS Integers, Sequences, FiniteSets

CONSTANTS
  Views,         \* the lists of fresh incidents that callers bring
  Callers,       \* goroutines that may be inside Reconcile
  ResolveAfter,  \* t.resolveAfter()
  MaxResolved,   \* t.MaxResolved
  MaxTime,       \* bound: the last second of the behaviour
  MaxCalls,      \* bound: calls of Reconcile
  MaxRestarts    \* bound: restarts of the server

ASSUME LimitsAssumption ==
  /\ ResolveAfter \in Nat \ {0}
  /\ MaxResolved \in Nat \ {0}
ASSUME ViewsAssumption ==
  \A view \in Views : \A i \in DOMAIN view :
    IsFiniteSet(view[i].ents) /\ view[i].end \in Int /\ view[i].score \in Int
ASSUME BoundsAssumption ==
  /\ MaxTime \in Nat
  /\ MaxCalls \in Nat
  /\ MaxRestarts \in Nat

VARIABLES
  now,       \* the wall clock, in seconds
  waiting,   \* the callers before the mutex: the time they read and their view
  open,      \* t.open: what is tracked under each open id
  resolved,  \* t.resolved: the ids resolved, oldest first
  seq,       \* t.seq
  run,       \* the Reconcile that holds the mutex: its locals, and where its
             \* events start
  saved,     \* the TrackerSnapshot in the state file
  calls,     \* number of Reconcile calls so far
  restarts,  \* number of restarts so far
  events,    \* history: every event returned, its call's time, and the
             \* restarts before it
  keptTo,    \* history: the number of events when the state file was saved
  lostEvents \* history: the events that a process returned and never saved

tracked == <<open, resolved, seq>>
history == <<keptTo, lostEvents>>
vars == <<now, waiting, tracked, run, saved, calls, restarts, events, history>>

Free == [busy |-> FALSE, at |-> 0, fresh |-> <<>>, pick |-> <<>>, todo |-> {},
         used |-> {}, from |-> 1]

-----------------------------------------------------------------------------
(* Matching by entities.                                                   *)

Smaller(m, n) == IF m <= n THEN m ELSE n

\* overlapCoefficient: the shared entities over the smaller of the two sets,
\* as a fraction.
NoOverlap == <<0, 1>>

Overlap(a, b) ==
  IF a = {} \/ b = {} THEN NoOverlap
  ELSE <<Cardinality(a \cap b), Smaller(Cardinality(a), Cardinality(b))>>

Less(p, q) == p[1] * q[2] < q[1] * p[2]

\* t.matchOverlap() is 0.5.
Enough(p) == ~Less(p, <<1, 2>>)

\* Keys are compared as strings: by the second, then by the sequence number.
KeyBefore(k, l) == k[1] < l[1] \/ (k[1] = l[1] /\ k[2] < l[2])

With(f, k) == Overlap(f.ents, open[k].inc.ents)

Matches(f, used) == {k \in DOMAIN open \ used : Enough(With(f, k))}

AsGood(f, k, l) ==
  \/ Less(With(f, l), With(f, k))
  \/ ~Less(With(f, k), With(f, l)) /\ ~KeyBefore(l, k)

\* bestMatch(f, used): the key of the greatest overlap, the first key among
\* equals; {} stands for the empty key.
BestMatch(f, used) ==
  {k \in Matches(f, used) : \A l \in Matches(f, used) : AsGood(f, k, l)}

Pairing(f) ==
  LET key == BestMatch(f, {})
  IN  [key   |-> key,
       score |-> IF key = {} THEN NoOverlap ELSE With(f, CHOOSE k \in key : TRUE)]

SeverityBand(score) == IF score >= 75 THEN 2 ELSE IF score >= 50 THEN 1 ELSE 0

-----------------------------------------------------------------------------
(* Reconcile.                                                              *)

\* The wall clock goes on, or is set to some other time.
Tick ==
  /\ now' \in 0..MaxTime
  /\ UNCHANGED <<waiting, tracked, run, saved, calls, restarts, events, history>>

\* now := t.now(), before the mutex is taken.
Call(c, view) ==
  /\ calls < MaxCalls
  /\ waiting[c] = {}
  /\ waiting' = [waiting EXCEPT ![c] = {[at |-> now, fresh |-> view]}]
  /\ calls' = calls + 1
  /\ UNCHANGED <<now, tracked, run, saved, restarts, events, history>>

\* The mutex is taken and every fresh incident gets its best match.
Begin(c) ==
  /\ ~run.busy
  /\ \E w \in waiting[c] :
       run' = [busy |-> TRUE, at |-> w.at, fresh |-> w.fresh,
               pick |-> [i \in DOMAIN w.fresh |-> Pairing(w.fresh[i])],
               todo |-> DOMAIN w.fresh, used |-> {}, from |-> Len(events) + 1]
  /\ waiting' = [waiting EXCEPT ![c] = {}]
  /\ UNCHANGED <<now, tracked, saved, calls, restarts, events, history>>

\* The pairing whose turn it is: the greatest overlap, in the list's order
\* among equals (sort.SliceStable).
Turn(i) ==
  /\ run.busy /\ i \in run.todo
  /\ \A j \in run.todo : LET p == run.pick[i].score
                             q == run.pick[j].score
                         IN  Less(q, p) \/ (~Less(p, q) /\ i <= j)

KeyNoRematch(i) == run.pick[i].key \ run.used   \* faulty variant

\* Its key, looked up again when an earlier pairing has used it.
Key(i) ==
  LET key == run.pick[i].key
  IN  IF key = {} \/ key \subseteq run.used
      THEN BestMatch(run.fresh[i], run.used) ELSE key

Paired(i, k) == run' = [run EXCEPT !.todo = @ \ {i}, !.used = @ \cup {k}]

Emit(kind, k, tr) ==
  events' = Append(events, [kind |-> kind, id |-> k, peak |-> tr.peak, at |-> run.at,
                            life |-> restarts])

\* Faulty variant: LastActivity follows the latest view.
ExtendedToView(o, f) ==
  [inc |-> f, peak |-> IF f.score > o.peak THEN f.score ELSE o.peak, active |-> f.end]

Extended(o, f) ==
  [inc    |-> f,
   peak   |-> IF f.score > o.peak THEN f.score ELSE o.peak,
   active |-> IF f.end > o.active THEN f.end ELSE o.active]

\* The fresh incident continues an open one, which takes its content.
Extend(i, k) ==
  /\ Turn(i) /\ k \in Key(i)
  /\ open' = [open EXCEPT ![k] = Extended(@, run.fresh[i])]
  /\ Paired(i, k)
  /\ IF SeverityBand(open'[k].peak) > SeverityBand(open[k].peak)
     THEN Emit("escalated", k, open'[k]) ELSE UNCHANGED events
  /\ UNCHANGED <<now, waiting, resolved, seq, saved, calls, restarts, history>>

NewId == <<run.at, seq + 1>>

\* No open incident is left for it: it becomes a new one.
OpenNew(i) ==
  /\ Turn(i) /\ Key(i) = {}
  /\ LET f  == run.fresh[i]
         tr == [inc |-> f, peak |-> f.score, active |-> f.end]
     IN  /\ open' = [k \in DOMAIN open \cup {NewId} |-> IF k = NewId THEN tr ELSE open[k]]
         /\ Emit("opened", NewId, tr)
  /\ seq' = seq + 1
  /\ Paired(i, NewId)
  /\ UNCHANGED <<now, waiting, resolved, saved, calls, restarts, history>>

\* Open, not matched in this call, and quiet for ResolveAfter.
Due == {k \in DOMAIN open \ run.used : run.at - open[k].active >= ResolveAfter}

\* trimResolved(): only the latest MaxResolved are kept.
Trimmed(s) ==
  IF Len(s) > MaxResolved THEN SubSeq(s, Len(s) - MaxResolved + 1, Len(s)) ELSE s

ResolveKeepsOpen(k) ==   \* faulty variant: no delete(t.open, key)
  /\ run.busy /\ run.todo = {} /\ k \in Due
  /\ run' = [run EXCEPT !.used = @ \cup {k}]
  /\ resolved' = Trimmed(Append(resolved, k))
  /\ Emit("resolved", k, open[k])
  /\ UNCHANGED <<now, waiting, open, seq, saved, calls, restarts, history>>

Resolve(k) ==
  /\ run.busy /\ run.todo = {} /\ k \in Due
  /\ open' = [l \in DOMAIN open \ {k} |-> open[l]]
  /\ resolved' = Trimmed(Append(resolved, k))
  /\ Emit("resolved", k, open[k])
  /\ UNCHANGED <<now, waiting, seq, run, saved, calls, restarts, history>>

\* Reconcile returns and releases the mutex.
Finish ==
  /\ run.busy /\ run.todo = {} /\ Due = {}
  /\ run' = Free
  /\ UNCHANGED <<now, waiting, tracked, saved, calls, restarts, events, history>>

Reconcile ==
  \/ \E i \in run.todo : OpenNew(i) \/ \E k \in DOMAIN open : Extend(i, k)
  \/ \E k \in DOMAIN open : Resolve(k)
  \/ Finish

-----------------------------------------------------------------------------
(* The state file.                                                         *)

\* Snapshot() takes the mutex.
Save ==
  /\ ~run.busy
  /\ saved # tracked
  /\ saved' = tracked
  /\ keptTo' = Len(events)
  /\ UNCHANGED <<now, waiting, tracked, run, calls, restarts, events, lostEvents>>

RestartFromZero ==   \* faulty variant: Restore leaves t.seq alone
  /\ restarts < MaxRestarts
  /\ restarts' = restarts + 1
  /\ open' = saved[1] /\ resolved' = saved[2] /\ seq' = 0
  /\ run' = Free
  /\ waiting' = [c \in Callers |-> {}]
  /\ lostEvents' = lostEvents \cup {e \in DOMAIN events : e > keptTo}
  /\ UNCHANGED <<now, saved, calls, events, keptTo>>

\* The process ends, whoever is inside Reconcile, and a new one restores what
\* was saved last, the sequence number too.  It may be back within the second.
Restart ==
  /\ restarts < MaxRestarts
  /\ restarts' = restarts + 1
  /\ open' = saved[1] /\ resolved' = saved[2] /\ seq' = saved[3]
  /\ run' = Free
  /\ waiting' = [c \in Callers |-> {}]
  /\ lostEvents' = lostEvents \cup {e \in DOMAIN events : e > keptTo}
  /\ UNCHANGED <<now, saved, calls, events, keptTo>>

-----------------------------------------------------------------------------

Init ==
  /\ now = 0
  /\ waiting = [c \in Callers |-> {}]
  /\ open = <<>>
  /\ resolved = <<>>
  /\ seq = 0
  /\ run = Free
  /\ saved = <<<<>>, <<>>, 0>>
  /\ calls = 0
  /\ restarts = 0
  /\ events = <<>>
  /\ keptTo = 0
  /\ lostEvents = {}

Next ==
  \/ Tick
  \/ \E c \in Callers : Begin(c) \/ \E view \in Views : Call(c, view)
  \/ Reconcile
  \/ Save
  \/ Restart

Spec == Init /\ [][Next]_vars

-----------------------------------------------------------------------------
(* Properties.                                                             *)

Ids == (0..MaxTime) \X (Nat \ {0})

Fresh == UNION {{view[i] : i \in DOMAIN view} : view \in Views}

Tracked == [inc: Fresh, peak: {f.score : f \in Fresh}, active: {f.end : f \in Fresh}]

Event == [kind: {"opened", "escalated", "resolved"}, id: Ids,
          peak: {f.score : f \in Fresh}, at: 0..MaxTime, life: 0..MaxRestarts]

TypeOK ==
  /\ now \in 0..MaxTime
  /\ waiting \in [Callers -> SUBSET [at: 0..MaxTime, fresh: Views]]
  /\ DOMAIN open \subseteq Ids /\ \A k \in DOMAIN open : open[k] \in Tracked
  /\ resolved \in Seq(Ids) /\ Len(resolved) <= MaxResolved
  /\ seq \in Nat
  /\ run.todo \subseteq DOMAIN run.fresh /\ run.used \subseteq DOMAIN open
  /\ events \in Seq(Event)
  /\ keptTo \in 0..Len(events) /\ lostEvents \subseteq DOMAIN events

Of(kind, e) == events[e].kind = kind

\* An incident that a state file has held keeps its id for good, although a
\* restart sets the sequence number back: an id is given a second time only
\* after the process ended without saving the first incident, and only by a
\* call that reads the clock at the very second at which the first was opened.
IdsUnique ==
  \A d, e \in DOMAIN events :
    d < e /\ Of("opened", d) /\ Of("opened", e) /\ events[d].id = events[e].id
    => d \in lostEvents /\ events[d].at = events[e].at

\* What the events told their receiver is what the tracker holds: between two
\* restarts, an incident is open exactly if its last event did not resolve it
\* (or, with no event, if it was open when the process started).
LastOf(k) == {e \in DOMAIN events :
  /\ events[e].id = k /\ events[e].life = restarts
  /\ \A d \in DOMAIN events : events[d].id = k => d <= e}

EventsTellOpen ==
  /\ \A k \in DOMAIN open : \A e \in LastOf(k) : ~Of("resolved", e)
  /\ \A e \in DOMAIN events :
       LET k == events[e].id IN e \in LastOf(k) /\ ~Of("resolved", e) => k \in DOMAIN open

\* An id is open or resolved, never both, and resolved once: the incident that
\* explain looks up under it is the only one.
OneRecord ==
  /\ \A n \in DOMAIN resolved : resolved[n] \notin DOMAIN open
  /\ \A m, n \in DOMAIN resolved : resolved[m] = resolved[n] => m = n

\* Between two restarts an incident escalates only upwards: its bands rise
\* strictly from its opening through each escalation, so at most two times.
EscalatesUpwards ==
  \A d, e \in DOMAIN events :
    /\ d < e /\ events[d].id = events[e].id /\ events[d].life = events[e].life
    /\ Of("escalated", e)
    => SeverityBand(events[d].peak) < SeverityBand(events[e].peak)

\* An incident is opened only when nothing open was left for it: when a call
\* is done matching, no incident it opened overlaps enough with an open one
\* that it matched with nothing.
OpenedHere(k) ==
  \E e \in run.from..Len(events) : events[e].id = k /\ Of("opened", e)

OpensOnlyUnmatched ==
  run.busy /\ run.todo = {} =>
    \A k \in run.used, l \in DOMAIN open \ run.used :
      OpenedHere(k) => ~Enough(Overlap(open[k].inc.ents, open[l].inc.ents))

\* LastActivity never goes back, whichever caller's view comes last, so that a
\* stale view cannot make an incident look quiet and have it resolved.
ActivityAdvances ==
  [][\A k \in DOMAIN open \cap DOMAIN open' :
       restarts' = restarts => open[k].active <= open'[k].active]_vars

\* README: an incident is "resolved when no fresh symptom has arrived for
\* ResolveAfter", so a call leaves none open that was opened by an earlier call
\* for a fresh symptom and has been quiet so long since.
OpenedFresh(k) ==
  \E e \in 1..run.from - 1 :
    events[e].id = k /\ Of("opened", e) /\ events[e].at - open[k].active < ResolveAfter
QuietResolved ==
  run.busy /\ run.todo = {} /\ Due = {} =>
    \A k \in DOMAIN open : OpenedFresh(k) => run.at - open[k].active < ResolveAfter

=============================================================================
