------------------------------ MODULE Notifier ------------------------------
(***************************************************************************)
(* alert.Notifier: which anomalies become alerts, and their delivery.      *)
(* Several goroutines call it at once (every ingest request publishes on   *)
(* its own).  admit runs under the mutex; the sinks are called after it is *)
(* released, one after the other, and each of them may fail.               *)
(*                                                                         *)
(* An alert is a key, standing for (job, detector, series), and a bucket   *)
(* time; alerts under MinScore are left out, as admit returns before it    *)
(* reads or writes anything.  `history` is a set, not a list: admit never  *)
(* appends a time it already holds.                                        *)
(***************************************************************************)
EXTENDS Integers, FiniteSets

CONSTANTS
  Keys,           \* (job, detector, series) triples
  Times,          \* bucket times, in any order of arrival
  Callers,        \* goroutines that may be inside Notify or Deliver
  NumSinks,       \* len(n.Sinks)
  Dedup,          \* n.Dedup; 0 switches deduplication off
  FlapThreshold,  \* n.FlapThreshold
  FlapWindow,     \* n.FlapWindow
  MaxAlerts       \* bound: alerts offered in a behaviour

IncidentEvent == "incident"   \* in place of a key: the event of an incident

ASSUME KeysAssumption == IncidentEvent \notin Keys
ASSUME TimesAssumption == Times \subseteq Nat
ASSUME LimitsAssumption ==
  Dedup \in Nat /\ FlapThreshold \in Nat /\ FlapWindow \in Nat
ASSUME SinksAssumption == NumSinks \in Nat
ASSUME AlertsAssumption == MaxAlerts \in Nat

VARIABLES
  last,      \* n.last: time of the key's last alert, admitted or muted
  history,   \* n.history: the key's recent times
  flapped,   \* n.Flapped
  sending,   \* what each caller is delivering, and the sink it calls next
  sent,      \* alerts that Notify and Deliver counted as delivered
  offered,   \* number of alerts offered so far
  admitted,  \* history: the <<key, time>> that admit let through
  tries      \* history: <<alert, sink, succeeded>> of every call of a sink

state == <<last, history, flapped>>
vars == <<state, sending, sent, offered, admitted, tries>>

Never == -1
Idle == [alert |-> <<>>, next |-> 0, delivered |-> FALSE]

-----------------------------------------------------------------------------
(* admit.                                                                  *)

\* Faulty variant: a time before the last alert counts as outside the window.
DedupedAhead(k, t) == last[k] # Never /\ last[k] <= t /\ t - last[k] < Dedup

\* a.Time.Sub(prev) < n.Dedup, so a time before prev is within the window too.
Deduped(k, t) == last[k] # Never /\ t - last[k] < Dedup

FlapChecked == FlapThreshold > 0 /\ FlapWindow > 0

\* The key's times within the flap window that ends at t, t included.
Recent(k, t) == {x \in history[k] : x > t - FlapWindow} \cup {t}

TooManyBeforeAppend(k, t) ==   \* faulty variant: t itself is not counted
  FlapChecked /\ Cardinality(Recent(k, t) \ {t}) > FlapThreshold

TooMany(k, t) == FlapChecked /\ Cardinality(Recent(k, t)) > FlapThreshold

Remember(k, t) ==
  /\ last' = [last EXCEPT ![k] = t]
  /\ history' = IF FlapChecked
                THEN [history EXCEPT ![k] = Recent(k, t)] ELSE history

Offer(c) ==
  /\ sending[c] = Idle
  /\ offered < MaxAlerts
  /\ offered' = offered + 1

\* Within the dedup window of the key's last alert: nothing changes.
Mute(c, k, t) ==
  /\ Offer(c)
  /\ Dedup > 0 /\ Deduped(k, t)
  /\ UNCHANGED <<state, sending, sent, admitted, tries>>

\* More alerts than the threshold in the flap window: remembered, not sent.
Flap(c, k, t) ==
  /\ Offer(c)
  /\ Dedup > 0 /\ ~Deduped(k, t) /\ TooMany(k, t)
  /\ Remember(k, t)
  /\ flapped' = flapped + 1
  /\ UNCHANGED <<sending, sent, admitted, tries>>

StartSending(c, a) ==
  sending' = [sending EXCEPT ![c] = [alert |-> a, next |-> 1, delivered |-> FALSE]]

Admit(c, k, t) ==
  /\ Offer(c)
  /\ \/ Dedup = 0 /\ UNCHANGED <<last, history>>
     \/ Dedup > 0 /\ ~Deduped(k, t) /\ ~TooMany(k, t) /\ Remember(k, t)
  /\ StartSending(c, <<k, t>>)
  /\ admitted' = admitted \cup {<<k, t>>}
  /\ UNCHANGED <<flapped, sent, tries>>

Notify(c) ==
  \E k \in Keys, t \in Times : Mute(c, k, t) \/ Flap(c, k, t) \/ Admit(c, k, t)

\* Deliver(a), for the events of incidents: admit is not asked.
Deliver(c) ==
  /\ Offer(c)
  /\ StartSending(c, <<IncidentEvent, offered>>)
  /\ UNCHANGED <<state, sent, admitted, tries>>

-----------------------------------------------------------------------------
(* The loop over the sinks.                                                *)

Pending(c) == sending[c] # Idle /\ sending[c].next <= NumSinks

\* Faulty variant: a failing sink ends the loop.
SendOrStop(c, ok) ==
  /\ Pending(c)
  /\ tries' = tries \cup {<<sending[c].alert, sending[c].next, ok>>}
  /\ sending' = [sending EXCEPT ![c].delivered = @ \/ ok,
                                ![c].next = IF ok THEN @ + 1 ELSE NumSinks + 1]
  /\ UNCHANGED <<state, sent, offered, admitted>>

\* s.Send returned, with an error or without; the loop goes on either way.
Send(c, ok) ==
  /\ Pending(c)
  /\ tries' = tries \cup {<<sending[c].alert, sending[c].next, ok>>}
  /\ sending' = [sending EXCEPT ![c].delivered = @ \/ ok, ![c].next = @ + 1]
  /\ UNCHANGED <<state, sent, offered, admitted>>

CountedAlways(c) == 1   \* faulty variant: an alert no sink took is counted

Counted(c) == IF sending[c].delivered THEN 1 ELSE 0

Finish(c) ==
  /\ sending[c] # Idle /\ ~Pending(c)
  /\ sent' = sent + Counted(c)
  /\ sending' = [sending EXCEPT ![c] = Idle]
  /\ UNCHANGED <<state, offered, admitted, tries>>

-----------------------------------------------------------------------------

Init ==
  /\ last = [k \in Keys |-> Never]
  /\ history = [k \in Keys |-> {}]
  /\ flapped = 0
  /\ sending = [c \in Callers |-> Idle]
  /\ sent = 0
  /\ offered = 0
  /\ admitted = {}
  /\ tries = {}

Step(c) == (\E ok \in BOOLEAN : Send(c, ok)) \/ Finish(c)

Next == \E c \in Callers : Notify(c) \/ Deliver(c) \/ Step(c)

Spec == Init /\ [][Next]_vars

\* A sink always returns (its HTTP client has a timeout), so a goroutine that
\* is delivering goes on; nothing says that alerts keep coming.
FairSpec == Spec /\ \A c \in Callers : WF_vars(Step(c))

-----------------------------------------------------------------------------
(* Properties.                                                             *)

Alert == (Keys \X Times) \cup ({IncidentEvent} \X (0..MaxAlerts))

Delivery == [alert: Alert, next: 1..(NumSinks + 1), delivered: BOOLEAN]

TypeOK ==
  /\ last \in [Keys -> Times \cup {Never}]
  /\ history \in [Keys -> SUBSET Times]
  /\ flapped \in Nat
  /\ sending \in [Callers -> Delivery \cup {Idle}]
  /\ sent \in Nat
  /\ offered \in 0..MaxAlerts
  /\ admitted \subseteq Keys \X Times
  /\ tries \subseteq Alert \X (1..NumSinks) \X BOOLEAN

\* Deduplication: two alerts of one series are at least Dedup apart in bucket
\* time, in whatever order the goroutines bring them.
DedupSpacing ==
  \A a, b \in admitted :
    a[1] = b[1] /\ a[2] < b[2] => b[2] - a[2] >= Dedup

\* Flap suppression: within any flap window that ends at an alert, a series
\* has no more than FlapThreshold alerts.
AlertsWithin(k, t) == {x \in Times : <<k, x>> \in admitted /\ x > t - FlapWindow /\ x <= t}

FlapBound ==
  FlapChecked => \A a \in admitted : Cardinality(AlertsWithin(a[1], a[2])) <= FlapThreshold

\* Once its caller has moved on, an admitted alert has been tried on every
\* sink: one that fails does not stop the ones after it.
InFlight(a) == \E c \in Callers : sending[c] # Idle /\ sending[c].alert = a

EverySinkTried ==
  \A a \in admitted : ~InFlight(a) =>
    \A s \in 1..NumSinks : \E ok \in BOOLEAN : <<a, s, ok>> \in tries

\* The number reported as delivered is the number of alerts that some sink
\* took (alerts admitted twice under Dedup = 0 aside).
Taken == {a \in Alert : ~InFlight(a) /\ \E s \in 1..NumSinks : <<a, s, TRUE>> \in tries}

SentCounts == Dedup > 0 => sent = Cardinality(Taken)

\* deliver's loop over the sinks and its count of them belong together: no
\* failure of one sink loses an alert for the others or is told as a delivery.
DeliveriesCounted == EverySinkTried /\ SentCounts

\* Every alert that admit lets through is, in the end, tried on every sink.
AlertSettles ==
  \A k \in Keys, t \in Times :
    <<k, t>> \in admitted ~>
      \A s \in 1..NumSinks : \E ok \in BOOLEAN : <<<<k, t>>, s, ok>> \in tries

=============================================================================
