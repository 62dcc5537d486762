--------------------------- MODULE Notifier_proofs ---------------------------
(***************************************************************************)
(* Theorems about Notifier, for every set of keys, times and callers and   *)
(* every value of the windows and the threshold.                           *)
(***************************************************************************)
EXTENDS Notifier, FiniteSetTheorems, TLAPS

\* Only Flap and Admit touch what admit keeps; every other step leaves the
\* deduplication state and the admitted alerts alone.
LEMMA StepCases ==
  ASSUME [Next]_vars
  PROVE  \/ \E c \in Callers, k \in Keys, t \in Times : Flap(c, k, t)
         \/ \E c \in Callers, k \in Keys, t \in Times : Admit(c, k, t)
         \/ UNCHANGED <<state, admitted>>
BY DEF Next, Notify, Mute, Deliver, Step, Send, Finish, vars, state

-----------------------------------------------------------------------------
(* Types.                                                                  *)

LEMMA TypeInit == Init => TypeOK
BY AlertsAssumption DEF Init, TypeOK

\* What a caller is delivering keeps its type when it starts and when it goes
\* on to the next sink.
LEMMA StartType ==
  ASSUME TypeOK, NEW c \in Callers, NEW a \in Alert, StartSending(c, a)
  PROVE  sending' \in [Callers -> Delivery \cup {Idle}]
<1>1. [alert |-> a, next |-> 1, delivered |-> FALSE] \in Delivery
  BY SinksAssumption DEF Delivery
<1>. QED BY <1>1 DEF StartSending, TypeOK

LEMMA SendType ==
  ASSUME TypeOK, NEW c \in Callers, NEW ok \in BOOLEAN, Send(c, ok)
  PROVE  /\ sending' \in [Callers -> Delivery \cup {Idle}]
         /\ tries' \subseteq Alert \X (1..NumSinks) \X BOOLEAN
<1>. DEFINE d == sending[c]
<1>1. d \in Delivery /\ d.next <= NumSinks
  BY DEF TypeOK, Send, Pending
<1>2. d.alert \in Alert /\ d.next \in 1..NumSinks /\ d.delivered \in BOOLEAN
  BY <1>1, SinksAssumption DEF Delivery
<1>3. [d EXCEPT !.delivered = @ \/ ok, !.next = @ + 1] \in Delivery
  <2>1. ASSUME NEW b \in BOOLEAN, NEW m \in 1..(NumSinks + 1)
        PROVE  [d EXCEPT !.delivered = b, !.next = m] \in Delivery
    BY <1>1 DEF Delivery
  <2>2. d.next + 1 \in 1..(NumSinks + 1)
    BY <1>2, SinksAssumption
  <2>3. (d.delivered \/ ok) \in BOOLEAN
    OBVIOUS
  <2>. HIDE DEF d, Delivery
  <2>. QED BY <2>1, <2>2, <2>3, Zenon
<1>4. sending' = [sending EXCEPT ![c] = [d EXCEPT !.delivered = @ \/ ok, !.next = @ + 1]]
  BY <1>1 DEF Send, TypeOK
<1>5. tries' = tries \cup {<<d.alert, d.next, ok>>}
  BY DEF Send
<1>. HIDE DEF d
<1>6. sending' \in [Callers -> Delivery \cup {Idle}]
  BY <1>3, <1>4 DEF TypeOK
<1>7. tries' \subseteq Alert \X (1..NumSinks) \X BOOLEAN
  BY <1>2, <1>5 DEF TypeOK
<1>. QED BY <1>6, <1>7

LEMMA RememberType ==
  ASSUME TypeOK, NEW k \in Keys, NEW t \in Times, Remember(k, t)
  PROVE  last' \in [Keys -> Times \cup {Never}] /\ history' \in [Keys -> SUBSET Times]
<1>1. Recent(k, t) \in SUBSET Times
  BY DEF Recent, TypeOK
<1>2. last' \in [Keys -> Times \cup {Never}]
  BY DEF Remember, TypeOK
<1>3. history' \in [Keys -> SUBSET Times]
  BY <1>1 DEF Remember, TypeOK
<1>. QED BY <1>2, <1>3

LEMMA TypeNext == TypeOK /\ [Next]_vars => TypeOK'
<1>. SUFFICES ASSUME TypeOK, [Next]_vars PROVE TypeOK'
  OBVIOUS
<1>1. ASSUME NEW c \in Callers, Offer(c)
      PROVE  offered' \in 0..MaxAlerts /\ offered \in 0..MaxAlerts
  BY <1>1, AlertsAssumption DEF Offer, TypeOK
<1>2. ASSUME NEW c \in Callers, NEW k \in Keys, NEW t \in Times, Mute(c, k, t)
      PROVE  TypeOK'
  BY <1>1, <1>2 DEF Mute, TypeOK, state
<1>3. ASSUME NEW c \in Callers, NEW k \in Keys, NEW t \in Times, Flap(c, k, t)
      PROVE  TypeOK'
  <2>1. last' \in [Keys -> Times \cup {Never}] /\ history' \in [Keys -> SUBSET Times]
    BY <1>3, RememberType DEF Flap
  <2>2. flapped' \in Nat
    BY <1>3 DEF Flap, TypeOK
  <2>. QED BY <1>1, <1>3, <2>1, <2>2 DEF Flap, TypeOK
<1>4. ASSUME NEW c \in Callers, NEW k \in Keys, NEW t \in Times, Admit(c, k, t)
      PROVE  TypeOK'
  <2>1. last' \in [Keys -> Times \cup {Never}] /\ history' \in [Keys -> SUBSET Times]
    BY <1>4, RememberType DEF Admit, TypeOK
  <2>2. <<k, t>> \in Alert
    BY DEF Alert
  <2>3. sending' \in [Callers -> Delivery \cup {Idle}]
    BY <1>4, <2>2, StartType DEF Admit
  <2>. QED BY <1>1, <1>4, <2>1, <2>3 DEF Admit, TypeOK
<1>5. ASSUME NEW c \in Callers, Deliver(c)
      PROVE  TypeOK'
  <2>1. <<IncidentEvent, offered>> \in Alert
    BY <1>1, <1>5 DEF Deliver, Alert
  <2>2. sending' \in [Callers -> Delivery \cup {Idle}]
    BY <1>5, <2>1, StartType DEF Deliver
  <2>. QED BY <1>1, <1>5, <2>2 DEF Deliver, TypeOK, state
<1>6. ASSUME NEW c \in Callers, NEW ok \in BOOLEAN, Send(c, ok)
      PROVE  TypeOK'
  <2>1. /\ sending' \in [Callers -> Delivery \cup {Idle}]
        /\ tries' \subseteq Alert \X (1..NumSinks) \X BOOLEAN
    BY <1>6, SendType
  <2>. QED BY <1>6, <2>1 DEF Send, TypeOK, state
<1>7. ASSUME NEW c \in Callers, Finish(c)
      PROVE  TypeOK'
  <2>1. sending' \in [Callers -> Delivery \cup {Idle}]
    BY <1>7 DEF Finish, TypeOK
  <2>2. sent' \in Nat
    BY <1>7 DEF Finish, Counted, TypeOK
  <2>. QED BY <1>7, <2>1, <2>2 DEF Finish, TypeOK, state
<1>8. ASSUME UNCHANGED vars
      PROVE  TypeOK'
  BY <1>8 DEF vars, state, TypeOK
<1>. QED BY <1>2, <1>3, <1>4, <1>5, <1>6, <1>7, <1>8 DEF Next, Notify, Step

\* The notifier's variables keep their types under every interleaving of its
\* callers and every failure of its sinks.
THEOREM TypeCorrect == Spec => []TypeOK
BY TypeInit, TypeNext, PTL DEF Spec

-----------------------------------------------------------------------------
(* Deduplication and flap suppression.                                     *)

\* The last alert of a key is no older than any admitted one, and the times
\* that admit keeps cover every alert within a flap window of it.
Marked ==
  Dedup > 0 =>
    /\ \A k \in Keys, t \in Times : <<k, t>> \in admitted =>
         last[k] # Never /\ t <= last[k]
    /\ FlapChecked => \A k \in Keys, t \in Times :
         <<k, t>> \in admitted /\ t > last[k] - FlapWindow => t \in history[k]

HistoryFinite == \A k \in Keys : IsFiniteSet(history[k])

AdmitInv == TypeOK /\ Marked /\ HistoryFinite /\ DedupSpacing

LEMMA AdmitInit == Init => AdmitInv
<1>. SUFFICES ASSUME Init PROVE AdmitInv
  OBVIOUS
<1>1. TypeOK
  BY TypeInit
<1>2. Marked /\ DedupSpacing
  BY DEF Init, Marked, DedupSpacing
<1>3. HistoryFinite
  BY FS_EmptySet DEF Init, HistoryFinite
<1>. QED BY <1>1, <1>2, <1>3 DEF AdmitInv

LEMMA RecentFinite ==
  ASSUME HistoryFinite, NEW k \in Keys, NEW t
  PROVE  IsFiniteSet(Recent(k, t))
<1>1. IsFiniteSet(history[k])
  BY DEF HistoryFinite
<1>2. IsFiniteSet({x \in history[k] : x > t - FlapWindow})
  BY <1>1, FS_Subset
<1>. QED BY <1>2, FS_AddElement DEF Recent

\* A time that is not within the dedup window of the last alert is later than
\* it, and moving the mark to it keeps the window covered.
LEMMA RememberMarks ==
  ASSUME AdmitInv, TypeOK', Dedup > 0, NEW k \in Keys, NEW t \in Times,
         ~Deduped(k, t), Remember(k, t),
         admitted' = admitted \/ admitted' = admitted \cup {<<k, t>>}
  PROVE  /\ Marked' /\ HistoryFinite'
         /\ \A x \in Times : <<k, x>> \in admitted => t - x >= Dedup
<1>1. /\ last \in [Keys -> Times \cup {Never}] /\ history \in [Keys -> SUBSET Times]
      /\ \A x \in Times : x \in Nat
      /\ Dedup \in Nat /\ FlapWindow \in Nat /\ Marked /\ HistoryFinite
      /\ Never = -1
  BY TimesAssumption, LimitsAssumption DEF AdmitInv, TypeOK, Never
<1>2. ASSUME NEW x \in Times, <<k, x>> \in admitted
      PROVE  last[k] \in Times /\ x <= last[k] /\ t - last[k] >= Dedup /\ t - x >= Dedup
  <2>1. last[k] # Never /\ x <= last[k] /\ last[k] \in Times
    BY <1>1, <1>2 DEF Marked
  <2>2. ~(t - last[k] < Dedup)
    BY <2>1 DEF Deduped
  <2>. QED BY <1>1, <2>1, <2>2
<1>3. last' = [last EXCEPT ![k] = t]
  BY DEF Remember
<1>4. ASSUME NEW j \in Keys, NEW x \in Times, <<j, x>> \in admitted'
      PROVE  last'[j] # Never /\ x <= last'[j]
  <2>1. CASE <<j, x>> \in admitted /\ j = k
    BY <1>1, <1>2, <1>3, <2>1
  <2>2. CASE <<j, x>> \in admitted /\ j # k
    BY <1>1, <1>3, <2>2 DEF Marked
  <2>3. CASE j = k /\ x = t
    BY <1>1, <1>3, <2>3
  <2>. QED BY <1>4, <2>1, <2>2, <2>3
<1>5. ASSUME FlapChecked, NEW j \in Keys, NEW x \in Times, <<j, x>> \in admitted',
             x > last'[j] - FlapWindow
      PROVE  x \in history'[j]
  <2>1. history' = [history EXCEPT ![k] = Recent(k, t)]
    BY <1>5 DEF Remember
  <2>2. CASE j # k
    BY <1>1, <1>3, <1>5, <2>1, <2>2 DEF Marked
  <2>3. CASE j = k /\ x = t
    BY <1>1, <2>1, <2>3 DEF Recent
  <2>4. CASE j = k /\ <<k, x>> \in admitted
    <3>1. x > t - FlapWindow
      BY <1>1, <1>3, <1>5, <2>4
    <3>2. x > last[k] - FlapWindow
      BY <1>1, <1>2, <2>4, <3>1
    <3>3. x \in history[k]
      BY <1>1, <1>5, <2>4, <3>2 DEF Marked
    <3>. QED BY <1>1, <2>1, <2>4, <3>1, <3>3 DEF Recent
  <2>. QED BY <1>5, <2>2, <2>3, <2>4
<1>6. Marked'
  BY <1>4, <1>5 DEF Marked, FlapChecked
<1>7. HistoryFinite'
  <2>1. IsFiniteSet(Recent(k, t))
    BY <1>1, RecentFinite
  <2>. QED BY <1>1, <2>1 DEF Remember, HistoryFinite
<1>. QED BY <1>2, <1>6, <1>7

LEMMA AdmitNext == AdmitInv /\ [Next]_vars => AdmitInv'
<1>. SUFFICES ASSUME AdmitInv, [Next]_vars PROVE AdmitInv'
  OBVIOUS
<1>1. TypeOK /\ TypeOK'
  BY TypeNext DEF AdmitInv
<1>2. ASSUME NEW c \in Callers, NEW k \in Keys, NEW t \in Times, Flap(c, k, t)
      PROVE  AdmitInv'
  <2>1. Dedup > 0 /\ ~Deduped(k, t) /\ Remember(k, t) /\ admitted' = admitted
    BY <1>2 DEF Flap
  <2>2. Marked' /\ HistoryFinite'
    BY <1>1, <2>1, RememberMarks
  <2>3. DedupSpacing'
    BY <2>1 DEF AdmitInv, DedupSpacing
  <2>. QED BY <1>1, <2>2, <2>3 DEF AdmitInv
<1>3. ASSUME NEW c \in Callers, NEW k \in Keys, NEW t \in Times, Admit(c, k, t)
      PROVE  AdmitInv'
  <2>1. admitted' = admitted \cup {<<k, t>>} /\ admitted \subseteq Keys \X Times
    BY <1>1, <1>3 DEF Admit, TypeOK
  <2>2. \A x \in Times : x \in Nat
    BY TimesAssumption
  <2>3. CASE Dedup = 0
    <3>1. UNCHANGED <<last, history>>
      BY <1>3, <2>3 DEF Admit
    <3>2. Marked' /\ HistoryFinite'
      BY <2>3, <3>1 DEF AdmitInv, Marked, HistoryFinite
    <3>3. DedupSpacing'
      BY <2>1, <2>2, <2>3 DEF DedupSpacing
    <3>. QED BY <1>1, <3>2, <3>3 DEF AdmitInv
  <2>4. CASE Dedup > 0
    <3>1. ~Deduped(k, t) /\ Remember(k, t)
      BY <1>3, <2>4 DEF Admit
    <3>2. /\ Marked' /\ HistoryFinite'
          /\ \A x \in Times : <<k, x>> \in admitted => t - x >= Dedup
      BY <1>1, <2>1, <2>4, <3>1, RememberMarks
    <3>3. ASSUME NEW a \in admitted', NEW b \in admitted', a[1] = b[1], a[2] < b[2]
          PROVE  b[2] - a[2] >= Dedup
      <4>1. CASE a \in admitted /\ b \in admitted
        BY <3>3, <4>1 DEF AdmitInv, DedupSpacing
      <4>2. CASE a \in admitted /\ b = <<k, t>>
        BY <2>1, <3>2, <3>3, <4>2
      <4>3. CASE a = <<k, t>> /\ b \in admitted
        <5>1. b[2] \in Times /\ b = <<k, b[2]>>
          BY <2>1, <3>3, <4>3
        <5>2. t - b[2] >= Dedup
          BY <3>2, <4>3, <5>1
        <5>. QED BY <2>2, <2>4, <3>3, <4>3, <5>1, <5>2, LimitsAssumption
      <4>4. CASE a = <<k, t>> /\ b = <<k, t>>
        BY <2>2, <3>3, <4>4
      <4>. QED BY <2>1, <4>1, <4>2, <4>3, <4>4
    <3>4. DedupSpacing'
      BY <3>3 DEF DedupSpacing
    <3>. QED BY <1>1, <3>2, <3>4 DEF AdmitInv
  <2>. QED BY <2>3, <2>4, LimitsAssumption
<1>4. ASSUME UNCHANGED <<state, admitted>>
      PROVE  AdmitInv'
  BY <1>1, <1>4 DEF state, AdmitInv, Marked, HistoryFinite, DedupSpacing
<1>. QED BY <1>2, <1>3, <1>4, StepCases

\* Two alerts of one series are never closer than Dedup in bucket time,
\* however many goroutines offer them and in whatever order of their times.
THEOREM DedupCorrect == Spec => []DedupSpacing
<1>1. AdmitInv => DedupSpacing
  BY DEF AdmitInv
<1>. QED BY AdmitInit, AdmitNext, <1>1, PTL DEF Spec

FlapInv == AdmitInv /\ FlapBound

\* An admitted alert adds itself to its own window and to no earlier one.
LEMMA AdmitBounded ==
  ASSUME FlapInv, Dedup > 0, FlapChecked, NEW c \in Callers, NEW k \in Keys,
         NEW t \in Times, Admit(c, k, t), NEW a \in admitted'
  PROVE  Cardinality(AlertsWithin(a[1], a[2])') <= FlapThreshold
<1>1. /\ TypeOK /\ Marked /\ HistoryFinite
      /\ admitted \subseteq Keys \X Times /\ \A x \in Times : x \in Nat
      /\ Dedup \in Nat /\ FlapWindow \in Nat /\ FlapThreshold \in Nat
      /\ last \in [Keys -> Times \cup {Never}] /\ Never = -1
  BY TimesAssumption, LimitsAssumption DEF FlapInv, AdmitInv, TypeOK, Never
<1>2. /\ admitted' = admitted \cup {<<k, t>>}
      /\ ~Deduped(k, t) /\ ~TooMany(k, t)
  BY <1>1 DEF Admit
<1>3. ASSUME NEW x \in Times, <<k, x>> \in admitted
      PROVE  last[k] \in Times /\ x <= last[k] /\ last[k] < t
  <2>1. last[k] # Never /\ x <= last[k] /\ last[k] \in Times
    BY <1>1, <1>3 DEF Marked
  <2>2. ~(t - last[k] < Dedup)
    BY <1>2, <2>1 DEF Deduped
  <2>. QED BY <1>1, <2>1, <2>2
<1>4. AlertsWithin(k, t)' \subseteq Recent(k, t)
  <2>. SUFFICES ASSUME NEW x \in Times, <<k, x>> \in admitted', x > t - FlapWindow
                PROVE  x \in Recent(k, t)
    BY DEF AlertsWithin
  <2>1. CASE x = t
    BY <2>1 DEF Recent
  <2>2. CASE <<k, x>> \in admitted
    <3>1. x > last[k] - FlapWindow
      BY <1>1, <1>3, <2>2
    <3>. QED BY <1>1, <2>2, <3>1 DEF Marked, Recent
  <2>. QED BY <1>2, <2>1, <2>2
<1>5. Cardinality(Recent(k, t)) <= FlapThreshold /\ IsFiniteSet(Recent(k, t))
  <2>1. IsFiniteSet(Recent(k, t))
    BY <1>1, RecentFinite
  <2>2. ~(Cardinality(Recent(k, t)) > FlapThreshold)
    BY <1>2 DEF TooMany
  <2>3. Cardinality(Recent(k, t)) \in Nat
    BY <2>1, FS_CardinalityType
  <2>. QED BY <1>1, <2>1, <2>2, <2>3
<1>6. CASE a = <<k, t>>
  <2>1. Cardinality(AlertsWithin(k, t)') <= Cardinality(Recent(k, t))
    BY <1>4, <1>5, FS_Subset
  <2>2. Cardinality(AlertsWithin(k, t)') \in Nat /\ Cardinality(Recent(k, t)) \in Nat
    BY <1>4, <1>5, FS_Subset, FS_CardinalityType
  <2>. QED BY <1>1, <1>5, <1>6, <2>1, <2>2
<1>7. CASE a \in admitted
  <2>1. AlertsWithin(a[1], a[2])' = AlertsWithin(a[1], a[2])
    <3>1. a[2] \in Times /\ a = <<a[1], a[2]>>
      BY <1>1, <1>7
    <3>2. a[1] = k => ~(t <= a[2])
      BY <1>1, <1>3, <1>7, <3>1
    <3>. QED BY <1>2, <3>2 DEF AlertsWithin
  <2>. QED BY <1>7, <2>1 DEF FlapInv, FlapBound
<1>. QED BY <1>2, <1>6, <1>7

\* With deduplication on, no flap window that ends at an alert holds more than
\* FlapThreshold alerts of its series.
THEOREM FlapCorrect == Dedup > 0 /\ Spec => []FlapBound
<1>. SUFFICES ASSUME Dedup > 0 PROVE Spec => []FlapBound
  OBVIOUS
<1>1. Init => FlapInv
  <2>1. Init => FlapBound
    BY DEF Init, FlapBound
  <2>. QED BY <2>1, AdmitInit DEF FlapInv
<1>2. FlapInv /\ [Next]_vars => FlapInv'
  <2>. SUFFICES ASSUME FlapInv, [Next]_vars PROVE FlapInv'
    OBVIOUS
  <2>1. AdmitInv'
    BY AdmitNext DEF FlapInv
  <2>2. CASE admitted' = admitted
    BY <2>1, <2>2 DEF FlapInv, FlapBound, AlertsWithin, FlapChecked
  <2>3. ASSUME NEW c \in Callers, NEW k \in Keys, NEW t \in Times, Admit(c, k, t)
        PROVE  FlapInv'
    <3>1. FlapBound'
      BY <2>3, AdmitBounded DEF FlapBound, FlapChecked
    <3>. QED BY <2>1, <3>1 DEF FlapInv
  <2>. QED BY <2>2, <2>3, StepCases DEF Flap
<1>3. FlapInv => FlapBound
  BY DEF FlapInv
<1>. QED BY <1>1, <1>2, <1>3, PTL DEF Spec

-----------------------------------------------------------------------------
(* Deliveries.                                                             *)

Tried ==
  {e \in Alert \X (1..NumSinks) : \E ok \in BOOLEAN : <<e[1], e[2], ok>> \in tries}

\* A caller in the loop over the sinks has called those before the next one,
\* and an admitted alert that no caller is delivering was tried on them all.
TriedSoFar ==
  /\ \A c \in Callers : sending[c] # Idle =>
       \A s \in 1..NumSinks : s < sending[c].next => <<sending[c].alert, s>> \in Tried
  /\ EverySinkTried

\* Deliveries can be told apart: no two callers have the same alert, and an
\* alert to come was not seen before.
Begun == admitted \cup {<<IncidentEvent, n>> : n \in 0..(offered - 1)}

Distinct ==
  /\ \A c, d \in Callers : sending[c] # Idle /\ sending[d] # Idle /\ c # d =>
       sending[c].alert # sending[d].alert
  /\ \A c \in Callers : sending[c] # Idle => sending[c].alert \in Begun
  /\ \A e \in tries : e[1] \in Begun

\* `delivered` says whether some sink has taken the alert so far.
TakenBySink ==
  {a \in Alert : \E s \in 1..NumSinks : <<a, s, TRUE>> \in tries}

Tallied ==
  /\ \A c \in Callers : sending[c] # Idle =>
       (sending[c].delivered <=> sending[c].alert \in TakenBySink)
  /\ IsFiniteSet(Taken)
  /\ sent = Cardinality(Taken)

CountInv == AdmitInv /\ TriedSoFar /\ (Dedup > 0 => Distinct /\ Tallied)

LEMMA CountInit == Init => CountInv
<1>. SUFFICES ASSUME Init PROVE CountInv
  OBVIOUS
<1>1. TriedSoFar
  BY DEF Init, TriedSoFar, EverySinkTried
<1>2. Distinct
  BY DEF Init, Distinct
<1>3. Taken = {}
  BY DEF Init, Taken
<1>4. Tallied
  BY <1>3, FS_EmptySet DEF Init, Tallied
<1>. QED BY <1>1, <1>2, <1>4, AdmitInit DEF CountInv

\* What a delivery that starts changes: one caller, which was idle.
LEMMA StartCounts ==
  ASSUME CountInv, NEW c \in Callers, NEW a \in Alert, Offer(c), StartSending(c, a),
         UNCHANGED <<sent, tries>>,
         admitted' = admitted \/ admitted' = admitted \cup {a},
         Dedup > 0 => a \notin Begun, a \in Begun', AdmitInv'
  PROVE  CountInv'
<1>. DEFINE new == [alert |-> a, next |-> 1, delivered |-> FALSE]
<1>1. /\ sending' = [sending EXCEPT ![c] = new] /\ sending[c] = Idle /\ new # Idle
      /\ offered' = offered + 1 /\ offered \in Nat /\ NumSinks \in Nat
      /\ sending \in [Callers -> Delivery \cup {Idle}]
      /\ admitted \subseteq Keys \X Times /\ tries' = tries /\ sent' = sent
  BY AlertsAssumption, SinksAssumption DEF StartSending, Offer, Idle, CountInv, AdmitInv, TypeOK
<1>2. \A d \in Callers : sending'[d] = IF d = c THEN new ELSE sending[d]
  BY <1>1
<1>3. \A b : InFlight(b)' <=> InFlight(b) \/ b = a
  BY <1>1, <1>2 DEF InFlight
<1>. HIDE DEF new
<1>new. new.alert = a /\ new.next = 1 /\ new.delivered = FALSE
  BY DEF new
<1>4. TriedSoFar'
  <2>1. ASSUME NEW d \in Callers, sending'[d] # Idle, NEW s \in 1..NumSinks, s < sending'[d].next
        PROVE  <<sending'[d].alert, s>> \in Tried'
    <3>1. CASE d = c
      BY <1>1, <1>2, <1>new, <2>1, <3>1
    <3>2. CASE d # c
      BY <1>1, <1>2, <2>1, <3>2 DEF CountInv, TriedSoFar, Tried
    <3>. QED BY <3>1, <3>2
  <2>2. EverySinkTried'
    BY <1>1, <1>3 DEF CountInv, TriedSoFar, EverySinkTried
  <2>. QED BY <2>1, <2>2 DEF TriedSoFar
<1>5. ASSUME Dedup > 0
      PROVE  Distinct'
  <2>1. Begun \subseteq Begun'
    BY <1>1 DEF Begun
  <2>2. a \in Begun'
    OBVIOUS
  <2>3. a \notin Begun
    BY <1>5
  <2>4. ASSUME NEW d \in Callers, NEW e \in Callers, sending'[d] # Idle, sending'[e] # Idle, d # e
        PROVE  sending'[d].alert # sending'[e].alert
    BY <1>2, <1>new, <1>5, <2>3, <2>4 DEF CountInv, Distinct
  <2>5. \A d \in Callers : sending'[d] # Idle => sending'[d].alert \in Begun'
    BY <1>2, <1>new, <1>5, <2>1, <2>2 DEF CountInv, Distinct
  <2>6. \A e \in tries' : e[1] \in Begun'
    BY <1>1, <1>5, <2>1 DEF CountInv, Distinct
  <2>. QED BY <2>4, <2>5, <2>6 DEF Distinct
<1>6. ASSUME Dedup > 0
      PROVE  Tallied'
  <2>1. a \notin TakenBySink
    BY <1>5, <1>6 DEF CountInv, Distinct, TakenBySink
  <2>2. Taken' = Taken
    BY <1>1, <1>3, <2>1 DEF Taken, TakenBySink
  <2>3. \A d \in Callers : sending'[d] # Idle =>
          (sending'[d].delivered <=> sending'[d].alert \in TakenBySink')
    BY <1>1, <1>2, <1>new, <1>6, <2>1 DEF CountInv, Tallied, TakenBySink
  <2>. QED BY <1>1, <1>6, <2>2, <2>3 DEF CountInv, Tallied
<1>. QED BY <1>4, <1>5, <1>6 DEF CountInv

\* A sink's answer is added to what the caller's alert was tried on.
LEMMA SendCounts ==
  ASSUME CountInv, NEW c \in Callers, NEW ok \in BOOLEAN, Send(c, ok), AdmitInv'
  PROVE  CountInv'
<1>0. sending[c] \in Delivery
  BY DEF CountInv, AdmitInv, TypeOK, Send, Pending
<1>. PICK a \in Alert, n \in 1..(NumSinks + 1) : a = sending[c].alert /\ n = sending[c].next
  BY <1>0 DEF Delivery
<1>1. /\ a = sending[c].alert /\ n = sending[c].next
      /\ sending \in [Callers -> Delivery \cup {Idle}] /\ NumSinks \in Nat
      /\ sending[c] \in Delivery /\ sending[c] # Idle
      /\ n \in 1..NumSinks /\ sending[c].delivered \in BOOLEAN
      /\ tries' = tries \cup {<<a, n, ok>>}
      /\ tries \subseteq Alert \X (1..NumSinks) \X BOOLEAN
      /\ UNCHANGED <<sent, offered, admitted>>
  BY SinksAssumption DEF CountInv, AdmitInv, TypeOK, Send, Pending, Delivery
<1>2. /\ sending'[c].alert = a /\ sending'[c].next = n + 1
      /\ sending'[c].delivered = (sending[c].delivered \/ ok)
      /\ sending'[c] # Idle
      /\ \A d \in Callers : d # c => sending'[d] = sending[d]
  BY <1>1 DEF Send, Delivery, Idle
<1>3. \A b : InFlight(b)' <=> InFlight(b)
  BY <1>1, <1>2 DEF InFlight
<1>4. Tried' = Tried \cup {<<a, n>>}
  <2>1. ASSUME NEW b \in Alert, NEW s \in 1..NumSinks
        PROVE  <<b, s>> \in Tried' <=> <<b, s>> \in Tried \/ <<b, s>> = <<a, n>>
    BY <1>1 DEF Tried
  <2>2. Tried \subseteq Alert \X (1..NumSinks) /\ Tried' \subseteq Alert \X (1..NumSinks)
    BY DEF Tried
  <2>. QED BY <1>1, <2>1, <2>2
<1>5. TriedSoFar'
  <2>1. ASSUME NEW d \in Callers, sending'[d] # Idle, NEW s \in 1..NumSinks, s < sending'[d].next
        PROVE  <<sending'[d].alert, s>> \in Tried'
    <3>1. CASE d = c
      <4>1. s < n \/ s = n
        BY <1>1, <1>2, <2>1, <3>1
      <4>2. s < n => <<a, s>> \in Tried
        BY <1>1 DEF CountInv, TriedSoFar
      <4>. QED BY <1>2, <1>4, <3>1, <4>1, <4>2
    <3>2. CASE d # c
      BY <1>2, <1>4, <2>1, <3>2 DEF CountInv, TriedSoFar
    <3>. QED BY <3>1, <3>2
  <2>2. EverySinkTried'
    <3>1. EverySinkTried
      BY DEF CountInv, TriedSoFar
    <3>. QED BY <1>1, <1>3, <1>4, <3>1 DEF EverySinkTried, Tried
  <2>. QED BY <2>1, <2>2 DEF TriedSoFar
<1>6. ASSUME Dedup > 0
      PROVE  Distinct'
  <2>1. Begun' = Begun
    BY <1>1 DEF Begun
  <2>2. a \in Begun /\ Distinct
    BY <1>1, <1>6 DEF CountInv, Distinct
  <2>3. \A d \in Callers : sending'[d] # Idle => sending[d] # Idle /\ sending'[d].alert = sending[d].alert
    BY <1>1, <1>2
  <2>4. \A e \in tries' : e[1] \in Begun'
    BY <1>1, <2>1, <2>2 DEF Distinct
  <2>. QED BY <2>1, <2>2, <2>3, <2>4 DEF Distinct
<1>7. ASSUME Dedup > 0
      PROVE  Tallied'
  <2>1. Distinct /\ Tallied
    BY <1>7 DEF CountInv
  <2>2. InFlight(a)
    BY <1>1 DEF InFlight
  <2>3. TakenBySink' = TakenBySink \cup (IF ok THEN {a} ELSE {})
    BY <1>1 DEF TakenBySink
  <2>5. Taken' = Taken
    BY <1>3, <2>2, <2>3 DEF Taken, TakenBySink
  <2>6. ASSUME NEW d \in Callers, sending'[d] # Idle
        PROVE  sending'[d].delivered <=> sending'[d].alert \in TakenBySink'
    <3>1. CASE d = c
      BY <1>1, <1>2, <2>1, <2>3, <3>1 DEF Tallied
    <3>2. CASE d # c
      BY <1>1, <1>2, <2>1, <2>3, <2>6, <3>2 DEF Tallied, Distinct
    <3>. QED BY <3>1, <3>2
  <2>. QED BY <1>1, <2>1, <2>5, <2>6 DEF Tallied
<1>. QED BY <1>5, <1>6, <1>7 DEF CountInv

\* At the end of the loop every sink has been called, and the alert is counted
\* if one of them took it.
LEMMA FinishCounts ==
  ASSUME CountInv, NEW c \in Callers, Finish(c), AdmitInv'
  PROVE  CountInv'
<1>0. sending[c] \in Delivery
  BY DEF CountInv, AdmitInv, TypeOK, Finish
<1>. PICK a \in Alert : a = sending[c].alert
  BY <1>0 DEF Delivery
<1>1. /\ a = sending[c].alert
      /\ sending \in [Callers -> Delivery \cup {Idle}] /\ NumSinks \in Nat
      /\ sending[c] \in Delivery /\ sending[c] # Idle /\ a \in Alert
      /\ sending[c].next > NumSinks /\ sending[c].next \in Nat
      /\ sending[c].delivered \in BOOLEAN
      /\ sending' = [sending EXCEPT ![c] = Idle]
      /\ UNCHANGED <<offered, admitted, tries>>
  BY SinksAssumption DEF CountInv, AdmitInv, TypeOK, Finish, Pending, Delivery
<1>2. \A d \in Callers : sending'[d] = IF d = c THEN Idle ELSE sending[d]
  BY <1>1
<1>3. \A b : b # a => (InFlight(b)' <=> InFlight(b))
  BY <1>1, <1>2 DEF InFlight
<1>4. \A s \in 1..NumSinks : <<a, s>> \in Tried
  <2>. TAKE s \in 1..NumSinks
  <2>1. s < sending[c].next
    BY <1>1
  <2>. QED BY <1>1, <2>1 DEF CountInv, TriedSoFar
<1>5. TriedSoFar'
  <2>1. ASSUME NEW d \in Callers, sending'[d] # Idle, NEW s \in 1..NumSinks, s < sending'[d].next
        PROVE  <<sending'[d].alert, s>> \in Tried'
    BY <1>1, <1>2, <2>1 DEF CountInv, TriedSoFar, Tried
  <2>2. EverySinkTried'
    <3>. SUFFICES ASSUME NEW b \in admitted, ~InFlight(b)', NEW s \in 1..NumSinks
                  PROVE  <<b, s>> \in Tried
      BY <1>1 DEF EverySinkTried, Tried
    <3>1. CASE b = a
      BY <1>4, <3>1
    <3>2. CASE b # a
      <4>1. \E ok \in BOOLEAN : <<b, s, ok>> \in tries
        BY <1>3, <3>2 DEF CountInv, TriedSoFar, EverySinkTried
      <4>2. b \in Alert
        BY DEF CountInv, AdmitInv, TypeOK, Alert
      <4>. QED BY <4>1, <4>2 DEF Tried
    <3>. QED BY <3>1, <3>2
  <2>. QED BY <2>1, <2>2 DEF TriedSoFar
<1>6. ASSUME Dedup > 0
      PROVE  Distinct'
  <2>1. Begun' = Begun
    BY <1>1 DEF Begun
  <2>. QED BY <1>1, <1>2, <1>6, <2>1 DEF CountInv, Distinct
<1>7. ASSUME Dedup > 0
      PROVE  Tallied'
  <2>1. Distinct /\ Tallied
    BY <1>7 DEF CountInv
  <2>2. InFlight(a)
    BY <1>1 DEF InFlight
  <2>3. ~InFlight(a)'
    BY <1>1, <1>2, <2>1 DEF InFlight, Distinct
  <2>4. sending[c].delivered <=> a \in TakenBySink
    BY <1>1, <2>1 DEF Tallied
  <2>5. Taken' = IF sending[c].delivered THEN Taken \cup {a} ELSE Taken
    BY <1>1, <1>3, <2>2, <2>3, <2>4 DEF Taken, TakenBySink
  <2>6. a \notin Taken /\ IsFiniteSet(Taken) /\ sent = Cardinality(Taken)
    BY <2>1, <2>2 DEF Taken, Tallied
  <2>7. IsFiniteSet(Taken') /\ sent' = Cardinality(Taken')
    <3>1. CASE sending[c].delivered
      <4>1. sent' = sent + 1
        BY <3>1 DEF Finish, Counted
      <4>. QED BY <2>5, <2>6, <3>1, <4>1, FS_AddElement
    <3>2. CASE ~sending[c].delivered
      <4>1. sent' = sent + 0
        BY <3>2 DEF Finish, Counted
      <4>2. Cardinality(Taken) \in Nat
        BY <2>6, FS_CardinalityType
      <4>. QED BY <2>5, <2>6, <3>2, <4>1, <4>2
    <3>. QED BY <3>1, <3>2
  <2>8. \A d \in Callers : sending'[d] # Idle =>
          (sending'[d].delivered <=> sending'[d].alert \in TakenBySink')
    BY <1>1, <1>2, <2>1 DEF Tallied, TakenBySink
  <2>. QED BY <2>7, <2>8 DEF Tallied
<1>. QED BY <1>5, <1>6, <1>7 DEF CountInv

LEMMA CountNext == CountInv /\ [Next]_vars => CountInv'
<1>. SUFFICES ASSUME CountInv, [Next]_vars PROVE CountInv'
  OBVIOUS
<1>1. AdmitInv /\ AdmitInv' /\ TypeOK
  BY AdmitNext DEF CountInv, AdmitInv
<1>2. ASSUME NEW c \in Callers, NEW k \in Keys, NEW t \in Times, Admit(c, k, t)
      PROVE  CountInv'
  <2>1. <<k, t>> \in Alert /\ \A n : <<k, t>> # <<IncidentEvent, n>>
    BY KeysAssumption DEF Alert
  <2>2. Dedup > 0 => <<k, t>> \notin Begun
    <3>. SUFFICES ASSUME Dedup > 0, <<k, t>> \in admitted PROVE FALSE
      BY <2>1 DEF Begun
    <3>1. last[k] # Never /\ t <= last[k] /\ ~Deduped(k, t)
      BY <1>1, <1>2 DEF AdmitInv, Marked, Admit
    <3>2. t \in Nat /\ last[k] \in Nat /\ Dedup \in Nat
      BY <1>1, <3>1, TimesAssumption, LimitsAssumption DEF TypeOK
    <3>. QED BY <3>1, <3>2 DEF Deduped
  <2>3. Offer(c) /\ StartSending(c, <<k, t>>) /\ UNCHANGED <<sent, tries>>
        /\ admitted' = admitted \cup {<<k, t>>}
    BY <1>2 DEF Admit
  <2>4. <<k, t>> \in Begun'
    BY <2>3 DEF Begun
  <2>. QED BY <1>1, <2>1, <2>2, <2>3, <2>4, StartCounts
<1>3. ASSUME NEW c \in Callers, Deliver(c)
      PROVE  CountInv'
  <2>1. offered \in Nat /\ offered \in 0..MaxAlerts
    BY <1>1, AlertsAssumption DEF TypeOK
  <2>2. <<IncidentEvent, offered>> \in Alert /\ <<IncidentEvent, offered>> \notin Begun
    BY <1>1, <2>1, KeysAssumption DEF Alert, Begun, TypeOK
  <2>3. /\ Offer(c) /\ StartSending(c, <<IncidentEvent, offered>>)
        /\ UNCHANGED <<sent, tries>> /\ admitted' = admitted
    BY <1>3 DEF Deliver
  <2>4. <<IncidentEvent, offered>> \in Begun'
    BY <2>1, <2>3 DEF Begun, Offer
  <2>. QED BY <1>1, <2>2, <2>3, <2>4, StartCounts
<1>4. ASSUME UNCHANGED <<sending, sent, admitted, tries>>, offered' \in Nat, offered <= offered'
      PROVE  CountInv'
  <2>1. offered \in Nat
    BY <1>1, AlertsAssumption DEF TypeOK
  <2>2. Begun \subseteq Begun'
    <3>1. \A n \in 0..offered - 1 : n \in 0..offered' - 1
      <4>1. ASSUME NEW a \in Nat, NEW b \in Nat, a <= b, NEW n \in 0..a - 1
            PROVE  n \in 0..b - 1
        BY <4>1
      <4>. QED BY <1>4, <2>1, <4>1
    <3>2. {<<IncidentEvent, n>> : n \in 0..offered - 1}
            \subseteq {<<IncidentEvent, n>> : n \in 0..offered' - 1}
      BY <3>1
    <3>. QED BY <1>4, <3>2 DEF Begun
  <2>3. TriedSoFar'
    BY <1>4 DEF CountInv, TriedSoFar, Tried, EverySinkTried, InFlight
  <2>4. Dedup > 0 => Distinct'
    BY <1>4, <2>2 DEF CountInv, Distinct
  <2>5. Dedup > 0 => Tallied'
    BY <1>4 DEF CountInv, Tallied, Taken, TakenBySink, InFlight
  <2>. QED BY <1>1, <2>3, <2>4, <2>5 DEF CountInv
<1>5. ASSUME NEW c \in Callers, NEW k \in Keys, NEW t \in Times, Mute(c, k, t) \/ Flap(c, k, t)
      PROVE  CountInv'
  <2>1. offered' = offered + 1 /\ offered \in Nat
    BY <1>1, <1>5, AlertsAssumption DEF Mute, Flap, Offer, TypeOK
  <2>. QED BY <1>4, <1>5, <2>1 DEF Mute, Flap
<1>6. ASSUME UNCHANGED vars
      PROVE  CountInv'
  <2>1. offered' = offered /\ offered \in Nat
    BY <1>1, <1>6, AlertsAssumption DEF vars, TypeOK
  <2>. QED BY <1>4, <1>6, <2>1 DEF vars
<1>. QED BY <1>1, <1>2, <1>3, <1>5, <1>6, SendCounts, FinishCounts DEF Next, Notify, Step

\* Whatever callers run at once and whichever sinks fail, an admitted alert
\* was tried on every sink when its caller is done with it, and the number told
\* as delivered is that of the alerts some sink took.
THEOREM DeliveriesCorrect == Spec => []DeliveriesCounted
<1>1. CountInv => DeliveriesCounted
  BY DEF CountInv, TriedSoFar, Tallied, SentCounts, DeliveriesCounted
<1>. QED BY CountInit, CountNext, <1>1, PTL DEF Spec

=============================================================================
