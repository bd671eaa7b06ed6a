------------------------ MODULE AlertingEngineProofs ------------------------
(***************************************************************************)
(* The alerting engine for any rules, targets and evaluators: alerts fire  *)
(* when they are due, their notifications are spaced, they are never lost  *)
(* and the history tells of them in order.                                 *)
(***************************************************************************)
EXTENDS MCAlertingEngine, SubsequenceProofs, FiniteSetTheorems, TLAPS

USE AlertingAssumption

AlertRecords == [state : {"pending", "firing"}, startsAt : Times, lastEvalAt : Times]

\* TypeOK without the history, which has a part of its own below.
EngineTypes ==
  /\ now \in Times
  /\ rules \in [Rules -> Bodies \cup {Absent}]
  /\ activeAlerts \in [Alerts -> {NoAlert} \cup AlertRecords]
  /\ rateLimiter \in [Alerts -> {Never} \cup Times]
  /\ work \in [Evaluators -> [sample : SUBSET Targets,
                              left : SUBSET ((Rules \X Bodies) \X Targets)]]
  /\ told \in [Alerts -> {Never} \cup Times]
  /\ asked \in [Alerts -> Nat]

\* A notification sent has stamped the rate limiter, then or later.
Stamped ==
  \A a \in Alerts : told[a] # Never => /\ rateLimiter[a] # Never
                                        /\ told[a] <= rateLimiter[a]

EngineInv == EngineTypes /\ Stamped /\ NothingOverdue

LEMMA EngineInit == Init => EngineInv
BY DEF Init, EngineInv, EngineTypes, Stamped, NothingOverdue, Times, Never, NoAlert, Idle, Alerts

-----------------------------------------------------------------------------
(***************************************************************************)
(* What one evaluation does to the alert it decides.                       *)
(***************************************************************************)
LEMMA Fired ==
  ASSUME EngineInv, NEW a \in Alerts, NEW alert \in AlertRecords, Fire(a, alert)
  PROVE  /\ activeAlerts' \in [Alerts -> {NoAlert} \cup AlertRecords]
         /\ activeAlerts'[a].state = "firing"
         /\ activeAlerts'[a].startsAt = alert.startsAt
         /\ \A b \in Alerts \ {a} : activeAlerts'[b] = activeAlerts[b]
         /\ rateLimiter' \in [Alerts -> {Never} \cup Times]
         /\ told' \in [Alerts -> {Never} \cup Times]
         /\ \A b \in Alerts : told'[b] # told[b] =>
              /\ b = a /\ told'[b] = now
              /\ rateLimiter[a] = Never \/ now - rateLimiter[a] >= RateLimitWindow
         /\ Stamped'
<1> DEFINE allowed == rateLimiter[a] = Never \/ now - rateLimiter[a] >= RateLimitWindow
<1> USE DEF EngineInv, EngineTypes
<1>1. /\ activeAlerts' = [activeAlerts EXCEPT ![a] = [alert EXCEPT !.state = "firing"]]
      /\ rateLimiter' = [rateLimiter EXCEPT ![a] = IF allowed THEN now ELSE @]
      /\ told' = [told EXCEPT ![a] = IF allowed /\ Notifies(a) THEN now ELSE @]
  BY DEF Fire
<1>2. /\ [alert EXCEPT !.state = "firing"] \in AlertRecords
      /\ [alert EXCEPT !.state = "firing"].state = "firing"
      /\ [alert EXCEPT !.state = "firing"].startsAt = alert.startsAt
  BY DEF AlertRecords
<1>3. /\ activeAlerts' \in [Alerts -> {NoAlert} \cup AlertRecords]
      /\ activeAlerts'[a] = [alert EXCEPT !.state = "firing"]
      /\ \A b \in Alerts \ {a} : activeAlerts'[b] = activeAlerts[b]
  BY <1>1, <1>2
<1>4. /\ rateLimiter' \in [Alerts -> {Never} \cup Times]
      /\ rateLimiter'[a] = IF allowed THEN now ELSE rateLimiter[a]
      /\ \A b \in Alerts \ {a} : rateLimiter'[b] = rateLimiter[b]
  BY <1>1
<1>5. /\ told' \in [Alerts -> {Never} \cup Times]
      /\ told'[a] = IF allowed /\ Notifies(a) THEN now ELSE told[a]
      /\ \A b \in Alerts \ {a} : told'[b] = told[b]
  BY <1>1
<1>6. \A b \in Alerts : told'[b] # told[b] => b = a /\ told'[b] = now /\ allowed
  BY <1>5
<1>7. now # Never /\ now <= now /\ (rateLimiter[a] # Never => rateLimiter[a] \in Times)
      /\ (told[a] # Never => told[a] \in Times)
  BY DEF Times, Never
\* allowed: the limiter is stamped with now, which no notification is after.
<1>8. told'[a] # Never => rateLimiter'[a] # Never /\ told'[a] <= rateLimiter'[a]
  <2>1. CASE allowed
    <3>1. told[a] # Never => told[a] <= now
      BY <2>1, <1>7 DEF Stamped, Times, Never
    <3> QED
      BY <2>1, <1>4, <1>5, <1>7, <3>1
  <2>2. CASE ~allowed
    BY <2>2, <1>4, <1>5 DEF Stamped
  <2> QED
    BY <2>1, <2>2
<1>9. Stamped'
  BY <1>4, <1>5, <1>8 DEF Stamped
<1> QED
  BY <1>2, <1>3, <1>4, <1>5, <1>6, <1>9

LEMMA StillThere ==
  ASSUME EngineInv, NEW a \in Alerts, NEW alert \in AlertRecords, Keep(a, alert)
  PROVE  /\ activeAlerts' \in [Alerts -> {NoAlert} \cup AlertRecords]
         /\ activeAlerts'[a] = alert
         /\ \A b \in Alerts \ {a} : activeAlerts'[b] = activeAlerts[b]
         /\ UNCHANGED <<rateLimiter, told>>
         /\ Stamped'
BY DEF EngineInv, EngineTypes, Keep, Stamped

\* NothingOverdue is about one alert at a time.
LEMMA OverdueElsewhere ==
  ASSUME EngineInv, NEW a \in Alerts,
         \A b \in Alerts \ {a} : activeAlerts'[b] = activeAlerts[b] /\ asked'[b] = asked[b],
         activeAlerts'[a].state = "pending" =>
           activeAlerts'[a].lastEvalAt - activeAlerts'[a].startsAt < asked'[a]
  PROVE  NothingOverdue'
BY DEF EngineInv, NothingOverdue

LEMMA RaiseStep ==
  ASSUME EngineInv, NEW a \in Alerts, NEW body \in Bodies, Raise(a, body)
  PROVE  /\ activeAlerts' \in [Alerts -> {NoAlert} \cup AlertRecords]
         /\ rateLimiter' \in [Alerts -> {Never} \cup Times]
         /\ told' \in [Alerts -> {Never} \cup Times]
         /\ asked' \in [Alerts -> Nat]
         /\ \A b \in Alerts : told'[b] # told[b] =>
              /\ told'[b] = now
              /\ rateLimiter[b] = Never \/ now - rateLimiter[b] >= RateLimitWindow
         /\ Stamped'
         /\ NothingOverdue'
<1> DEFINE fresh == [state |-> "pending", startsAt |-> now, lastEvalAt |-> now]
           alert == [activeAlerts[a] EXCEPT !.lastEvalAt = now]
<1>1. /\ asked' \in [Alerts -> Nat] /\ asked'[a] = body.duration /\ body.duration \in Nat
      /\ \A b \in Alerts \ {a} : asked'[b] = asked[b]
  BY DEF Raise, EngineInv, EngineTypes
<1>2. fresh \in AlertRecords
  BY DEF AlertRecords, EngineInv, EngineTypes
<1>3. Active(a) => /\ alert \in AlertRecords
                   /\ alert.startsAt = activeAlerts[a].startsAt
                   /\ alert.state = activeAlerts[a].state
                   /\ alert.lastEvalAt = now
  BY DEF Active, AlertRecords, EngineInv, EngineTypes
<1>4. /\ fresh.state = "pending" /\ fresh.startsAt = now /\ fresh.lastEvalAt = now /\ now - now = 0
  BY DEF EngineInv, EngineTypes, Times
<1>5. CASE Fire(a, fresh)
  <2>1. NothingOverdue'
    <3>1. activeAlerts'[a].state = "firing" /\ \A b \in Alerts \ {a} : activeAlerts'[b] = activeAlerts[b]
      BY <1>2, <1>5, Fired
    <3> QED
      BY <1>1, <3>1, OverdueElsewhere
  <2> QED
    BY <1>1, <1>2, <1>5, <2>1, Fired
<1>6. CASE ~Active(a) /\ body.duration # 0 /\ Keep(a, fresh)
  <2>1. NothingOverdue'
    <3>1. activeAlerts'[a] = fresh /\ \A b \in Alerts \ {a} : activeAlerts'[b] = activeAlerts[b]
      BY <1>2, <1>6, StillThere
    <3>2. activeAlerts'[a].lastEvalAt - activeAlerts'[a].startsAt < asked'[a]
      BY <1>1, <1>4, <1>6, <3>1
    <3> QED
      BY <1>1, <3>1, <3>2, OverdueElsewhere
  <2> QED
    BY <1>1, <1>2, <1>6, <2>1, StillThere DEF EngineInv, EngineTypes
<1>7. CASE Active(a) /\ Fire(a, alert)
  <2>1. NothingOverdue'
    <3>1. activeAlerts'[a].state = "firing" /\ \A b \in Alerts \ {a} : activeAlerts'[b] = activeAlerts[b]
      BY <1>3, <1>7, Fired
    <3> QED
      BY <1>1, <3>1, OverdueElsewhere
  <2> QED
    BY <1>1, <1>3, <1>7, <2>1, Fired
<1>8. CASE /\ Active(a)
           /\ alert.state = "firing" \/ ~Due(alert, body)
           /\ Keep(a, alert)
  <2>1. NothingOverdue'
    <3>1. activeAlerts'[a] = alert /\ \A b \in Alerts \ {a} : activeAlerts'[b] = activeAlerts[b]
      BY <1>3, <1>8, StillThere
    <3>2. activeAlerts'[a].state = "pending" =>
            activeAlerts'[a].lastEvalAt - activeAlerts'[a].startsAt < asked'[a]
      <4>1. /\ now \in Int /\ alert.startsAt \in Int
            /\ alert.state = "firing" => alert.state # "pending"
        BY <1>3, <1>8 DEF AlertRecords, EngineInv, EngineTypes, Times
      <4> QED
        BY <1>1, <1>3, <1>8, <3>1, <4>1 DEF Due
    <3> QED
      BY <1>1, <3>1, <3>2, OverdueElsewhere
  <2> QED
    BY <1>1, <1>3, <1>8, <2>1, StillThere DEF EngineInv, EngineTypes
<1> QED
  BY <1>5, <1>6, <1>7, <1>8 DEF Raise

LEMMA ResolveStep ==
  ASSUME EngineInv, NEW a \in Alerts, Resolve(a)
  PROVE  /\ activeAlerts' \in [Alerts -> {NoAlert} \cup AlertRecords]
         /\ UNCHANGED <<rateLimiter, told, asked>>
         /\ Stamped'
         /\ NothingOverdue'
<1>1. /\ activeAlerts' \in [Alerts -> {NoAlert} \cup AlertRecords]
      /\ \A b \in Alerts : activeAlerts'[b] = activeAlerts[b] \/ activeAlerts'[b] = NoAlert
      /\ UNCHANGED <<rateLimiter, told, asked>>
  BY DEF Resolve, EngineInv, EngineTypes
<1>2. NoAlert.state # "pending"
  BY DEF NoAlert
<1> QED
  BY <1>1, <1>2 DEF Stamped, NothingOverdue, EngineInv

-----------------------------------------------------------------------------
LEMMA EvaluateStep ==
  ASSUME EngineInv, NEW e \in Evaluators, NEW s \in Rules \X Bodies, NEW t \in Targets,
         Evaluate(e, s, t)
  PROVE  /\ EngineInv'
         /\ \A b \in Alerts : told'[b] # told[b] =>
              /\ told'[b] = now
              /\ rateLimiter[b] = Never \/ now - rateLimiter[b] >= RateLimitWindow
<1>1. <<s[1], t>> \in Alerts /\ s[2] \in Bodies
  BY DEF Alerts
<1>2. work' \in [Evaluators -> [sample : SUBSET Targets,
                                left : SUBSET ((Rules \X Bodies) \X Targets)]]
  <2> DEFINE left == work[e].left \ {<<s, t>>}
             kept == [work[e] EXCEPT !.left = left]
  <2>1. Idle \in [sample : SUBSET Targets, left : SUBSET ((Rules \X Bodies) \X Targets)]
    BY DEF Idle
  <2>2. kept \in [sample : SUBSET Targets, left : SUBSET ((Rules \X Bodies) \X Targets)]
    BY DEF EngineInv, EngineTypes
  <2>3. work' = [work EXCEPT ![e] = IF left = {} THEN Idle ELSE kept]
    BY DEF Evaluate, Done
  <2> QED
    BY <2>1, <2>2, <2>3 DEF EngineInv, EngineTypes
<1>3. UNCHANGED <<now, rules>>
  BY DEF Evaluate
<1>4. CASE Raise(<<s[1], t>>, s[2])
  BY <1>1, <1>2, <1>3, <1>4, RaiseStep DEF EngineInv, EngineTypes
<1>5. CASE Resolve(<<s[1], t>>)
  BY <1>1, <1>2, <1>3, <1>5, ResolveStep DEF EngineInv, EngineTypes
<1> QED
  BY <1>4, <1>5 DEF Evaluate

LEMMA RemoveRuleStep ==
  ASSUME EngineInv, NEW r \in Rules, RemoveRule(r)
  PROVE  EngineInv' /\ told' = told
<1>1. /\ rules' = [rules EXCEPT ![r] = Absent]
      /\ \A b \in Alerts : activeAlerts'[b] = activeAlerts[b] \/ activeAlerts'[b] = NoAlert
      /\ activeAlerts' \in [Alerts -> {NoAlert} \cup AlertRecords]
      /\ UNCHANGED <<now, rateLimiter, work, told, asked>>
  BY DEF RemoveRule, EngineInv, EngineTypes
<1>2. NoAlert.state # "pending"
  BY DEF NoAlert
<1>3. EngineTypes'
  BY <1>1 DEF EngineInv, EngineTypes
<1> QED
  BY <1>1, <1>2, <1>3 DEF EngineInv, Stamped, NothingOverdue

LEMMA SnapshotStep ==
  ASSUME EngineInv, NEW e \in Evaluators, NEW sample \in SUBSET Targets, Snapshot(e, sample)
  PROVE  EngineInv' /\ told' = told
<1> DEFINE enabled == {<<r, rules[r]>> : r \in {q \in Rules : rules[q] # Absent}}
           taken == {s \in enabled : s[2].enabled}
<1>1. taken \subseteq Rules \X Bodies
  BY DEF EngineInv, EngineTypes
<1>2. [sample |-> sample, left |-> taken \X sample]
        \in [sample : SUBSET Targets, left : SUBSET ((Rules \X Bodies) \X Targets)]
  BY <1>1
<1>3. work' = [work EXCEPT ![e] = [sample |-> sample, left |-> taken \X sample]]
  BY DEF Snapshot
<1>4. work' \in [Evaluators -> [sample : SUBSET Targets,
                                left : SUBSET ((Rules \X Bodies) \X Targets)]]
  BY <1>2, <1>3 DEF EngineInv, EngineTypes
<1> QED
  BY <1>4 DEF Snapshot, engine, EngineInv, EngineTypes, Stamped, NothingOverdue

LEMMA EngineStep ==
  EngineInv /\ [Next]_vars =>
    /\ EngineInv'
    /\ [\A a \in Alerts : told'[a] # told[a] =>
          told[a] = Never \/ told'[a] - told[a] >= RateLimitWindow]_vars
<1> SUFFICES ASSUME EngineInv, [Next]_vars
             PROVE  /\ EngineInv'
                    /\ \A a \in Alerts : told'[a] # told[a] =>
                         told[a] = Never \/ told'[a] - told[a] >= RateLimitWindow
  OBVIOUS
<1>1. CASE Tick
  BY <1>1 DEF Tick, engine, EngineInv, EngineTypes, Stamped, NothingOverdue, Times
<1>2. ASSUME NEW r \in Rules, RemoveRule(r) PROVE EngineInv' /\ told' = told
  BY <1>2, RemoveRuleStep
<1>3. ASSUME NEW r \in Rules, NEW body \in Bodies, AddRule(r, body)
      PROVE  EngineInv' /\ told' = told
  BY <1>3 DEF AddRule, engine, EngineInv, EngineTypes, Stamped, NothingOverdue
<1>4. ASSUME NEW e \in Evaluators, NEW sample \in SUBSET Targets, Snapshot(e, sample)
      PROVE  EngineInv' /\ told' = told
  BY <1>4, SnapshotStep
\* The limiter has let the window pass since it was stamped, which was no
\* earlier than the last notification.
<1>5. ASSUME NEW e \in Evaluators, NEW s \in Rules \X Bodies, NEW t \in Targets,
             Evaluate(e, s, t)
      PROVE  /\ EngineInv'
             /\ \A a \in Alerts : told'[a] # told[a] =>
                  told[a] = Never \/ told'[a] - told[a] >= RateLimitWindow
  <2>1. EngineInv' /\ \A b \in Alerts : told'[b] # told[b] =>
              /\ told'[b] = now
              /\ rateLimiter[b] = Never \/ now - rateLimiter[b] >= RateLimitWindow
    BY <1>5, EvaluateStep
  <2> SUFFICES ASSUME NEW a \in Alerts, told'[a] # told[a], told[a] # Never
               PROVE  told'[a] - told[a] >= RateLimitWindow
    BY <2>1
  <2>2. rateLimiter[a] \in Int /\ told[a] \in Int /\ now \in Int
    BY DEF EngineInv, EngineTypes, Times, Never
  <2>3. told[a] <= rateLimiter[a] /\ now - rateLimiter[a] >= RateLimitWindow
    BY <2>1 DEF EngineInv, Stamped
  <2> QED
    BY <2>1, <2>2, <2>3
<1>6. CASE UNCHANGED vars
  BY <1>6 DEF vars, engine, EngineInv, EngineTypes, Stamped, NothingOverdue
<1> QED
  BY <1>1, <1>2, <1>3, <1>4, <1>5, <1>6 DEF Next, Tick, engine

LEMMA EngineInvariance == Spec => []EngineInv
<1>1. EngineInv /\ [Next]_vars => EngineInv'
  BY EngineStep
<1> QED
  BY <1>1, EngineInit, PTL DEF Spec

\* No evaluation leaves an alert pending that is due (engine.go:328-361).
THEOREM NeverOverdue == Spec => []NothingOverdue
<1>1. EngineInv => NothingOverdue
  BY DEF EngineInv
<1> QED
  BY <1>1, EngineInvariance, PTL

\* Two firing notifications of one alert are RateLimitWindow apart, whatever
\* becomes of the alert and its rule in between (engine.go:403).
THEOREM AlwaysSpaced == Spec => NotificationsSpaced
BY EngineStep, EngineInvariance, PTL DEF Spec, NotificationsSpaced

-----------------------------------------------------------------------------
(***************************************************************************)
(* The history: what is in it, in which order, and how long it can get.    *)
(***************************************************************************)
Entries == [alert : Alerts, startsAt : Times, endsAt : Times]

\* The first part of HistoryInOrder, of any sequence at any time.
Ordered(h, time) ==
  \A i \in 1..Len(h) :
    /\ h[i].startsAt <= h[i].endsAt
    /\ h[i].endsAt <= time
    /\ \A j \in i..Len(h) : h[i].endsAt <= h[j].endsAt

ActiveAlerts == {a \in Alerts : Active(a)}

\* An alert began before now, and there is room for all that are active.
HistoryInv ==
  /\ EngineInv
  /\ alertHistory \in Seq(Entries)
  /\ Ordered(alertHistory, now)
  /\ \A a \in Alerts : Active(a) => activeAlerts[a].startsAt <= now
  /\ Len(alertHistory) + Cardinality(ActiveAlerts) <= MaxHistorySize + Cardinality(Alerts)

LEMMA AlertsFinite ==
  /\ IsFiniteSet(Alerts)
  /\ Cardinality(Alerts) \in Nat
  /\ \A S \in SUBSET Alerts :
       IsFiniteSet(S) /\ Cardinality(S) \in Nat /\ Cardinality(S) <= Cardinality(Alerts)
<1>1. IsFiniteSet(Alerts)
  BY FS_Product DEF Alerts
<1> QED
  BY <1>1, FS_Subset, FS_CardinalityType

\* What ends now can follow whatever is in order.
LEMMA ConcatOrdered ==
  ASSUME NEW h \in Seq(Entries), NEW g \in Seq(Entries), NEW time \in Times, Ordered(h, time),
         \A i \in 1..Len(g) : g[i].startsAt <= time /\ g[i].endsAt = time
  PROVE  h \o g \in Seq(Entries) /\ Ordered(h \o g, time)
<1> DEFINE both == h \o g
<1>1. /\ both \in Seq(Entries)
      /\ Len(h) \in Nat /\ Len(g) \in Nat /\ Len(both) = Len(h) + Len(g)
      /\ \A i \in 1..Len(both) : both[i] = IF i <= Len(h) THEN h[i] ELSE g[i - Len(h)]
  OBVIOUS
<1> HIDE DEF both
<1>2. time \in Int /\ time <= time
  BY DEF Times
<1>3. ASSUME NEW i \in 1..Len(both)
      PROVE  both[i].startsAt <= both[i].endsAt /\ both[i].endsAt <= time
  <2>1. CASE i <= Len(h)
    <3>1. i \in 1..Len(h) /\ both[i] = h[i]
      BY <1>1, <1>3, <2>1
    <3> QED
      BY <3>1 DEF Ordered
  <2>2. CASE i > Len(h)
    <3>1. i - Len(h) \in 1..Len(g) /\ both[i] = g[i - Len(h)]
      BY <1>1, <1>3, <2>2
    <3> QED
      BY <1>2, <3>1
  <2> QED
    BY <1>1, <1>3, <2>1, <2>2
<1>4. ASSUME NEW i \in 1..Len(both), NEW j \in i..Len(both) PROVE both[i].endsAt <= both[j].endsAt
  <2>1. j \in 1..Len(both)
    BY <1>1, <1>4
  <2>2. CASE j <= Len(h)
    BY <1>1, <1>4, <2>1, <2>2 DEF Ordered
  <2>3. CASE j > Len(h)
    <3>1. j - Len(h) \in 1..Len(g) /\ both[j] = g[j - Len(h)]
      BY <1>1, <2>1, <2>3
    <3>2. both[j].endsAt = time
      BY <3>1
    <3> QED
      BY <1>3, <1>4, <3>2
  <2> QED
    BY <1>1, <1>4, <2>2, <2>3
<1> QED
  BY <1>1, <1>3, <1>4 DEF Ordered, both

LEMMA AppendOrdered ==
  ASSUME NEW h \in Seq(Entries), NEW e \in Entries, NEW time \in Times, Ordered(h, time),
         e.startsAt <= time, e.endsAt = time
  PROVE  Append(h, e) \in Seq(Entries) /\ Ordered(Append(h, e), time)
<1>1. <<e>> \in Seq(Entries) /\ Len(<<e>>) = 1 /\ <<e>>[1] = e /\ Append(h, e) = h \o <<e>>
  OBVIOUS
<1>2. \A i \in 1..Len(<<e>>) : <<e>>[i].startsAt <= time /\ <<e>>[i].endsAt = time
  BY <1>1
<1> QED
  BY <1>1, <1>2, ConcatOrdered

\* The end of what is in order is in order.
LEMMA TrimmedOrdered ==
  ASSUME NEW h \in Seq(Entries), NEW time \in Times, Ordered(h, time)
  PROVE  /\ Trimmed(h) \in Seq(Entries)
         /\ Len(Trimmed(h)) <= MaxHistorySize
         /\ Ordered(Trimmed(h), time)
         /\ h # << >> => Len(Trimmed(h)) > 0 /\ Trimmed(h)[Len(Trimmed(h))] = h[Len(h)]
<1> DEFINE t == Trimmed(h)
           cut == Len(h) - MaxHistorySize
<1>1. Len(h) \in Nat /\ MaxHistorySize \in Nat \ {0} /\ (h # << >> => Len(h) > 0)
  OBVIOUS
<1>2. CASE ~(Len(h) > MaxHistorySize)
  <2>1. t = h
    BY <1>2 DEF Trimmed
  <2> QED
    BY <1>1, <1>2, <2>1
<1>3. CASE Len(h) > MaxHistorySize
  <2>1. t = SubSeq(h, cut + 1, Len(h))
    BY <1>3 DEF Trimmed
  <2>2. /\ t \in Seq(Entries) /\ Len(t) = MaxHistorySize
        /\ \A i \in 1..Len(t) : t[i] = h[cut + i] /\ cut + i \in 1..Len(h)
    BY <1>1, <1>3, <2>1
  <2>3. \A i \in 1..Len(t) : \A j \in i..Len(t) :
          cut + j \in (cut + i)..Len(h) /\ j \in 1..Len(t)
    BY <1>1, <1>3, <2>2
  <2>4. Ordered(t, time)
    BY <2>2, <2>3 DEF Ordered
  <2>5. t[Len(t)] = h[Len(h)]
    BY <1>1, <1>3, <2>2
  <2> QED
    BY <1>1, <2>2, <2>4, <2>5
<1> QED
  BY <1>2, <1>3

\* Any order of a finite set has all of it.
LEMMA OrdersAreComplete ==
  ASSUME NEW S, IsFiniteSet(S), NEW order \in SetToSeqs(S)
  PROVE  /\ order \in Seq(S)
         /\ Len(order) = Cardinality(S)
         /\ \A x \in S : \E i \in DOMAIN order : order[i] = x
<1> DEFINE D == 1..Cardinality(S)
<1>1. Cardinality(S) \in Nat
  BY FS_CardinalityType
<1>2. order \in [D -> S] /\ \A i, j \in D : i # j => order[i] # order[j]
  BY DEF SetToSeqs
<1>3. order \in Injection(D, S)
  BY <1>2 DEF Injection, IsInjective
<1>4. Cardinality(D) = Cardinality(S)
  BY <1>1, FS_Interval
<1>5. order \in Surjection(D, S)
  BY <1>3, <1>4, FS_Injection
<1>6. order \in Seq(S) /\ Len(order) = Cardinality(S) /\ DOMAIN order = D
  BY <1>1, <1>2
<1> QED
  BY <1>5, <1>6 DEF Surjection

\* An active alert ends with a record that was due now.
LEMMA ResolvedEntry ==
  ASSUME HistoryInv, NEW a \in Alerts, Active(a)
  PROVE  /\ Resolved(a) \in Entries
         /\ Resolved(a).startsAt <= now /\ Resolved(a).endsAt = now
<1>1. activeAlerts[a] \in AlertRecords /\ activeAlerts[a].startsAt <= now /\ now \in Times
  BY DEF HistoryInv, EngineInv, EngineTypes, Active
<1> QED
  BY <1>1 DEF Resolved, Entries, AlertRecords

\* What a step may make of an alert, as AlertLifecycle says it.
LivesOn(a) ==
  Active(a) =>
    IF activeAlerts'[a] = NoAlert
    THEN \E i \in DOMAIN alertHistory' : alertHistory'[i] = Resolved(a)
    ELSE /\ activeAlerts'[a].startsAt = activeAlerts[a].startsAt
         /\ activeAlerts[a].state = "firing" => activeAlerts'[a].state = "firing"

LEMMA RaiseKeeps ==
  ASSUME HistoryInv, NEW a \in Alerts, NEW body \in Bodies, Raise(a, body)
  PROVE  /\ \A b \in Alerts \ {a} : activeAlerts'[b] = activeAlerts[b]
         /\ activeAlerts'[a] # NoAlert
         /\ activeAlerts'[a].startsAt <= now
         /\ Active(a) => /\ activeAlerts'[a].startsAt = activeAlerts[a].startsAt
                         /\ activeAlerts[a].state = "firing" => activeAlerts'[a].state = "firing"
<1> DEFINE fresh == [state |-> "pending", startsAt |-> now, lastEvalAt |-> now]
           alert == [activeAlerts[a] EXCEPT !.lastEvalAt = now]
<1>0. EngineInv /\ (Active(a) => activeAlerts[a].startsAt <= now)
  BY DEF HistoryInv
<1>1. fresh \in AlertRecords /\ fresh.startsAt = now /\ now <= now
  BY <1>0 DEF AlertRecords, EngineInv, EngineTypes, Times
<1>2. Active(a) => /\ alert \in AlertRecords
                   /\ alert.startsAt = activeAlerts[a].startsAt
                   /\ alert.state = activeAlerts[a].state
                   /\ activeAlerts[a].startsAt <= now
  <2>1. Active(a) => activeAlerts[a] \in AlertRecords /\ now \in Times
    BY <1>0 DEF Active, EngineInv, EngineTypes
  <2> QED
    BY <1>0, <2>1 DEF AlertRecords
<1>3. \A r \in AlertRecords : r # NoAlert
  BY DEF AlertRecords, NoAlert
<1>4. NoAlert.state # "firing"
  BY DEF NoAlert
<1>5. CASE ~Active(a) /\ Fire(a, fresh)
  BY <1>1, <1>4, <1>5, <1>0, Fired
<1>6. CASE ~Active(a) /\ Keep(a, fresh)
  BY <1>1, <1>3, <1>6, <1>0, StillThere
<1>7. CASE Active(a) /\ Fire(a, alert)
  BY <1>2, <1>4, <1>7, <1>0, Fired
<1>8. CASE Active(a) /\ Keep(a, alert)
  BY <1>2, <1>3, <1>8, <1>0, StillThere
<1> QED
  BY <1>5, <1>6, <1>7, <1>8 DEF Raise

\* One turn of an evaluation.
LEMMA EvaluateHistory ==
  ASSUME HistoryInv, EngineInv', NEW e \in Evaluators, NEW s \in Rules \X Bodies,
         NEW t \in Targets, Evaluate(e, s, t)
  PROVE  HistoryInv' /\ \A a \in Alerts : LivesOn(a)
<1> DEFINE a == <<s[1], t>>
<1>1. a \in Alerts /\ s[2] \in Bodies /\ now' = now /\ now \in Times
  BY DEF Alerts, Evaluate, HistoryInv, EngineInv, EngineTypes
<1> HIDE DEF a
\* Every turn trims the history, so there is room for all alerts there are.
<1>2. Len(alertHistory') <= MaxHistorySize /\ Len(alertHistory') \in Nat
      => Len(alertHistory') + Cardinality(ActiveAlerts') <= MaxHistorySize + Cardinality(Alerts)
  <2>1. ActiveAlerts' \in SUBSET Alerts
    BY DEF ActiveAlerts
  <2>2. Cardinality(ActiveAlerts') <= Cardinality(Alerts) /\ Cardinality(ActiveAlerts') \in Nat
    BY <2>1, AlertsFinite
  <2> QED
    BY <2>2, AlertsFinite
<1>3. CASE Raise(a, s[2])
  <2>1. alertHistory' = Trimmed(alertHistory)
    BY <1>3 DEF Raise
  <2>2. /\ alertHistory' \in Seq(Entries) /\ Len(alertHistory') <= MaxHistorySize
        /\ Ordered(alertHistory', now')
    BY <1>1, <2>1, TrimmedOrdered DEF HistoryInv
  <2>3. /\ \A b \in Alerts \ {a} : activeAlerts'[b] = activeAlerts[b]
        /\ activeAlerts'[a] # NoAlert
        /\ activeAlerts'[a].startsAt <= now
        /\ Active(a) => /\ activeAlerts'[a].startsAt = activeAlerts[a].startsAt
                        /\ activeAlerts[a].state = "firing" => activeAlerts'[a].state = "firing"
    BY <1>1, <1>3, RaiseKeeps
  <2>4. \A b \in Alerts : Active(b)' => activeAlerts'[b].startsAt <= now'
    BY <1>1, <2>3 DEF HistoryInv, Active
  <2>5. \A b \in Alerts : LivesOn(b)
    BY <2>3 DEF LivesOn, Active
  <2> QED
    BY <1>2, <2>2, <2>4, <2>5 DEF HistoryInv
<1>4. CASE Resolve(a) /\ Active(a)
  <2>1. /\ alertHistory' = Trimmed(Append(alertHistory, Resolved(a)))
        /\ activeAlerts' = [activeAlerts EXCEPT ![a] = NoAlert]
    BY <1>4 DEF Resolve
  <2>2. /\ Append(alertHistory, Resolved(a)) \in Seq(Entries)
        /\ Ordered(Append(alertHistory, Resolved(a)), now)
    BY <1>1, <1>4, ResolvedEntry, AppendOrdered DEF HistoryInv
  <2>3. /\ alertHistory' \in Seq(Entries) /\ Len(alertHistory') <= MaxHistorySize
        /\ Ordered(alertHistory', now')
    BY <1>1, <2>1, <2>2, TrimmedOrdered
  \* What was appended survives the trimming.
  <2>4. \E i \in DOMAIN alertHistory' : alertHistory'[i] = Resolved(a)
    <3> DEFINE longer == Append(alertHistory, Resolved(a))
    <3>1. Len(longer) = Len(alertHistory) + 1 /\ Len(alertHistory) \in Nat /\ longer[Len(longer)] = Resolved(a)
      BY <1>1, <1>4, ResolvedEntry DEF HistoryInv
    <3>2. longer # << >>
      BY <3>1
    <3>3. Len(alertHistory') > 0 /\ alertHistory'[Len(alertHistory')] = longer[Len(longer)]
      BY <1>1, <2>1, <2>2, <3>2, TrimmedOrdered
    <3>4. Len(alertHistory') \in DOMAIN alertHistory'
      BY <2>3, <3>3
    <3> QED
      BY <3>1, <3>3, <3>4
  <2>5. /\ \A b \in Alerts \ {a} : activeAlerts'[b] = activeAlerts[b]
        /\ activeAlerts'[a] = NoAlert
    BY <1>1, <2>1 DEF HistoryInv, EngineInv, EngineTypes
  <2>6. \A b \in Alerts : Active(b)' => activeAlerts'[b].startsAt <= now'
    BY <1>1, <2>5 DEF HistoryInv, Active
  <2>7. \A b \in Alerts : LivesOn(b)
    BY <2>4, <2>5 DEF LivesOn, Active
  <2> QED
    BY <1>2, <2>3, <2>6, <2>7 DEF HistoryInv
<1>5. CASE Resolve(a) /\ ~Active(a)
  <2>1. alertHistory' = Trimmed(alertHistory) /\ activeAlerts' = activeAlerts
    BY <1>5 DEF Resolve
  <2>2. /\ alertHistory' \in Seq(Entries) /\ Len(alertHistory') <= MaxHistorySize
        /\ Ordered(alertHistory', now')
    BY <1>1, <2>1, TrimmedOrdered DEF HistoryInv
  <2>3. \A b \in Alerts : Active(b)' => activeAlerts'[b].startsAt <= now'
    BY <1>1, <2>1 DEF HistoryInv, Active
  <2>4. \A b \in Alerts : LivesOn(b)
    BY <2>1 DEF LivesOn, Active
  <2> QED
    BY <1>2, <2>2, <2>3, <2>4 DEF HistoryInv
<1> QED
  BY <1>3, <1>4, <1>5 DEF Evaluate, a

\* A removal appends as many records as it takes alerts away.
LEMMA RemoveHistory ==
  ASSUME HistoryInv, EngineInv', NEW r \in Rules, RemoveRule(r)
  PROVE  HistoryInv' /\ \A a \in Alerts : LivesOn(a)
<1> DEFINE closing == {a \in Alerts : a[1] = r /\ Active(a)}
<1>1. closing \in SUBSET ActiveAlerts /\ ActiveAlerts \in SUBSET Alerts
  BY DEF ActiveAlerts
<1>2. /\ IsFiniteSet(closing) /\ IsFiniteSet(ActiveAlerts)
      /\ Cardinality(closing) \in Nat /\ Cardinality(ActiveAlerts) \in Nat
  BY <1>1, AlertsFinite
<1>3. PICK order \in SetToSeqs(closing) :
        alertHistory' = alertHistory \o [i \in DOMAIN order |-> Resolved(order[i])]
  BY DEF RemoveRule
<1>4. /\ activeAlerts' = [a \in Alerts |-> IF a \in closing THEN NoAlert ELSE activeAlerts[a]]
      /\ now' = now /\ now \in Times
  BY DEF RemoveRule, HistoryInv, EngineInv, EngineTypes
<1>5. /\ order \in Seq(closing) /\ Len(order) = Cardinality(closing)
      /\ \A x \in closing : \E i \in DOMAIN order : order[i] = x
  BY <1>2, <1>3, OrdersAreComplete, SMTT(30)
<1> DEFINE ended == [i \in DOMAIN order |-> Resolved(order[i])]
<1>6. \A a \in closing : a \in Alerts /\ Active(a)
  OBVIOUS
<1> HIDE DEF closing
<1>7. \A i \in DOMAIN order : /\ Resolved(order[i]) \in Entries
                              /\ Resolved(order[i]).startsAt <= now /\ Resolved(order[i]).endsAt = now
  BY <1>5, <1>6, ResolvedEntry
<1>8. /\ ended \in Seq(Entries) /\ Len(ended) = Len(order) /\ DOMAIN ended = DOMAIN order
      /\ \A i \in 1..Len(ended) : ended[i] = Resolved(order[i])
      /\ \A i \in 1..Len(ended) : ended[i].startsAt <= now /\ ended[i].endsAt = now
  BY <1>5, <1>7
<1> HIDE DEF ended
<1>9. alertHistory' \in Seq(Entries) /\ Ordered(alertHistory', now')
  BY <1>3, <1>4, <1>8, ConcatOrdered DEF HistoryInv, ended
<1>10. Len(alertHistory') = Len(alertHistory) + Cardinality(closing) /\ Len(alertHistory) \in Nat
  BY <1>3, <1>5, <1>8 DEF HistoryInv, ended
<1>11. Cardinality(ActiveAlerts') = Cardinality(ActiveAlerts) - Cardinality(closing)
  <2>1. ActiveAlerts' = ActiveAlerts \ closing
    BY <1>4 DEF ActiveAlerts, Active
  <2>2. ActiveAlerts \cap closing = closing
    BY <1>1 DEF closing
  <2> QED
    BY <1>2, <2>1, <2>2, FS_Difference
<1>12. Len(alertHistory') + Cardinality(ActiveAlerts') <= MaxHistorySize + Cardinality(Alerts)
  BY <1>2, <1>10, <1>11 DEF HistoryInv
<1>13. \A b \in Alerts : Active(b)' => activeAlerts'[b].startsAt <= now'
  BY <1>4 DEF HistoryInv, Active
<1>14. ASSUME NEW a \in Alerts PROVE LivesOn(a)
  <2>1. CASE a \in closing
    <3>1. PICK i \in DOMAIN order : order[i] = a
      BY <1>5, <2>1
    <3>2. /\ Len(alertHistory) + i \in DOMAIN alertHistory'
          /\ alertHistory'[Len(alertHistory) + i] = Resolved(a)
      BY <1>3, <1>5, <1>8, <3>1 DEF HistoryInv, ended
    <3> QED
      BY <1>4, <2>1, <3>2 DEF LivesOn
  <2>2. CASE a \notin closing
    BY <1>4, <2>2 DEF LivesOn, Active
  <2> QED
    BY <2>1, <2>2
<1> QED
  BY <1>9, <1>12, <1>13, <1>14 DEF HistoryInv

LEMMA HistoryInit == Init => HistoryInv
<1> SUFFICES ASSUME Init PROVE HistoryInv
  OBVIOUS
<1>1. ActiveAlerts = {} /\ \A a \in Alerts : ~Active(a)
  BY DEF Init, ActiveAlerts, Active
<1>2. Cardinality(ActiveAlerts) = 0
  BY <1>1, FS_EmptySet
<1>3. alertHistory = << >> /\ Len(alertHistory) = 0
  BY DEF Init
<1>4. alertHistory \in Seq(Entries) /\ Ordered(alertHistory, now)
  BY <1>3 DEF Ordered
<1> QED
  BY <1>1, <1>2, <1>3, <1>4, EngineInit, AlertsFinite DEF HistoryInv

LEMMA HistoryStep ==
  HistoryInv /\ [Next]_vars => HistoryInv' /\ [\A a \in Alerts : LivesOn(a)]_vars
<1> SUFFICES ASSUME HistoryInv, [Next]_vars
             PROVE  HistoryInv' /\ \A a \in Alerts : LivesOn(a)
  OBVIOUS
<1>1. EngineInv'
  BY EngineStep DEF HistoryInv
<1>2. ASSUME UNCHANGED <<activeAlerts, alertHistory>>, now' \in Times, now <= now'
      PROVE  HistoryInv' /\ \A a \in Alerts : LivesOn(a)
  <2>1. ActiveAlerts' = ActiveAlerts /\ \A a \in Alerts : Active(a)' <=> Active(a)
    BY <1>2 DEF ActiveAlerts, Active
  <2>2. now \in Int /\ now' \in Int /\ \A a \in Alerts : Active(a) => activeAlerts[a].startsAt \in Int
    BY <1>2 DEF HistoryInv, EngineInv, EngineTypes, AlertRecords, Active, Times
  <2>3. Ordered(alertHistory', now')
    <3>1. \A i \in 1..Len(alertHistory) : alertHistory[i] \in Entries
      BY DEF HistoryInv
    <3>2. \A i \in 1..Len(alertHistory) : alertHistory[i].endsAt \in Int
      BY <3>1 DEF Entries, Times
    <3> QED
      BY <1>2, <2>2, <3>2 DEF HistoryInv, Ordered
  <2>4. \A a \in Alerts : Active(a)' => activeAlerts'[a].startsAt <= now'
    BY <1>2, <2>1, <2>2 DEF HistoryInv
  <2>5. \A a \in Alerts : LivesOn(a)
    BY <1>2 DEF LivesOn, Active
  <2> QED
    BY <1>1, <1>2, <2>1, <2>3, <2>4, <2>5 DEF HistoryInv
<1>3. now \in Times /\ now <= now
  BY DEF HistoryInv, EngineInv, EngineTypes, Times
<1>4. CASE Tick
  <2>1. now' \in Times /\ now <= now' /\ UNCHANGED <<activeAlerts, alertHistory>>
    BY <1>3, <1>4 DEF Tick, Times, engine
  <2> QED
    BY <1>2, <2>1
<1>5. ASSUME NEW r \in Rules, RemoveRule(r) PROVE HistoryInv' /\ \A a \in Alerts : LivesOn(a)
  BY <1>1, <1>5, RemoveHistory
<1>6. ASSUME NEW r \in Rules, NEW body \in Bodies, AddRule(r, body)
      PROVE  HistoryInv' /\ \A a \in Alerts : LivesOn(a)
  BY <1>2, <1>3, <1>6 DEF AddRule, engine
<1>7. ASSUME NEW e \in Evaluators, NEW sample \in SUBSET Targets, Snapshot(e, sample)
      PROVE  HistoryInv' /\ \A a \in Alerts : LivesOn(a)
  BY <1>2, <1>3, <1>7 DEF Snapshot, engine
<1>8. ASSUME NEW e \in Evaluators, NEW s \in Rules \X Bodies, NEW t \in Targets,
             Evaluate(e, s, t)
      PROVE  HistoryInv' /\ \A a \in Alerts : LivesOn(a)
  BY <1>1, <1>8, EvaluateHistory
<1>9. CASE UNCHANGED vars
  BY <1>2, <1>3, <1>9 DEF vars, engine
<1> QED
  BY <1>4, <1>5, <1>6, <1>7, <1>8, <1>9 DEF Next

LEMMA HistoryInvariance == Spec => []HistoryInv
BY HistoryInit, HistoryStep, PTL DEF Spec

\* The history tells the ends of alerts in the order they happened, and stays
\* within its maximum but for the alerts a removal may still add to it
\* (engine.go:156, 377).
THEOREM HistoryAlwaysInOrder == Spec => []HistoryInOrder
<1>1. HistoryInv => HistoryInOrder
  BY DEF HistoryInv, HistoryInOrder, Ordered, ActiveAlerts
<1> QED
  BY <1>1, HistoryInvariance, PTL

\* An alert keeps its beginning, never falls back from firing and never goes
\* without a record in the history, whatever evaluations and removals meet
\* (engine.go:141-163, 317-392).
THEOREM AlwaysLivesOn == Spec => AlertLifecycle
<1>1. HistoryInv /\ [Next]_vars =>
        [\A a \in Alerts : Active(a) =>
           IF activeAlerts'[a] = NoAlert
           THEN \E i \in DOMAIN alertHistory' : alertHistory'[i] = Resolved(a)
           ELSE /\ activeAlerts'[a].startsAt = activeAlerts[a].startsAt
                /\ activeAlerts[a].state = "firing" => activeAlerts'[a].state = "firing"
        ]_vars
  BY HistoryStep DEF LivesOn
<1> QED
  BY <1>1, HistoryInvariance, PTL DEF Spec, AlertLifecycle

-----------------------------------------------------------------------------
(***************************************************************************)
(* What the engine answers: for values, rules loaded and a history of any  *)
(* size.                                                                   *)
(***************************************************************************)
USE AnswersAssumption

\* A rule tried on a value: the one rule there is, and its verdict.
LEMMA Tried ==
  ASSUME NEW op \in Operators \cup {"about"}, NEW v \in Values, NEW t \in Values
  PROVE  LET tried == TestAlertRule({Rule("a", op, t)}, "a", v)
         IN  /\ tried.would \in BOOLEAN
             /\ tried.would <=> evaluateThreshold(v, t, op)
             /\ tried.says = "tried" <=> op \in Operators
<1> DEFINE r == Rule("a", op, t)
<1>1. r.id = "a" /\ r.operator = op /\ r.threshold = t
  BY DEF Rule
<1>2. Operators = {"gt", "gte", "lt", "lte", "eq", "ne", ">", ">=", "<", "<=", "==", "!="}
  BY DEF Operators, Symbol
<1> HIDE DEF r
<1> QED
  BY <1>1, <1>2 DEF TestAlertRule, evaluateThreshold, Values, r

LEMMA ComparisonsAlwaysAgree == ComparisonsAgree
<1> SUFFICES ASSUME NEW v \in Values, NEW t \in Values PROVE
      /\ \A op \in Operators \cup {"about"} :
           LET tried == TestAlertRule({Rule("a", op, t)}, "a", v)
           IN  /\ tried.would = evaluateThreshold(v, t, op)
               /\ tried.says = "tried" <=> op \in Operators
               /\ \A d \in evaluateSystemRule(Rule("a", op, t), [cpu_usage |-> v]) : d.up = tried.would
      /\ \A p \in {<<"gt", "lte">>, <<"lt", "gte">>, <<"eq", "ne">>} :
           evaluateThreshold(v, t, p[1]) # evaluateThreshold(v, t, p[2])
  BY DEF ComparisonsAgree
<1>1. ASSUME NEW op \in Operators \cup {"about"}
      PROVE  LET tried == TestAlertRule({Rule("a", op, t)}, "a", v)
             IN  /\ tried.would = evaluateThreshold(v, t, op)
                 /\ tried.says = "tried" <=> op \in Operators
                 /\ \A d \in evaluateSystemRule(Rule("a", op, t), [cpu_usage |-> v]) : d.up = tried.would
  <2> DEFINE tried == TestAlertRule({Rule("a", op, t)}, "a", v)
  <2>1. evaluateThreshold(v, t, op) \in BOOLEAN
    BY DEF evaluateThreshold
  <2>2. tried.would = evaluateThreshold(v, t, op) /\ (tried.says = "tried" <=> op \in Operators)
    BY <2>1, Tried
  <2>3. \A d \in evaluateSystemRule(Rule("a", op, t), [cpu_usage |-> v]) : d.up = evaluateThreshold(v, t, op)
    BY DEF evaluateSystemRule, Rule, SystemMetricTypes
  <2> QED
    BY <2>2, <2>3
<1>2. ASSUME NEW p \in {<<"gt", "lte">>, <<"lt", "gte">>, <<"eq", "ne">>}
      PROVE  evaluateThreshold(v, t, p[1]) # evaluateThreshold(v, t, p[2])
  BY <1>2 DEF evaluateThreshold, Values
<1> QED
  BY <1>1, <1>2

LEMMA TwoElements ==
  ASSUME NEW x, NEW y, x # y
  PROVE  Cardinality({x, y}) = 2
<1>1. {x, y} = {x} \cup {y}
  OBVIOUS
<1>2. IsFiniteSet({x}) /\ Cardinality({x}) = 1
  BY FS_Singleton
<1>3. Cardinality({x} \cup {y}) = IF y \in {x} THEN Cardinality({x}) ELSE Cardinality({x}) + 1
  BY <1>2, FS_AddElement
<1>4. y \notin {x}
  OBVIOUS
<1> QED
  BY <1>1, <1>2, <1>3, <1>4, SMTT(30)

LEMMA AlertsAlwaysApart == AlertsAreApart
<1> SUFFICES ASSUME NEW metric \in SystemMetricTypes \cup ProcessMetricTypes \cup {"disk"},
                    NEW rule, rule = [Rule("a", ">", 0) EXCEPT !.metric = metric],
                    NEW processes, processes = [pid : {1, 2}, value : {1}],
                    NEW decided, decided = evaluateProcessRule(rule, processes)
             PROVE  /\ Cardinality(decided) \in {0, Cardinality(processes)}
                    /\ decided # {} => evaluateSystemRule(rule, [m \in SystemMetricTypes |-> 0]) = {}
  BY DEF AlertsAreApart
<1>1. rule.id = "a" /\ rule.metric = metric /\ rule.threshold = 0 /\ rule.operator = ">"
  BY DEF Rule
<1>2. CASE metric \notin ProcessMetricTypes
  <2>1. decided = {}
    BY <1>1, <1>2 DEF evaluateProcessRule
  <2>2. Cardinality(decided) = 0
    BY <2>1, FS_EmptySet
  <2> QED
    BY <2>1, <2>2
<1>3. CASE metric \in ProcessMetricTypes
  <2>1. evaluateSystemRule(rule, [m \in SystemMetricTypes |-> 0]) = {}
    BY <1>1, <1>3 DEF evaluateSystemRule, SystemMetricTypes, ProcessMetricTypes
  <2> DEFINE decision(p) == [alert |-> <<rule.id, rule.metric, p.pid>>,
                             up |-> evaluateThreshold(p.value, rule.threshold, rule.operator)]
             one == [pid |-> 1, value |-> 1]
             two == [pid |-> 2, value |-> 1]
  <2>2. processes = {one, two}
    <3>1. one \in processes /\ two \in processes
      OBVIOUS
    <3>2. ASSUME NEW p \in processes PROVE p \in {one, two}
      <4>1. p = [pid |-> p.pid, value |-> p.value] /\ p.pid \in {1, 2} /\ p.value = 1
        OBVIOUS
      <4> QED
        BY <4>1
    <3> QED
      BY <3>1, <3>2
  <2>3. one # two
    <3>1. one.pid = 1 /\ two.pid = 2
      OBVIOUS
    <3> QED
      BY <3>1
  <2>4. decision(one) # decision(two)
    <3>1. decision(one).alert[3] = 1 /\ decision(two).alert[3] = 2
      OBVIOUS
    <3> QED
      BY <3>1
  <2>5. decided = {decision(p) : p \in processes}
    BY <1>1, <1>3 DEF evaluateProcessRule
  <2> HIDE DEF decision, one, two
  <2>6. decided = {decision(one), decision(two)}
    BY <2>2, <2>5
  <2>7. Cardinality(processes) = 2 /\ Cardinality(decided) = 2
    BY <2>2, <2>3, <2>4, <2>6, TwoElements
  <2> QED
    BY <2>1, <2>7
<1> QED
  BY <1>2, <1>3

\* The list of rules with these ids, and which of them a load reaches.
ListOf(ids) == [i \in DOMAIN ids |-> Rule(ids[i], ">", i)]
GoodOf(ids) == {i \in DOMAIN ids : \A j \in 1..i : ids[j] # ""}
Nameless(list) == {i \in DOMAIN list : list[i].id = ""}
Reached(list) == {i \in DOMAIN list : \A j \in Nameless(list) : i < j}
LastOf(list, id) ==
  CHOOSE i \in Reached(list) : list[i].id = id /\ \A j \in Reached(list) : list[j].id = id => j <= i

LEMMA Loaded ==
  ASSUME NEW list
  PROVE  /\ LoadRules({}, list).rules =
              {Filled(list[LastOf(list, id)], "warning") : id \in {list[i].id : i \in Reached(list)}}
         /\ LoadRules({}, list).failed = (Nameless(list) # {})
BY Zenon DEF LoadRules, Nameless, Reached, LastOf

\* A load reaches what comes before the first rule without an id, and the last
\* of an id it reaches is the one that stays.
Reaches(n, ids) ==
  /\ DOMAIN ids = 1..n /\ GoodOf(ids) \subseteq 1..n
  /\ \A i \in 1..n : ListOf(ids)[i] = Rule(ids[i], ">", i) /\ ListOf(ids)[i].id = ids[i]
  /\ Nameless(ListOf(ids)) = {i \in 1..n : ids[i] = ""}
  /\ Reached(ListOf(ids)) = GoodOf(ids)

LEMMA LoadReaches ==
  ASSUME NEW n \in Nat, NEW ids \in [1..n -> Ids]
  PROVE  Reaches(n, ids)
<1>1. DOMAIN ids = 1..n /\ DOMAIN ListOf(ids) = 1..n
  BY DEF ListOf
<1>2. GoodOf(ids) \subseteq 1..n
  BY <1>1 DEF GoodOf
<1>3. ASSUME NEW i \in 1..n
      PROVE  ListOf(ids)[i] = Rule(ids[i], ">", i) /\ ListOf(ids)[i].id = ids[i]
  BY <1>1 DEF ListOf, Rule
<1>4. Nameless(ListOf(ids)) = {i \in 1..n : ids[i] = ""}
  BY <1>1, <1>3 DEF Nameless
<1>5. ASSUME NEW i \in 1..n
      PROVE  (\A j \in 1..i : ids[j] # "") <=> \A j \in Nameless(ListOf(ids)) : i < j
  <2>1. ASSUME NEW j \in 1..n PROVE j \in 1..i <=> ~(i < j)
    OBVIOUS
  <2>2. 1..i \subseteq 1..n
    OBVIOUS
  <2> QED
    BY <1>4, <2>1, <2>2
<1>6. Reached(ListOf(ids)) = GoodOf(ids)
  BY <1>1, <1>5 DEF Reached, GoodOf
<1> QED
  BY <1>1, <1>2, <1>3, <1>4, <1>6 DEF Reaches

LEMMA LastIsLast ==
  ASSUME NEW n \in Nat, NEW ids \in [1..n -> Ids], NEW i \in GoodOf(ids),
         NEW l, l = LastOf(ListOf(ids), ids[i])
  PROVE  l \in GoodOf(ids) /\ l \in 1..n /\ i \in 1..n /\ ids[l] = ids[i] /\ i <= l
<1>0. Reaches(n, ids)
  BY LoadReaches
<1> DEFINE same == {j \in GoodOf(ids) : ids[j] = ids[i]}
<1>1. /\ same \subseteq 1..n /\ i \in same
      /\ \A j \in Reached(ListOf(ids)) : j \in GoodOf(ids) /\ ListOf(ids)[j].id = ids[j]
      /\ \A j \in same : j \in Reached(ListOf(ids)) /\ ListOf(ids)[j].id = ids[i]
  BY <1>0 DEF Reaches
<1>2. PICK j \in same : \A k \in same : k <= j
  <2> HIDE DEF same
  <2> QED
    BY <1>1, LargestOfSome
<1>3. \E k \in Reached(ListOf(ids)) :
        /\ ListOf(ids)[k].id = ids[i]
        /\ \A m \in Reached(ListOf(ids)) : ListOf(ids)[m].id = ids[i] => m <= k
  BY <1>1, <1>2
<1>4. /\ l \in Reached(ListOf(ids)) /\ ListOf(ids)[l].id = ids[i]
      /\ \A m \in Reached(ListOf(ids)) : ListOf(ids)[m].id = ids[i] => m <= l
  BY <1>3, Zenon DEF LastOf
<1> QED
  BY <1>0, <1>1, <1>4 DEF Reaches

\* What stays of a load under the id of a rule it reached.
LEMMA LoadedAs ==
  ASSUME NEW n \in Nat, NEW ids \in [1..n -> Ids], NEW i \in GoodOf(ids),
         NEW r, r = Filled(ListOf(ids)[LastOf(ListOf(ids), ids[i])], "warning")
  PROVE  r.id = ids[i] /\ r.name = ids[i] /\ r.threshold >= i
<1>1. PICK l : l = LastOf(ListOf(ids), ids[i])
  OBVIOUS
<1>2. l \in 1..n /\ i \in 1..n /\ ids[l] = ids[i] /\ i <= l
  BY <1>1, LastIsLast
<1>3. ListOf(ids)[l] = Rule(ids[i], ">", l)
  <2>1. Reaches(n, ids)
    BY LoadReaches
  <2> QED
    BY <1>2, <2>1 DEF Reaches
<1>4. r = Filled(Rule(ids[i], ">", l), "warning")
  BY <1>1, <1>3
<1>5. r.id = ids[i] /\ r.name = ids[i] /\ r.threshold = l
  BY <1>4 DEF Filled, Rule
<1> QED
  BY <1>2, <1>5

PrefixLoaded(ids, loaded, good) ==
  /\ {r.id : r \in loaded.rules} = {ids[i] : i \in good}
  /\ loaded.failed = (good # DOMAIN ids)
  /\ \A i \in good : \E r \in GetRule(loaded.rules, ids[i]) : r.name = ids[i] /\ r.threshold >= i

LEMMA LoadIsPrefix ==
  ASSUME NEW n \in Nat, NEW ids \in [1..n -> Ids], NEW loaded, loaded = LoadRules({}, ListOf(ids))
  PROVE  PrefixLoaded(ids, loaded, GoodOf(ids))
<1>0. Reaches(n, ids)
  BY LoadReaches
<1> DEFINE stays(id) == Filled(ListOf(ids)[LastOf(ListOf(ids), id)], "warning")
<1>1. {ListOf(ids)[i].id : i \in Reached(ListOf(ids))} = {ids[i] : i \in GoodOf(ids)}
  BY <1>0 DEF Reaches
<1>2. loaded.rules = {stays(id) : id \in {ids[i] : i \in GoodOf(ids)}}
  BY <1>1, Loaded
<1>3. ASSUME NEW i \in GoodOf(ids)
      PROVE  stays(ids[i]).id = ids[i] /\ stays(ids[i]).name = ids[i] /\ stays(ids[i]).threshold >= i
  BY LoadedAs
<1> HIDE DEF stays
<1>4. {r.id : r \in loaded.rules} = {ids[i] : i \in GoodOf(ids)}
  BY <1>2, <1>3
<1>5. loaded.failed = (GoodOf(ids) # DOMAIN ids)
  <2>1. loaded.failed = (Nameless(ListOf(ids)) # {})
    BY Loaded
  <2>2. Nameless(ListOf(ids)) # {} <=> \E i \in 1..n : ids[i] = ""
    BY <1>0 DEF Reaches
  <2>3. ASSUME NEW i \in 1..n, ids[i] = "" PROVE i \notin GoodOf(ids)
    <3>1. i \in 1..i
      OBVIOUS
    <3> QED
      BY <2>3, <3>1 DEF GoodOf
  <2>4. ASSUME NEW i \in 1..n, i \notin GoodOf(ids) PROVE \E j \in 1..n : ids[j] = ""
    <3>1. PICK j \in 1..i : ids[j] = ""
      BY <1>0, <2>4 DEF GoodOf, Reaches
    <3>2. j \in 1..n
      OBVIOUS
    <3> QED
      BY <3>1, <3>2
  <2>5. (\E i \in 1..n : ids[i] = "") <=> GoodOf(ids) # DOMAIN ids
    BY <1>0, <2>3, <2>4 DEF Reaches
  <2> QED
    BY <2>1, <2>2, <2>5
<1>6. ASSUME NEW i \in GoodOf(ids)
      PROVE  \E r \in GetRule(loaded.rules, ids[i]) : r.name = ids[i] /\ r.threshold >= i
  BY <1>2, <1>3 DEF GetRule
<1> QED
  BY <1>4, <1>5, <1>6 DEF PrefixLoaded

LEMMA LoadsAlwaysPrefixes == LoadsArePrefixes
<1>1. ASSUME NEW n \in 0..MaxHistory, NEW ids \in [1..n -> Ids]
      PROVE  PrefixLoaded(ids, LoadRules({}, ListOf(ids)), GoodOf(ids))
  <2>1. n \in Nat
    OBVIOUS
  <2> QED
    BY <2>1, LoadIsPrefix
<1>2. ASSUME NEW ids \in UNION {[1..n -> Ids] : n \in 0..MaxHistory}
      PROVE  PrefixLoaded(ids, LoadRules({}, ListOf(ids)), GoodOf(ids))
  BY <1>1
<1> QED
  BY <1>2, Zenon DEF LoadsArePrefixes, PrefixLoaded, ListOf, GoodOf

-----------------------------------------------------------------------------
\* The alerts of a number of states, and how many are in each.
LEMMA StatesAddUp ==
  ASSUME NEW n \in Nat, NEW states \in [1..n -> {"firing", "pending"}],
         NEW alerts, alerts = {[id |-> i, state |-> states[i]] : i \in 1..n},
         NEW s, s = GetStatistics({}, alerts, << >>)
  PROVE  s.firingAlerts + s.pendingAlerts = s.activeAlerts
<1> DEFINE firing == {a \in alerts : a.state = "firing"}
           pending == {a \in alerts : a.state = "pending"}
<1>1. IsFiniteSet(alerts)
  <2> DEFINE f == [i \in 1..n |-> [id |-> i, state |-> states[i]]]
  <2>1. IsFiniteSet(1..n)
    BY FS_Interval
  <2>2. f \in Surjection(1..n, alerts)
    BY DEF Surjection
  <2> HIDE DEF f
  <2> QED
    BY <2>1, <2>2, FS_Surjection DEF ExistsSurjection
<1>2. \A a \in alerts : a.state \in {"firing", "pending"}
  OBVIOUS
<1>3. firing \subseteq alerts /\ alerts \ firing = pending /\ alerts \cap firing = firing
  BY <1>2
<1>4. Cardinality(pending) = Cardinality(alerts) - Cardinality(firing)
  <2>1. Cardinality(alerts \ firing) = Cardinality(alerts) - Cardinality(alerts \cap firing)
    <3> HIDE DEF firing
    <3> QED
      BY <1>1, FS_Difference
  <2> HIDE DEF firing, pending
  <2> QED
    BY <1>3, <2>1
<1>5. Cardinality(alerts) \in Nat /\ Cardinality(firing) \in Nat
  BY <1>1, <1>3, FS_CardinalityType, FS_Subset
<1>6. s.firingAlerts = Cardinality(firing) /\ s.pendingAlerts = Cardinality(pending) /\ s.activeAlerts = Cardinality(alerts)
  BY DEF GetStatistics
<1> QED
  BY <1>4, <1>5, <1>6

LEMMA ViewsAlwaysAddUp == ViewsAddUp
<1>1. ASSUME NEW n \in 0..MaxHistory, NEW limit \in -1..(MaxHistory + 1)
      PROVE  LET history == [i \in 1..n |-> i]
                 read == GetAlertHistory(history, limit)
             IN  /\ Len(read) = (IF limit \in 1..n THEN limit ELSE n)
                 /\ read # << >> => read[Len(read)] = n
  <2> DEFINE history == [i \in 1..n |-> i]
             m == IF limit <= 0 \/ limit > n THEN n ELSE limit
             read == SubSeq(history, n - m + 1, n)
  <2>1. n \in Nat /\ limit \in Int /\ m \in 0..n /\ m = IF limit \in 1..n THEN limit ELSE n
    OBVIOUS
  <2>2. history \in Seq(Nat) /\ Len(history) = n
    BY <2>1
  <2>3. GetAlertHistory(history, limit) = read
    BY <2>2 DEF GetAlertHistory
  <2> HIDE DEF m
  <2>4. read = [i \in 1..m |-> history[n - m + i]] /\ Len(read) = m
    BY <2>1, <2>2
  <2>5. ASSUME read # << >> PROVE read[m] = n
    <3>1. m \in 1..n
      BY <2>1, <2>4, <2>5
    <3> QED
      BY <2>1, <2>4, <3>1
  <2> HIDE DEF read, history
  <2> QED
    BY <2>1, <2>3, <2>4, <2>5 DEF history
<1>2. ASSUME NEW states \in [1..MaxHistory -> {"firing", "pending"}]
      PROVE  LET s == GetStatistics({}, {[id |-> i, state |-> states[i]] : i \in 1..MaxHistory}, << >>)
             IN  s.firingAlerts + s.pendingAlerts = s.activeAlerts
  BY StatesAddUp
<1> QED
  BY <1>1, <1>2 DEF ViewsAddUp

\* The two comparisons of the program agree on every operator and value, no two
\* processes share an alert, a load that fails keeps what came before the bad
\* rule, and views tell the newest and add up: whatever the thresholds and
\* however long a list or a history is (engine.go, alerting.go).
THEOREM AnswersAlwaysRight == Spec => []AlertAnswersAreRight
<1>1. EveryAlertAnswerIsRight
  BY ComparisonsAlwaysAgree, AlertsAlwaysApart, LoadsAlwaysPrefixes, ViewsAlwaysAddUp
  DEF EveryAlertAnswerIsRight
<1>2. AlertAnswersAreRight
  BY <1>1 DEF AlertAnswersAreRight
<1> QED
  BY <1>2, PTL
=============================================================================
