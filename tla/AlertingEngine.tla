--------------------------- MODULE AlertingEngine ---------------------------
(***************************************************************************)
(* The alerting engine (infrastructure/alerting/engine.go): rules that are *)
(* added and removed while goroutines evaluate samples against a snapshot  *)
(* of them, the alerts this opens, fires and resolves, their history and   *)
(* the rate limit of their notifications.                                  *)
(*                                                                         *)
(* A critical section of e.mu is one step; an evaluation is a step for the *)
(* snapshot and one for each alert it decides.  An alert id is a rule and  *)
(* a target, the metric the rule watches or the process it watches it in.  *)
(* The comparison of a value with the threshold is its outcome.            *)
(***************************************************************************)
EXTENDS Integers, Sequences, SequencesExt

CONSTANTS
  Rules,          \* rule ids
  Targets,        \* what a rule is evaluated for
  Bodies,         \* contents of a rule: [duration, enabled, channels]
  Absent,         \* no rule under that id
  Evaluators,     \* goroutines that call EvaluateSystemMetrics or ...ProcessMetrics
  RateLimitWindow, MaxHistorySize,
  MaxTime         \* bound on the clock

ASSUME AlertingAssumption ==
  /\ Bodies \subseteq [duration : Nat, enabled : BOOLEAN, channels : BOOLEAN]
  /\ Absent \notin Bodies
  /\ RateLimitWindow \in Nat \ {0} /\ MaxHistorySize \in Nat \ {0} /\ MaxTime \in Nat
  /\ IsFiniteSet(Rules) /\ IsFiniteSet(Targets)

VARIABLES
  now,          \* the clock
  rules,        \* e.rules
  activeAlerts, \* e.activeAlerts
  alertHistory, \* e.alertHistory
  rateLimiter,  \* e.rateLimiter
  work,         \* of each evaluator: its sample and what is left to evaluate
  told,         \* ghost: when a firing notification was last sent
  asked         \* ghost: the duration asked for at the last evaluation

engine == <<activeAlerts, alertHistory, rateLimiter, told, asked>>
vars == <<now, rules, engine, work>>

Alerts == Rules \X Targets
Never == -1
NoAlert == [state |-> "inactive", startsAt |-> Never, lastEvalAt |-> Never]
Idle == [sample |-> {}, left |-> {}]

Init ==
  /\ now = 0
  /\ rules = [r \in Rules |-> Absent]
  /\ activeAlerts = [a \in Alerts |-> NoAlert]
  /\ alertHistory = << >>
  /\ rateLimiter = [a \in Alerts |-> Never]
  /\ work = [e \in Evaluators |-> Idle]
  /\ told = [a \in Alerts |-> Never]
  /\ asked = [a \in Alerts |-> 0]

Tick == now < MaxTime /\ now' = now + 1 /\ UNCHANGED <<rules, engine, work>>

Active(a) == activeAlerts[a] # NoAlert
Resolved(a) == [alert |-> a, startsAt |-> activeAlerts[a].startsAt, endsAt |-> now]

-----------------------------------------------------------------------------
\* AddRule replaces a rule of the same id and leaves its alerts alone.
AddRule(r, body) ==
  /\ rules' = [rules EXCEPT ![r] = body]
  /\ UNCHANGED <<now, engine, work>>

\* A wrong removal: the alerts of the rule leave no trace.
RemoveForgetting(r) ==
  /\ rules[r] # Absent
  /\ rules' = [rules EXCEPT ![r] = Absent]
  /\ activeAlerts' = [a \in Alerts |-> IF a[1] = r THEN NoAlert ELSE activeAlerts[a]]
  /\ UNCHANGED <<now, alertHistory, rateLimiter, work, told, asked>>

\* RemoveRule resolves the alerts of the rule, in the order of a map; it sends
\* nothing and does not trim the history.
RemoveRule(r) ==
  /\ rules[r] # Absent
  /\ rules' = [rules EXCEPT ![r] = Absent]
  /\ LET closing == {a \in Alerts : a[1] = r /\ Active(a)}
     IN  /\ \E order \in SetToSeqs(closing) :
              alertHistory' = alertHistory \o [i \in DOMAIN order |-> Resolved(order[i])]
         /\ activeAlerts' = [a \in Alerts |-> IF a \in closing THEN NoAlert
                                                               ELSE activeAlerts[a]]
  /\ UNCHANGED <<now, rateLimiter, work, told, asked>>

\* Evaluate...Metrics keeps the rules enabled now; the sample has what it has.
Snapshot(e, sample) ==
  /\ work[e] = Idle
  /\ LET enabled == {<<r, rules[r]>> : r \in {q \in Rules : rules[q] # Absent}}
     IN  work' = [work EXCEPT ![e] =
                    [sample |-> sample,
                     left |-> {s \in enabled : s[2].enabled} \X sample]]
  /\ work'[e].left # {}
  /\ UNCHANGED <<now, rules, engine>>

\* A rule is evaluated for the whole sample before the next.
InTurn(e, s) ==
  \A q \in work[e].left : q[1] = s \/ ({q[1]} \X work[e].sample) \subseteq work[e].left

Done(e, s, t) ==
  LET left == work[e].left \ {<<s, t>>}
  IN  work' = [work EXCEPT ![e] = IF left = {} THEN Idle ELSE [@ EXCEPT !.left = left]]

\* sendNotification asks the rules of this moment for the channels.
Notifies(a) == rules[a[1]] # Absent /\ rules[a[1]].channels

\* A wrong notification: the rate limiter is asked and never told.
FireUnstamped(a, alert) ==
  LET allowed == rateLimiter[a] = Never \/ now - rateLimiter[a] >= RateLimitWindow
  IN  /\ activeAlerts' = [activeAlerts EXCEPT ![a] = [alert EXCEPT !.state = "firing"]]
      /\ rateLimiter' = rateLimiter
      /\ told' = [told EXCEPT ![a] = IF allowed /\ Notifies(a) THEN now ELSE @]

\* fireAlert: the state changes whatever the rate limiter says, and the rate
\* limiter is stamped whether or not there is a channel to notify.
Fire(a, alert) ==
  LET allowed == rateLimiter[a] = Never \/ now - rateLimiter[a] >= RateLimitWindow
  IN  /\ activeAlerts' = [activeAlerts EXCEPT ![a] = [alert EXCEPT !.state = "firing"]]
      /\ rateLimiter' = [rateLimiter EXCEPT ![a] = IF allowed THEN now ELSE @]
      /\ told' = [told EXCEPT ![a] = IF allowed /\ Notifies(a) THEN now ELSE @]

Keep(a, alert) ==
  /\ activeAlerts' = [activeAlerts EXCEPT ![a] = alert]
  /\ UNCHANGED <<rateLimiter, told>>

Trimmed(h) ==
  IF Len(h) > MaxHistorySize
  THEN SubSeq(h, Len(h) - MaxHistorySize + 1, Len(h)) ELSE h

\* A wrong wait, one instant too long.
DueLate(alert, body) == now - alert.startsAt > body.duration

\* A pending alert has been up for as long as its rule asks.
Due(alert, body) == now - alert.startsAt >= body.duration

\* processAlertStateWithLabels, the threshold exceeded.
Raise(a, body) ==
  LET fresh == [state |-> "pending", startsAt |-> now, lastEvalAt |-> now]
      alert == [activeAlerts[a] EXCEPT !.lastEvalAt = now]
  IN  /\ \/ ~Active(a) /\ body.duration = 0 /\ Fire(a, fresh)
         \/ ~Active(a) /\ body.duration # 0 /\ Keep(a, fresh)
         \/ /\ Active(a) /\ alert.state = "pending"
            /\ Due(alert, body)
            /\ Fire(a, alert)
         \/ /\ Active(a)
            /\ alert.state = "firing" \/ ~Due(alert, body)
            /\ Keep(a, alert)
      /\ asked' = [asked EXCEPT ![a] = body.duration]
      /\ alertHistory' = Trimmed(alertHistory)

\* A wrong resolution that writes the history backwards.
ResolveInFront(a) ==
  /\ Active(a)
  /\ alertHistory' = Trimmed(<<Resolved(a)>> \o alertHistory)
  /\ activeAlerts' = [activeAlerts EXCEPT ![a] = NoAlert]
  /\ UNCHANGED <<rateLimiter, told, asked>>

\* The same, the threshold not exceeded.
Resolve(a) ==
  /\ \/ /\ Active(a)
        /\ alertHistory' = Trimmed(Append(alertHistory, Resolved(a)))
        /\ activeAlerts' = [activeAlerts EXCEPT ![a] = NoAlert]
     \/ /\ ~Active(a)
        /\ alertHistory' = Trimmed(alertHistory)
        /\ UNCHANGED activeAlerts
  /\ UNCHANGED <<rateLimiter, told, asked>>

\* One turn of the evaluation: s is a rule as it was at the snapshot.
Evaluate(e, s, t) ==
  /\ <<s, t>> \in work[e].left
  /\ InTurn(e, s)
  /\ Raise(<<s[1], t>>, s[2]) \/ Resolve(<<s[1], t>>)
  /\ Done(e, s, t)
  /\ UNCHANGED <<now, rules>>

Next ==
  \/ Tick
  \/ \E r \in Rules : RemoveRule(r) \/ \E body \in Bodies : AddRule(r, body)
  \/ \E e \in Evaluators :
       \/ \E sample \in SUBSET Targets : Snapshot(e, sample)
       \/ \E s \in Rules \X Bodies, t \in Targets : Evaluate(e, s, t)

Spec == Init /\ [][Next]_vars

-----------------------------------------------------------------------------
Times == 0..MaxTime

TypeOK ==
  /\ now \in Times
  /\ rules \in [Rules -> Bodies \cup {Absent}]
  /\ activeAlerts \in [Alerts -> {NoAlert} \cup
       [state : {"pending", "firing"}, startsAt : Times, lastEvalAt : Times]]
  /\ alertHistory \in Seq([alert : Alerts, startsAt : Times, endsAt : Times])
  /\ rateLimiter \in [Alerts -> {Never} \cup Times]
  /\ work \in [Evaluators -> [sample : SUBSET Targets,
                              left : SUBSET ((Rules \X Bodies) \X Targets)]]
  /\ told \in [Alerts -> {Never} \cup Times]
  /\ asked \in [Alerts -> Nat]

\* No evaluation leaves an alert pending that has been up for as long as the
\* rule it was evaluated with asks.
NothingOverdue ==
  \A a \in Alerts : activeAlerts[a].state = "pending" =>
    activeAlerts[a].lastEvalAt - activeAlerts[a].startsAt < asked[a]

\* The history tells the resolutions in the order they happened, with each
\* alert over no earlier than it began and none of the future; removals, which
\* do not trim it, can leave it longer than its maximum, but by no more than
\* the alerts there can be at once, and the ones still active count.
HistoryInOrder ==
  /\ \A i \in 1..Len(alertHistory) :
       /\ alertHistory[i].startsAt <= alertHistory[i].endsAt
       /\ alertHistory[i].endsAt <= now
       /\ \A j \in i..Len(alertHistory) : alertHistory[i].endsAt <= alertHistory[j].endsAt
  /\ Len(alertHistory) + Cardinality({a \in Alerts : Active(a)})
       <= MaxHistorySize + Cardinality(Alerts)

\* Whatever the rules and evaluations do, two firing notifications of an alert
\* are a window apart, over resolution and rebirth and removal of its rule.
NotificationsSpaced ==
  [][\A a \in Alerts : told'[a] # told[a] =>
       told[a] = Never \/ told'[a] - told[a] >= RateLimitWindow]_vars

\* An active alert keeps its beginning and never falls back from firing; when
\* it goes, by an evaluation or with its rule, the history has it.
AlertLifecycle ==
  [][\A a \in Alerts : Active(a) =>
       IF activeAlerts'[a] = NoAlert
       THEN \E i \in DOMAIN alertHistory' : alertHistory'[i] = Resolved(a)
       ELSE /\ activeAlerts'[a].startsAt = activeAlerts[a].startsAt
            /\ activeAlerts[a].state = "firing" => activeAlerts'[a].state = "firing"
    ]_vars
=============================================================================
