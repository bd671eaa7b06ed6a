---------------------------- MODULE AlertQueries ----------------------------
(***************************************************************************)
(* What the alerting engine (infrastructure/alerting/engine.go) and its    *)
(* use case (application/usecases/alerting.go) answer without changing an  *)
(* alert: comparing a sample with a threshold, trying a rule on a value,   *)
(* loading rules, and the views of alerts and history.                     *)
(***************************************************************************)
EXTENDS Integers, Sequences, FiniteSets

CONSTANTS
  MaxValue,   \* bound: values and thresholds
  MaxHistory  \* bound: length of a history, rules loaded at once

ASSUME AnswersAssumption == MaxValue \in Nat /\ MaxHistory \in Nat

Values == 0..MaxValue

Symbol == [gt |-> ">", gte |-> ">=", lt |-> "<", lte |-> "<=", eq |-> "==", ne |-> "!="]
Operators == DOMAIN Symbol \cup {Symbol[o] : o \in DOMAIN Symbol}

\* A comparison that takes >= for >.
evaluateThresholdInclusive(value, threshold, op) ==
  \/ op \in {"gt", ">", "gte", ">="} /\ value >= threshold
  \/ op \in {"lt", "<"}   /\ value < threshold
  \/ op \in {"lte", "<="} /\ value <= threshold
  \/ op \in {"eq", "=="}  /\ value = threshold
  \/ op \in {"ne", "!="}  /\ value # threshold

\* evaluateThreshold: an operator it does not know holds of nothing.
evaluateThreshold(value, threshold, op) ==
  \/ op \in {"gt", ">"}   /\ value > threshold
  \/ op \in {"gte", ">="} /\ value >= threshold
  \/ op \in {"lt", "<"}   /\ value < threshold
  \/ op \in {"lte", "<="} /\ value <= threshold
  \/ op \in {"eq", "=="}  /\ value = threshold
  \/ op \in {"ne", "!="}  /\ value # threshold

\* TestAlertRule, which compares by itself: its verdict, and whether it knows
\* the rule and the operator.
TestAlertRule(rules, id, sample) ==
  LET known(r) == r.id = id
      verdict(r) ==
        CASE r.operator \in {"gt", ">"}   -> sample > r.threshold
          [] r.operator \in {"gte", ">="} -> sample >= r.threshold
          [] r.operator \in {"lt", "<"}   -> sample < r.threshold
          [] r.operator \in {"lte", "<="} -> sample <= r.threshold
          [] r.operator \in {"eq", "=="}  -> sample = r.threshold
          [] r.operator \in {"ne", "!="}  -> sample # r.threshold
          [] OTHER -> FALSE
  IN  [would |-> \E r \in rules : known(r) /\ verdict(r),
       says |-> IF ~\E r \in rules : known(r) THEN "not found"
                ELSE IF \E r \in rules : known(r) /\ r.operator \notin Operators THEN "unknown operator"
                ELSE "tried"]

\* The metrics a rule can watch: of the system, and of each process.  A rule
\* on another metric is passed over.
SystemMetricTypes == {"cpu_usage", "memory_usage", "memory_available",
                      "load_average_1", "load_average_5", "load_average_15", "swap_usage"}
ProcessMetricTypes == {"process_cpu", "process_memory", "process_threads", "process_open_files"}

\* The alerts one evaluation of a rule decides, each with whether it is up:
\* the id is the rule and its metric, and for a process its pid.
evaluateSystemRule(rule, sample) ==
  IF rule.metric \notin SystemMetricTypes THEN {}
  ELSE {[alert |-> <<rule.id, rule.metric>>,
         up |-> evaluateThreshold(sample[rule.metric], rule.threshold, rule.operator)]}

evaluateProcessRule(rule, processes) ==
  IF rule.metric \notin ProcessMetricTypes THEN {}
  ELSE {[alert |-> <<rule.id, rule.metric, p.pid>>,
         up |-> evaluateThreshold(p.value, rule.threshold, rule.operator)] : p \in processes}

-----------------------------------------------------------------------------
\* AddRule fills in what a rule leaves out, and refuses one without an id.
Filled(rule, defaultSeverity) ==
  [rule EXCEPT !.name = IF @ = "" THEN rule.id ELSE @,
               !.severity = IF @ = "" THEN defaultSeverity ELSE @]

\* LoadRules stops at the first rule that is refused; those before it stay.
LoadRules(rules, list) ==
  LET refused == {i \in DOMAIN list : list[i].id = ""}
      loaded  == {i \in DOMAIN list : \A j \in refused : i < j}
      last(id) == CHOOSE i \in loaded : list[i].id = id /\ \A j \in loaded : list[j].id = id => j <= i
      ids     == {list[i].id : i \in loaded}
  IN  [failed |-> refused # {},
       rules |-> {r \in rules : r.id \notin ids} \cup {Filled(list[last(id)], "warning") : id \in ids}]

GetRule(rules, id) == {r \in rules : r.id = id}

\* The newest of the history, all of it for a limit that says nothing.
GetAlertHistory(history, limit) ==
  LET n == IF limit <= 0 \/ limit > Len(history) THEN Len(history) ELSE limit
  IN  SubSeq(history, Len(history) - n + 1, Len(history))

GetStatistics(rules, alerts, history) ==
  [totalRules |-> Cardinality(rules), enabledRules |-> Cardinality({r \in rules : r.enabled}),
   activeAlerts |-> Cardinality(alerts), historySize |-> Len(history),
   firingAlerts |-> Cardinality({a \in alerts : a.state = "firing"}),
   pendingAlerts |-> Cardinality({a \in alerts : a.state = "pending"})]

-----------------------------------------------------------------------------
Rule(id, operator, threshold) ==
  [id |-> id, name |-> "", severity |-> "", operator |-> operator, threshold |-> threshold,
   metric |-> "cpu_usage", enabled |-> TRUE]

Ids == {"", "a", "b"}

\* The two comparisons of the program agree on every operator, and each
\* operator is the opposite of its opposite.
ComparisonsAgree ==
  \A v \in Values, t \in Values :
    /\ \A op \in Operators \cup {"about"} :
         LET tried == TestAlertRule({Rule("a", op, t)}, "a", v)
         IN  /\ tried.would = evaluateThreshold(v, t, op)
             /\ tried.says = "tried" <=> op \in Operators
             /\ \A d \in evaluateSystemRule(Rule("a", op, t), [cpu_usage |-> v]) : d.up = tried.would
    /\ \A p \in {<<"gt", "lte">>, <<"lt", "gte">>, <<"eq", "ne">>} :
         evaluateThreshold(v, t, p[1]) # evaluateThreshold(v, t, p[2])

\* Two processes never share an alert, and a rule on a metric of the system
\* decides nothing of a process.
AlertsAreApart ==
  \A metric \in SystemMetricTypes \cup ProcessMetricTypes \cup {"disk"} :
    LET rule == [Rule("a", ">", 0) EXCEPT !.metric = metric]
        processes == [pid : {1, 2}, value : {1}]
        decided == evaluateProcessRule(rule, processes)
    IN  /\ Cardinality(decided) \in {0, Cardinality(processes)}
        /\ decided # {} => evaluateSystemRule(rule, [m \in SystemMetricTypes |-> 0]) = {}

\* A load that fails leaves the rules before the bad one, and no rule without
\* an id; the last of an id wins.
LoadsArePrefixes ==
  \A ids \in UNION {[1..n -> Ids] : n \in 0..MaxHistory} :
    LET list == [i \in DOMAIN ids |-> Rule(ids[i], ">", i)]
        loaded == LoadRules({}, list)
        good == {i \in DOMAIN ids : \A j \in 1..i : ids[j] # ""}
    IN  /\ {r.id : r \in loaded.rules} = {ids[i] : i \in good}
        /\ loaded.failed = (good # DOMAIN ids)
        /\ \A i \in good : \E r \in GetRule(loaded.rules, ids[i]) : r.name = ids[i] /\ r.threshold >= i

\* A history read is the newest part of the history; the statistics add up.
ViewsAddUp ==
  /\ \A n \in 0..MaxHistory, limit \in -1..(MaxHistory + 1) :
       LET history == [i \in 1..n |-> i]
           read == GetAlertHistory(history, limit)
       IN  /\ Len(read) = (IF limit \in 1..n THEN limit ELSE n)
           /\ read # << >> => read[Len(read)] = n
  /\ \A states \in [1..MaxHistory -> {"firing", "pending"}] :
       LET s == GetStatistics({}, {[id |-> i, state |-> states[i]] : i \in 1..MaxHistory}, << >>)
       IN  s.firingAlerts + s.pendingAlerts = s.activeAlerts

EveryAlertAnswerIsRight == ComparisonsAgree /\ AlertsAreApart /\ LoadsArePrefixes /\ ViewsAddUp
=============================================================================
