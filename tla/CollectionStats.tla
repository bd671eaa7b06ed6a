--------------------------- MODULE CollectionStats ---------------------------
(***************************************************************************)
(* What the orchestrator counts (application/services/orchestrator.go):    *)
(* callers of CollectMetrics, the cycles of the continuous collection and  *)
(* the health checker meet in o.collectionStats and o.healthStatus.  Each  *)
(* critical section of o.mu is one step; between the steps of one call     *)
(* everybody else may count.  Durations and error texts are left out.      *)
(***************************************************************************)
EXTENDS Integers, FiniteSets

CONSTANTS
  Callers,   \* goroutines that call CollectMetrics
  MaxCounted \* bound on the collections and the cycles counted

ASSUME StatsAssumption == IsFiniteSet(Callers) /\ MaxCounted \in Nat

VARIABLES
  stats,     \* o.collectionStats
  executing, \* callers between the two critical sections of CollectMetrics
  health,    \* o.healthStatus.Metrics
  checking,  \* what the health checker read and has not yet published
  cycles,    \* ghost: cycles of the continuous collection counted
  past       \* ghost: the values stats has had

vars == <<stats, executing, health, checking, cycles, past>>

NoRead == [total |-> -1, failed |-> -1]
Counters == [total : Nat, successful : Nat, failed : Nat]

Init ==
  /\ stats = [total |-> 0, successful |-> 0, failed |-> 0]
  /\ executing = {}
  /\ health = [total |-> 0, failed |-> 0]
  /\ checking = NoRead
  /\ cycles = 0
  /\ past = {[total |-> 0, failed |-> 0]}

Errors(s) == [total |-> s.total, failed |-> s.failed]

Outcome(ok) ==
  IF ok THEN [stats EXCEPT !.successful = @ + 1] ELSE [stats EXCEPT !.failed = @ + 1]

Remember == past' = past \cup {Errors(stats')}

CollectBegin(p) ==
  /\ p \notin executing
  /\ stats.total < MaxCounted
  /\ stats' = [stats EXCEPT !.total = @ + 1]
  /\ executing' = executing \cup {p}
  /\ Remember
  /\ UNCHANGED <<health, checking, cycles>>

\* A wrong end: the error path returns before it counts.
CollectEndUncounted(p, ok) ==
  /\ p \in executing
  /\ stats' = IF ok THEN Outcome(ok) ELSE stats
  /\ executing' = executing \ {p}
  /\ Remember
  /\ UNCHANGED <<health, checking, cycles>>

\* The collection succeeded, failed, or was refused by the validation.
CollectEnd(p, ok) ==
  /\ p \in executing
  /\ stats' = Outcome(ok)
  /\ executing' = executing \ {p}
  /\ Remember
  /\ UNCHANGED <<health, checking, cycles>>

\* The callback of the continuous collection does not count in total.
Cycle(ok) ==
  /\ cycles < MaxCounted
  /\ stats' = Outcome(ok)
  /\ cycles' = cycles + 1
  /\ Remember
  /\ UNCHANGED <<executing, health, checking>>

\* performHealthCheck copies the counters under the lock, computes the error
\* rate without it and publishes under the lock again.
HealthRead ==
  /\ checking = NoRead
  /\ checking' = Errors(stats)
  /\ UNCHANGED <<stats, executing, health, cycles, past>>

\* A wrong publication, which reads the total a second time.
PublishMixed ==
  /\ checking # NoRead
  /\ health' = [total |-> stats.total, failed |-> checking.failed]
  /\ checking' = NoRead
  /\ UNCHANGED <<stats, executing, cycles, past>>

HealthPublish ==
  /\ checking # NoRead
  /\ health' = checking
  /\ checking' = NoRead
  /\ UNCHANGED <<stats, executing, cycles, past>>

Next ==
  \/ \E p \in Callers :
       CollectBegin(p) \/ (\E ok \in BOOLEAN : CollectEnd(p, ok))
  \/ \E ok \in BOOLEAN : Cycle(ok)
  \/ HealthRead
  \/ HealthPublish

Spec == Init /\ [][Next]_vars

-----------------------------------------------------------------------------
Reading == [total : Nat, failed : Nat]

TypeOK ==
  /\ stats \in Counters
  /\ executing \subseteq Callers
  /\ health \in Reading
  /\ checking \in Reading \cup {NoRead}
  /\ cycles \in Nat
  /\ past \subseteq Reading

\* No collection is lost or counted twice: every one begun, and every cycle,
\* has one outcome or is still executing.
Accounted ==
  stats.total + cycles = stats.successful + stats.failed + Cardinality(executing)

\* The health the orchestrator reports was true at one moment: a total never
\* stands beside a failure count of another time.
HealthWasTrue == health \in past

\* Health never goes back to an older reading.
HealthMovesOn ==
  [][health'.total >= health.total /\ health'.failed >= health.failed]_vars
=============================================================================
