-------------------------- MODULE MCAlertingEngine --------------------------
(***************************************************************************)
(* Small instances of AlertingEngine for TLC (a rule that fires at once, a *)
(* rule that waits and notifies nobody, one that is disabled) and of the   *)
(* questions asked of the engine.                                          *)
(***************************************************************************)
EXTENDS AlertingEngine, AlertQueries, TLC

MCBodies ==
  {[duration |-> 0, enabled |-> TRUE, channels |-> TRUE],
   [duration |-> 2, enabled |-> TRUE, channels |-> FALSE],
   [duration |-> 0, enabled |-> FALSE, channels |-> TRUE]}

\* What the engine answers of values, rules and histories is right for every
\* small one: asked once, before the clock moves, since no state enters into it.
AlertAnswersAreRight == now = 0 => EveryAlertAnswerIsRight

Symmetry == Permutations(Rules) \cup Permutations(Targets) \cup Permutations(Evaluators)
=============================================================================
