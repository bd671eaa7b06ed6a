----------------------------- MODULE MCServices -----------------------------
(***************************************************************************)
(* Small instances, for TLC, of two parts that need fairness and share no  *)
(* state: a request to the CollectMetrics use case, and the life of the    *)
(* orchestrator.  The initial state says which of them moves.              *)
(***************************************************************************)
EXTENDS CollectMetrics

CONSTANTS MaxServers, Constructor

ASSUME ServicesAssumption == MaxServers \in Nat

VARIABLES part, config, ctx, main, server, current, listener, watcher, update, alerts, routine, stopped

orchestrator == <<config, ctx, main, server, current, listener, watcher, update, alerts, routine, stopped>>
MCvars == <<part, vars, orchestrator>>

O == INSTANCE Lifecycle

RequestLimits == {-1, 0, 1, 2, 3}
Names == <<"go", "sh", "go">>
Users == <<"root", "root", "ana">>
RequestFilters ==
  [names : {{}, {"go"}}, patterns : {{}, {{2, 3}}, {{1}, {3}}}, excluded : {{}, {"sh"}},
   user : {"any", "root"}]

\* An orchestrator that was taken down before the request.
OrchestratorDown ==
  /\ config = [prometheus |-> FALSE, alerting |-> FALSE, retention |-> FALSE]
  /\ ctx = "live" /\ main = "down" /\ update = "idle" /\ stopped = 0
  /\ server = [s \in O!Servers |-> "unmade"] /\ current = 0
  /\ listener = [s \in O!Servers |-> [at |-> "none", on |-> 0]]
  /\ watcher = [s \in O!Servers |-> [at |-> "none", until |-> "main"]]
  /\ alerts = "none"
  /\ routine = [r \in O!Routines |-> "none"]

MCInit ==
  /\ part \in {"request", "orchestrator"}
  /\ Init
  /\ IF part = "orchestrator" THEN O!Init ELSE OrchestratorDown

MCNext ==
  \/ part = "request" /\ Next /\ UNCHANGED <<part, orchestrator>>
  \/ part = "orchestrator" /\ O!Next /\ UNCHANGED <<part, vars>>

\* The part that does not move enables none of the actions of its fairness.
MCSpec == MCInit /\ [][MCNext]_MCvars /\ Fairness /\ O!Fairness

-----------------------------------------------------------------------------
\* Lifecycle: nothing listens once Shutdown has stopped the exporter, unless
\* UpdateConfig started a server since.
AfterShutdownNothingListens == O!AfterShutdownNothingListens

\* Lifecycle: a cancelled context ends every loop the orchestrator started.
CancelEndsRoutines == O!CancelEndsRoutines
=============================================================================
