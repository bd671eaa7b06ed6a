------------------------------ MODULE Lifecycle ------------------------------
(***************************************************************************)
(* What the orchestrator starts in Initialize and takes down in Shutdown   *)
(* (application/services/orchestrator.go), with the goroutines it leaves   *)
(* behind: the health and clean-up routines, the loop of the alerting      *)
(* engine (infrastructure/alerting/engine.go) and the HTTP server of the   *)
(* Prometheus exporter (infrastructure/export/prometheus.go), which        *)
(* another caller may reconfigure meanwhile.                               *)
(*                                                                         *)
(* Start of the exporter leaves two goroutines: the server's, which calls  *)
(* e.server.ListenAndServe, and the watcher, which waits for the context   *)
(* of Start or for the end of ListenAndServe.  Both read the field         *)
(* e.server (here current) when they run, not when they were started.      *)
(* Stopping a continuous collection, the first step of Shutdown, is        *)
(* modelled by ContinuousCollection.                                       *)
(***************************************************************************)
EXTENDS Naturals

CONSTANTS
  MaxServers,    \* bound: servers made by Start, the first by Initialize
  Constructor    \* how NewPrometheusExporter ends: a subset of {"returns", "panics"}

VARIABLES
  config,      \* what the configuration enables
  ctx,         \* whether the context of Initialize is cancelled
  main,        \* where the caller of Initialize and then Shutdown is
  server,      \* the state of each HTTP server
  current,     \* e.server: the last server made, 0 for nil
  listener,    \* per server, the goroutine Start left to call ListenAndServe
  watcher,     \* per server, the goroutine Start left to wait
  update,      \* the caller of UpdateConfig
  alerts,      \* the loop of the alerting engine
  routine,     \* the health and the clean-up routine
  stopped      \* history: the last server the exporter had when Shutdown stopped it

vars == <<config, ctx, main, server, current, listener, watcher, update, alerts, routine, stopped>>
exporter == <<server, current, listener, watcher>>

Servers == 1..MaxServers
Routines == {"health", "cleanup"}

Init ==
  /\ config \in [prometheus : BOOLEAN, alerting : BOOLEAN, retention : BOOLEAN]
  /\ ctx = "live" /\ main = "new" /\ update = "idle" /\ stopped = 0
  /\ server = [s \in Servers |-> "unmade"] /\ current = 0
  /\ listener = [s \in Servers |-> [at |-> "none", on |-> 0]]
  /\ watcher = [s \in Servers |-> [at |-> "none", until |-> "main"]]
  /\ alerts = "none"
  /\ routine = [r \in Routines |-> "none"]

Cancelled(until) == until = "main" /\ ctx = "cancelled"

Step(from, to) == main = from /\ main' = to

-----------------------------------------------------------------------------
(* The server of the exporter. *)

\* Start: a new server is made, and both goroutines are left to run.
StartExporter(until) ==
  /\ current < MaxServers
  /\ current' = current + 1
  /\ server' = [server EXCEPT ![current + 1] = "made"]
  /\ listener' = [listener EXCEPT ![current + 1].at = "begun"]
  /\ watcher' = [watcher EXCEPT ![current + 1] = [at |-> "waiting", until |-> until]]

\* A Stop that cared only for a server that is listening.
ClosedIfListening ==
  IF current = 0 \/ server[current] # "listening" THEN server ELSE [server EXCEPT ![current] = "closed"]

\* http.Server.Shutdown closes the listeners and refuses later ones, whether
\* or not it then times out on connections that stay busy.
Closed == IF current = 0 THEN server ELSE [server EXCEPT ![current] = "closed"]

\* Stop of whatever server the field names.
StopExporter ==
  /\ server' = Closed
  /\ UNCHANGED <<current, listener, watcher>>

\* ListenAndServe on whatever server the field names now: it is refused by a
\* server that was shut down, and by the port when that is taken.
Listen(s) ==
  /\ listener[s].at = "begun"
  /\ \/ /\ server[current] = "made"
        /\ server' = [server EXCEPT ![current] = "listening"]
        /\ listener' = [listener EXCEPT ![s] = [at |-> "serving", on |-> current]]
     \/ /\ listener' = [listener EXCEPT ![s].at = "returned"]
        /\ UNCHANGED server
  /\ UNCHANGED <<config, ctx, main, current, watcher, update, alerts, routine, stopped>>

\* ListenAndServe returns once its server is shut down.
ListenReturns(s) ==
  /\ listener[s].at = "serving" /\ server[listener[s].on] = "closed"
  /\ listener' = [listener EXCEPT ![s].at = "returned"]
  /\ UNCHANGED <<config, ctx, main, server, current, watcher, update, alerts, routine, stopped>>

\* The watcher sees its context cancelled and shuts the server down.
WatchCancel(s) ==
  /\ watcher[s].at = "waiting" /\ Cancelled(watcher[s].until)
  /\ watcher' = [watcher EXCEPT ![s].at = "ended"]
  /\ server' = Closed
  /\ UNCHANGED <<config, ctx, main, current, listener, update, alerts, routine, stopped>>

\* The watcher receives what ListenAndServe returned.
WatchReturn(s) ==
  /\ watcher[s].at = "waiting" /\ listener[s].at = "returned"
  /\ watcher' = [watcher EXCEPT ![s].at = "ended"]
  /\ UNCHANGED <<config, ctx, main, server, current, listener, update, alerts, routine, stopped>>

-----------------------------------------------------------------------------
(* UpdateConfig with another port or path, by a caller that holds e.mu.    *)
(* Neither Stop nor Start takes that lock.                                 *)

UpdateStop ==
  /\ main = "up" /\ update = "idle" /\ current \in 1..(MaxServers - 1)
  /\ update' \in {"starting", "idle"}   \* Shutdown of the server may time out: an error, and the end
  /\ StopExporter
  /\ UNCHANGED <<config, ctx, main, alerts, routine, stopped>>

\* The new server is started on a context nobody can cancel.
UpdateStart ==
  /\ update = "starting" /\ update' = "idle"
  /\ StartExporter("background")
  /\ UNCHANGED <<config, ctx, main, alerts, routine, stopped>>
-----------------------------------------------------------------------------
(* Initialize. *)

InitializeCollector ==
  /\ main = "new" /\ main' \in {"repository", "failed"}
  /\ UNCHANGED <<config, ctx, exporter, update, alerts, routine, stopped>>

\* Ping is what can fail of the repository.
InitializeRepository ==
  /\ main = "repository" /\ main' \in {"exporter", "failed"}
  /\ UNCHANGED <<config, ctx, exporter, update, alerts, routine, stopped>>

\* As client_golang stands, registering the Go collector twice
\* (registerMetrics) panics; what a constructor that returns leads to is kept.
InitializeExporter ==
  /\ \/ /\ ~config.prometheus /\ Step("exporter", "alerting")
        /\ UNCHANGED exporter
     \/ /\ config.prometheus /\ "returns" \in Constructor
        /\ Step("exporter", "alerting")
        /\ StartExporter("main")
     \/ /\ config.prometheus /\ "panics" \in Constructor
        /\ Step("exporter", "panicked")
        /\ UNCHANGED exporter
  /\ UNCHANGED <<config, ctx, update, alerts, routine, stopped>>

InitializeAlerting ==
  /\ Step("alerting", "health")
  /\ alerts' = IF config.alerting THEN "outside" ELSE "none"
  /\ UNCHANGED <<config, ctx, exporter, update, routine, stopped>>

StartRoutines ==
  /\ Step("health", "up")
  /\ routine' = [health |-> "outside", cleanup |-> IF config.retention THEN "outside" ELSE "none"]
  /\ UNCHANGED <<config, ctx, exporter, update, alerts, stopped>>

-----------------------------------------------------------------------------
(* Shutdown, of an orchestrator that is up or that failed to initialize.   *)

BeginShutdown ==
  /\ main \in {"up", "failed"} /\ main' = "stop_exporter"
  /\ UNCHANGED <<config, ctx, exporter, update, alerts, routine, stopped>>

ShutdownExporter ==
  /\ Step("stop_exporter", "stop_alerting")
  /\ StopExporter
  /\ stopped' = current
  /\ UNCHANGED <<config, ctx, update, alerts, routine>>

\* The engine's Stop offers its signal and does not wait: a loop that is not
\* in its select misses it.
ShutdownAlerting ==
  /\ Step("stop_alerting", "cleanup")
  /\ alerts' = IF alerts = "select" THEN "ended" ELSE alerts
  /\ UNCHANGED <<config, ctx, exporter, update, routine, stopped>>

\* Cleaning up the collector, closing the repository and the logger; the
\* routines of this module are not waited for.
ShutdownRest ==
  /\ Step("cleanup", "down")
  /\ UNCHANGED <<config, ctx, exporter, update, alerts, routine, stopped>>

\* The owner of the context cancels it, at any time.
Cancel ==
  /\ ctx = "live" /\ ctx' = "cancelled"
  /\ UNCHANGED <<config, main, exporter, update, alerts, routine, stopped>>

-----------------------------------------------------------------------------
(* The loops, each either in its select or outside it. *)

\* The alerting loop enters its select, ...
AlertsWait ==
  /\ alerts = "outside" /\ alerts' = "select"
  /\ UNCHANGED <<config, ctx, main, exporter, update, routine, stopped>>

\* ... leaves it for a tick, until Stop has stopped the ticker, ...
AlertsTick ==
  /\ alerts = "select" /\ alerts' = "outside"
  /\ main \notin {"cleanup", "down"}
  /\ UNCHANGED <<config, ctx, main, exporter, update, routine, stopped>>

\* ... or ends with the context.
AlertsEnd ==
  /\ alerts = "select" /\ ctx = "cancelled" /\ alerts' = "ended"
  /\ UNCHANGED <<config, ctx, main, exporter, update, routine, stopped>>

RoutineWait(r) ==
  /\ routine[r] = "outside" /\ routine' = [routine EXCEPT ![r] = "select"]
  /\ UNCHANGED <<config, ctx, main, exporter, update, alerts, stopped>>

RoutineTick(r) ==
  /\ routine[r] = "select" /\ routine' = [routine EXCEPT ![r] = "outside"]
  /\ UNCHANGED <<config, ctx, main, exporter, update, alerts, stopped>>

\* A routine that ended with the shutdown and not with the context.
RoutineEndOnShutdown(r) ==
  /\ routine[r] = "select" /\ main = "down"
  /\ routine' = [routine EXCEPT ![r] = "ended"]
  /\ UNCHANGED <<config, ctx, main, exporter, update, alerts, stopped>>

RoutineEnd(r) ==
  /\ routine[r] = "select" /\ ctx = "cancelled"
  /\ routine' = [routine EXCEPT ![r] = "ended"]
  /\ UNCHANGED <<config, ctx, main, exporter, update, alerts, stopped>>

-----------------------------------------------------------------------------
Initialize ==
  InitializeCollector \/ InitializeRepository \/ InitializeExporter \/ InitializeAlerting \/ StartRoutines

Shutdown == BeginShutdown \/ ShutdownExporter \/ ShutdownAlerting \/ ShutdownRest

Next ==
  \/ Initialize \/ Shutdown \/ Cancel
  \/ UpdateStop \/ UpdateStart
  \/ AlertsWait \/ AlertsTick \/ AlertsEnd
  \/ \E s \in Servers : Listen(s) \/ ListenReturns(s) \/ WatchCancel(s) \/ WatchReturn(s)
  \/ \E r \in Routines : RoutineWait(r) \/ RoutineTick(r) \/ RoutineEnd(r)

\* Runnable goroutines run.  A select whose context is cancelled takes that
\* case at some visit, since Go chooses among the ready cases at random.
Fairness ==
  /\ WF_vars(Initialize) /\ WF_vars(UpdateStart)
  /\ WF_vars(AlertsWait) /\ SF_vars(AlertsEnd)
  /\ \A s \in Servers : WF_vars(Listen(s)) /\ WF_vars(ListenReturns(s)) /\ WF_vars(WatchCancel(s) \/ WatchReturn(s))
  /\ \A r \in Routines : WF_vars(RoutineWait(r)) /\ SF_vars(RoutineEnd(r))

Spec == Init /\ [][Next]_vars /\ Fairness

-----------------------------------------------------------------------------
\* Once Shutdown has stopped the exporter no server listens, not even one
\* whose goroutine calls ListenAndServe only afterwards, unless UpdateConfig
\* has started another one since.
AfterShutdownNothingListens ==
  main \in {"stop_alerting", "cleanup", "down"} /\ current = stopped =>
    \A s \in Servers : server[s] # "listening"

\* Cancelling the context ends the routines and the alerting loop, whatever
\* signal the loop missed, and the server, unless UpdateConfig replaced it.
CancelEndsRoutines ==
  ctx = "cancelled" /\ main = "up" ~>
    /\ \A r \in Routines : routine[r] \in {"none", "ended"}
    /\ alerts \in {"none", "ended"}
    /\ current < 2 => \A s \in Servers : server[s] # "listening"
=============================================================================
