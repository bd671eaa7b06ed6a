------------------------ MODULE ContinuousCollection ------------------------
(***************************************************************************)
(* The life of the continuous collection: the goroutines that call the     *)
(* orchestrator (application/services/orchestrator.go), the Linux          *)
(* collector under it (infrastructure/collector/linux/collector.go) and    *)
(* the collection goroutine the collector starts.  They meet in two locks, *)
(* the orchestrator's o.mu and the collector's c.mu.                       *)
(*                                                                         *)
(* A critical section that cannot block is one step, enabled when its lock *)
(* is free; a lock kept across a step that can block is recorded in omu or *)
(* cmu.  A stopChan/doneChan pair is a number: gen is the pair in the      *)
(* collector's fields.  Contexts are numbered like the goroutines that     *)
(* listen to them.  What is collected and counted is left out: see         *)
(* CollectionStats.                                                        *)
(***************************************************************************)
EXTENDS Integers, FiniteSets

CONSTANTS
  Callers,   \* goroutines that use the orchestrator
  Ops,       \* the operations they call
  MaxStarts, \* bound on the collection goroutines started
  Free       \* the holder of a lock nobody holds

ASSUME CollectionAssumption ==
  /\ Ops \subseteq {"start", "stop", "shutdown", "update", "collect", "batch",
               "cancel"}
  /\ IsFiniteSet(Callers)
  /\ MaxStarts \in Nat
  /\ Free \notin Callers

VARIABLES
  omu, running, cancelOf,            \* orchestrator: o.mu, running, continuousCancel
  cmu, continuous, gen,              \* collector: c.mu, continuous, stopChan/doneChan
  stopClosed, doneClosed,            \* the channels closed so far
  cancelled,                         \* the contexts done
  started, loop,                     \* collection goroutines
  caller,                            \* callers: operation and place in it
  panicked                           \* a closed channel was closed again

orchestrator == <<omu, running, cancelOf>>
collector == <<cmu, continuous, gen, stopClosed>>
loops == <<started, loop, doneClosed>>
vars == <<orchestrator, collector, loops, cancelled, caller, panicked>>

Loops == 1..MaxStarts
Places == {"idle", "called", "starting", "stopping", "awaiting", "stopped",
           "checking", "relocking", "running", "recording"}
Live == {"spawned", "select", "collecting", "callback"}

Returned == [op |-> "none", at |-> "idle"]
At(p, op, place) == caller[p] = [op |-> op, at |-> place]
Goto(p, op, place) == caller' = [caller EXCEPT ![p] = [op |-> op, at |-> place]]
Return(p) == caller' = [caller EXCEPT ![p] = Returned]

Init ==
  /\ omu = Free /\ running = FALSE /\ cancelOf = 0
  /\ cmu = Free /\ continuous = FALSE /\ gen = 0
  /\ stopClosed = {} /\ doneClosed = {}
  /\ cancelled = {}
  /\ started = 0
  /\ loop = [l \in Loops |-> [pc |-> "none", stop |-> 0, done |-> 0]]
  /\ caller = [p \in Callers |-> Returned]
  /\ panicked = FALSE

-----------------------------------------------------------------------------
(***************************************************************************)
(* Calls.  A caller waits at "called" for o.mu.                            *)
(***************************************************************************)
Starting == {p \in Callers : caller[p].op = "start"}

Call(p, op) ==
  /\ caller[p] = Returned
  /\ op # "cancel"
  /\ op = "start" => started + Cardinality(Starting) < MaxStarts
  /\ Goto(p, op, "called")
  /\ UNCHANGED <<orchestrator, collector, loops, cancelled, panicked>>

\* A wrong start: the failing return forgets to unlock.
StartLockKept(p) ==
  /\ At(p, "start", "called")
  /\ omu = Free
  /\ omu' = p
  /\ \/ running /\ Return(p)
     \/ ~running /\ Goto(p, "start", "starting")
  /\ UNCHANGED <<running, cancelOf, collector, loops, cancelled, panicked>>

\* StartContinuousCollection takes o.mu for as long as it takes to start the
\* collector; it fails when running.
StartLock(p) ==
  /\ At(p, "start", "called")
  /\ omu = Free
  /\ \/ running /\ Return(p) /\ omu' = omu
     \/ ~running /\ Goto(p, "start", "starting") /\ omu' = p
  /\ UNCHANGED <<running, cancelOf, collector, loops, cancelled, panicked>>

\* The collector refuses while continuous is set: the new context is cancelled
\* at once and nobody listens to it.  Otherwise a goroutine is spawned.
StartCollector(p) ==
  /\ At(p, "start", "starting")
  /\ cmu = Free
  /\ IF continuous
     THEN /\ cancelOf' = 0
          /\ UNCHANGED <<running, continuous, started, loop>>
     ELSE /\ continuous' = TRUE
          /\ running' = TRUE
          /\ started' = started + 1
          /\ cancelOf' = started + 1
          /\ loop' = [loop EXCEPT ![started + 1].pc = "spawned"]
  /\ omu' = Free
  /\ Return(p)
  /\ UNCHANGED <<cmu, gen, stopClosed, doneClosed, cancelled, panicked>>

\* StopContinuousCollection of the orchestrator, also the first thing Shutdown
\* does: nothing when not running, else it cancels the context and goes on to
\* the collector with o.mu held.
StopLock(p) ==
  /\ At(p, "stop", "called") \/ At(p, "shutdown", "called")
  /\ omu = Free
  /\ \/ /\ ~running
        /\ IF caller[p].op = "shutdown" THEN Goto(p, "cleanup", "checking")
                                        ELSE Return(p)
        /\ UNCHANGED <<omu, cancelled>>
     \/ /\ running
        /\ omu' = p
        /\ cancelled' = IF cancelOf \in Loops THEN cancelled \cup {cancelOf}
                                              ELSE cancelled
        /\ Goto(p, caller[p].op, "stopping")
  /\ UNCHANGED <<running, cancelOf, collector, loops, panicked>>

\* Where a caller goes once the collector's StopContinuousCollection returns.
\* Only the orchestrator's own stop goes on to clear running, and only when
\* the collector did stop.
AfterFailedStop(p) ==
  CASE caller[p].op = "stop"     -> Return(p) /\ omu' = Free
    [] caller[p].op = "shutdown" -> Goto(p, "cleanup", "checking") /\ omu' = Free
    [] caller[p].op = "cleanup"  -> Return(p) /\ omu' = omu

\* StopContinuousCollection of the collector holds c.mu from here until the
\* goroutine is done.
CollectorStop(p) ==
  /\ caller[p].at = "stopping"
  /\ cmu = Free
  /\ \/ /\ ~continuous
        /\ AfterFailedStop(p)
        /\ UNCHANGED <<cmu, stopClosed, panicked>>
     \/ /\ continuous
        /\ cmu' = p
        /\ stopClosed' = stopClosed \cup {gen}
        /\ panicked' = (gen \in stopClosed)
        /\ Goto(p, caller[p].op, "awaiting")
        /\ UNCHANGED omu
  /\ UNCHANGED <<running, cancelOf, continuous, gen, loops, cancelled>>

\* Two wrong ends of a stop: one that does not wait for the goroutine, one
\* that does not make new channels.
StoppedAtOnce(p) ==
  /\ caller[p].at = "awaiting"
  /\ continuous' = FALSE
  /\ gen' = gen + 1
  /\ cmu' = Free
  /\ IF caller[p].op = "cleanup" THEN Return(p)
                                 ELSE Goto(p, caller[p].op, "stopped")
  /\ UNCHANGED <<orchestrator, stopClosed, loops, cancelled, panicked>>

StoppedWithOldChannels(p) ==
  /\ caller[p].at = "awaiting"
  /\ gen \in doneClosed
  /\ continuous' = FALSE
  /\ cmu' = Free
  /\ IF caller[p].op = "cleanup" THEN Return(p)
                                 ELSE Goto(p, caller[p].op, "stopped")
  /\ UNCHANGED <<orchestrator, gen, stopClosed, loops, cancelled, panicked>>

\* <-doneChan; then new channels, and c.mu is released.
CollectorStopped(p) ==
  /\ caller[p].at = "awaiting"
  /\ gen \in doneClosed
  /\ continuous' = FALSE
  /\ gen' = gen + 1
  /\ cmu' = Free
  /\ IF caller[p].op = "cleanup" THEN Return(p)
                                 ELSE Goto(p, caller[p].op, "stopped")
  /\ UNCHANGED <<orchestrator, stopClosed, loops, cancelled, panicked>>

StopUnlock(p) ==
  /\ caller[p].at = "stopped"
  /\ running' = FALSE
  /\ omu' = Free
  /\ IF caller[p].op = "shutdown" THEN Goto(p, "cleanup", "checking")
                                  ELSE Return(p)
  /\ UNCHANGED <<cancelOf, collector, loops, cancelled, panicked>>

\* Shutdown goes on to the collector's Cleanup, which reads continuous without
\* the lock before it stops the collector.
CleanupCheck(p) ==
  /\ At(p, "cleanup", "checking")
  /\ IF continuous THEN Goto(p, "cleanup", "stopping") ELSE Return(p)
  /\ UNCHANGED <<orchestrator, collector, loops, cancelled, panicked>>

\* UpdateConfiguration keeps o.mu while it calls StopContinuousCollection,
\* which locks o.mu: at "relocking" it waits for itself, so no action leads on.
UpdateLock(p) ==
  /\ At(p, "update", "called")
  /\ omu = Free
  /\ \/ Return(p) /\ omu' = omu            \* interval unchanged, or not running
     \/ running /\ Goto(p, "update", "relocking") /\ omu' = p
  /\ UNCHANGED <<running, cancelOf, collector, loops, cancelled, panicked>>

\* CollectMetrics counts under o.mu, collects without it, counts again.
CollectBegin(p) ==
  /\ At(p, "collect", "called") \/ At(p, "batch", "called")
  /\ omu = Free
  /\ Goto(p, caller[p].op, "running")
  /\ UNCHANGED <<orchestrator, collector, loops, cancelled, panicked>>

\* A batch collection is a CollectAll under c.mu, a single one takes no lock.
CollectRun(p) ==
  /\ At(p, "collect", "running") \/ (At(p, "batch", "running") /\ cmu = Free)
  /\ Goto(p, caller[p].op, "recording")
  /\ UNCHANGED <<orchestrator, collector, loops, cancelled, panicked>>

\* A wrong end: the lock is not released.
CollectEndLocked(p) ==
  /\ caller[p].at = "recording"
  /\ omu = Free
  /\ omu' = p
  /\ Return(p)
  /\ UNCHANGED <<running, cancelOf, collector, loops, cancelled, panicked>>

CollectEnd(p) ==
  /\ caller[p].at = "recording"
  /\ omu = Free
  /\ Return(p)
  /\ UNCHANGED <<orchestrator, collector, loops, cancelled, panicked>>

-----------------------------------------------------------------------------
(***************************************************************************)
(* The collection goroutine.                                               *)
(***************************************************************************)
\* defer close(c.doneChan) picks the channel up as the goroutine begins, the
\* select reads c.stopChan each time around.
LoopBegin(l) ==
  /\ loop[l].pc = "spawned"
  /\ loop' = [loop EXCEPT ![l] = [pc |-> "select", stop |-> gen, done |-> gen]]
  /\ UNCHANGED <<orchestrator, collector, started, doneClosed, cancelled, caller,
                 panicked>>

\* Go's select takes any ready case, so a tick may win over a stop.
LoopTick(l) ==
  /\ loop[l].pc = "select"
  /\ loop' = [loop EXCEPT ![l].pc = "collecting"]
  /\ UNCHANGED <<orchestrator, collector, started, doneClosed, cancelled, caller,
                 panicked>>

\* A wrong select: it does not listen to the context.
LoopQuitOnStop(l) ==
  /\ loop[l].pc = "select"
  /\ loop[l].stop \in stopClosed
  /\ loop' = [loop EXCEPT ![l].pc = "ended"]
  /\ doneClosed' = doneClosed \cup {loop[l].done}
  /\ panicked' = (loop[l].done \in doneClosed)
  /\ UNCHANGED <<orchestrator, collector, started, cancelled, caller>>

LoopQuit(l) ==
  /\ loop[l].pc = "select"
  /\ l \in cancelled \/ loop[l].stop \in stopClosed
  /\ loop' = [loop EXCEPT ![l].pc = "ended"]
  /\ doneClosed' = doneClosed \cup {loop[l].done}
  /\ panicked' = (loop[l].done \in doneClosed)
  /\ UNCHANGED <<orchestrator, collector, started, cancelled, caller>>

\* CollectAll needs c.mu.
LoopCollect(l) ==
  /\ loop[l].pc = "collecting"
  /\ cmu = Free
  /\ loop' = [loop EXCEPT ![l].pc = "callback"]
  /\ UNCHANGED <<orchestrator, collector, started, doneClosed, cancelled, caller,
                 panicked>>

\* The orchestrator's callback needs o.mu.
LoopCallback(l) ==
  /\ loop[l].pc = "callback"
  /\ omu = Free
  /\ loop' = [loop EXCEPT ![l].pc = "select", ![l].stop = gen]
  /\ UNCHANGED <<orchestrator, collector, started, doneClosed, cancelled, caller,
                 panicked>>

\* The context given to StartContinuousCollection may be cancelled by its owner.
CancelParent(l) ==
  /\ "cancel" \in Ops
  /\ loop[l].pc \in Live
  /\ cancelled' = cancelled \cup {l}
  /\ UNCHANGED <<orchestrator, collector, loops, caller, panicked>>

-----------------------------------------------------------------------------
Progress(p) ==
  \/ StartLock(p) \/ StartCollector(p)
  \/ StopLock(p) \/ CollectorStop(p) \/ CollectorStopped(p) \/ StopUnlock(p)
  \/ CleanupCheck(p)
  \/ UpdateLock(p)
  \/ CollectBegin(p) \/ CollectRun(p) \/ CollectEnd(p)

LoopProgress(l) ==
  LoopBegin(l) \/ LoopTick(l) \/ LoopQuit(l) \/ LoopCollect(l) \/ LoopCallback(l)

Next ==
  \/ \E p \in Callers : (\E op \in Ops : Call(p, op)) \/ Progress(p)
  \/ \E l \in Loops : LoopProgress(l) \/ CancelParent(l)

Spec == Init /\ [][Next]_vars

(***************************************************************************)
(* A goroutine that can run does; sync.Mutex hands over to a waiter that   *)
(* has waited long enough, so a lock free again and again is obtained      *)
(* (strong fairness); and select chooses at random among the ready cases,  *)
(* so a case ready again and again is chosen.                              *)
(***************************************************************************)
Fairness ==
  /\ \A p \in Callers : SF_vars(Progress(p))
  /\ \A l \in Loops : /\ WF_vars(LoopProgress(l))
                      /\ SF_vars(LoopQuit(l))
                      /\ SF_vars(LoopCollect(l))
                      /\ SF_vars(LoopCallback(l))

FairSpec == Spec /\ Fairness

-----------------------------------------------------------------------------
TypeOK ==
  /\ omu \in Callers \cup {Free} /\ cmu \in Callers \cup {Free}
  /\ running \in BOOLEAN /\ continuous \in BOOLEAN /\ panicked \in BOOLEAN
  /\ gen \in Nat /\ started \in 0..MaxStarts /\ cancelOf \in 0..started
  /\ stopClosed \subseteq Nat /\ doneClosed \subseteq Nat
  /\ cancelled \subseteq Loops
  /\ loop \in [Loops -> [pc : {"none", "ended"} \cup Live, stop : Nat, done : Nat]]
  /\ caller \in [Callers -> [op : Ops \cup {"none", "cleanup"}, at : Places]]

LiveLoop(l) == loop[l].pc \in Live

\* The places at which the code holds o.mu; c.mu is held at "awaiting".
HoldsOrchestrator(p) ==
  \/ caller[p].at \in {"starting", "stopped", "relocking"}
  \/ caller[p].at \in {"stopping", "awaiting"} /\ caller[p].op # "cleanup"

\* Each lock is held by exactly the caller that is at such a place: no return
\* path, error or not, leaves one locked, and nobody works without his lock.
LocksAreHeld ==
  \A p \in Callers : /\ (omu = p) <=> HoldsOrchestrator(p)
                     /\ (cmu = p) <=> (caller[p].at = "awaiting")

\* However starts, stops, shutdowns and cancelled contexts interleave, two
\* collection goroutines never run at once.
AtMostOneLoop == \A l, m \in Loops : LiveLoop(l) /\ LiveLoop(m) => l = m

\* A running goroutine listens on the channels its stopper will use: those in
\* the collector's fields, of which the stop channel is closed exactly while
\* a stopper waits and the done channel is still open.
ChannelsMatch ==
  /\ (gen \in stopClosed) <=> (cmu # Free)
  /\ \A l \in Loops : LiveLoop(l) =>
       /\ continuous
       /\ gen \notin doneClosed
       /\ loop[l].pc # "spawned" => (loop[l].stop = gen /\ loop[l].done = gen)

\* Once a stop has returned, the goroutine it stopped is gone: no collection
\* and no callback comes late, and the collector can be started again.
QuietWhenStopped ==
  ~running => (~continuous /\ \A l \in Loops : ~LiveLoop(l))

\* The collector makes new channels whenever it has closed the old ones: no
\* sequence of starts, cancellations and stops closes a channel twice, which
\* would panic.
NoDoubleClose == ~panicked

\* What else the proof of these needs: which places an operation has, that
\* channels are numbered in order, that goroutines are spawned in order and
\* within the bound, that continuous is set while a stopper waits or the
\* goroutine has ended by itself, and clear once the stopper is done.
Bookkeeping ==
  /\ \A p \in Callers :
       /\ caller[p].at \in {"stopping", "awaiting"} =>
            caller[p].op \in {"stop", "shutdown", "cleanup"}
       /\ caller[p].at = "stopped" =>
            (caller[p].op \in {"stop", "shutdown"} /\ ~continuous)
       /\ caller[p].at = "starting" => ~running
  /\ \A g \in stopClosed \cup doneClosed : g <= gen
  /\ \A l \in Loops : l > started => loop[l].pc = "none"
  /\ cmu # Free \/ gen \in doneClosed => continuous
  /\ started + Cardinality(Starting) <= MaxStarts

\* The inductive invariant.
CollectionInv ==
  /\ TypeOK /\ LocksAreHeld /\ AtMostOneLoop /\ ChannelsMatch
  /\ QuietWhenStopped /\ NoDoubleClose /\ Bookkeeping

\* Every call returns.  (Not where stops or updates are called: see README.)
EveryCallReturns == \A p \in Callers : caller[p] # Returned ~> caller[p] = Returned

\* A cancelled context ends its goroutine, wherever the cancellation finds it.
CancelEndsLoop ==
  \A l \in Loops : (l \in cancelled /\ LiveLoop(l)) ~> loop[l].pc = "ended"

-----------------------------------------------------------------------------
(***************************************************************************)
(* What the repository says and the code does not do.                      *)
(***************************************************************************)
\* "Graceful shutdown with context propagation": a stop or a shutdown ends.
StopReturns ==
  \A p \in Callers :
    caller[p].op \in {"stop", "shutdown", "cleanup"} ~> caller[p] = Returned
=============================================================================
