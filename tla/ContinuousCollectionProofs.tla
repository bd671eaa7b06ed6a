---------------------- MODULE ContinuousCollectionProofs ----------------------
(***************************************************************************)
(* The safety of the continuous collection for any number of callers and   *)
(* of starts: CollectionInv is inductive.                                  *)
(***************************************************************************)
EXTENDS ContinuousCollection, FiniteSetTheorems, TLAPS

USE CollectionAssumption

(***************************************************************************)
(* A caller that moves moves alone.                                        *)
(***************************************************************************)
LEMMA Moved ==
  ASSUME TypeOK, NEW p \in Callers,
         NEW o \in Ops \cup {"none", "cleanup"}, NEW a \in Places,
         caller' = [caller EXCEPT ![p] = [op |-> o, at |-> a]]
  PROVE  /\ caller' \in [Callers -> [op : Ops \cup {"none", "cleanup"}, at : Places]]
         /\ caller'[p].op = o
         /\ caller'[p].at = a
         /\ \A q \in Callers \ {p} : caller'[q] = caller[q]
BY DEF TypeOK

\* The number of starts on their way follows the caller that moves.
LEMMA StartsCounted ==
  ASSUME TypeOK, NEW p \in Callers,
         \A q \in Callers \ {p} : caller'[q] = caller[q]
  PROVE  /\ IsFiniteSet(Starting)
         /\ Cardinality(Starting) \in Nat
         /\ Cardinality(Starting)' \in Nat
         /\ caller[p].op = "start" /\ caller'[p].op = "start"
              => Cardinality(Starting)' = Cardinality(Starting)
         /\ caller[p].op = "start" /\ caller'[p].op # "start"
              => Cardinality(Starting)' = Cardinality(Starting) - 1
         /\ caller[p].op # "start" /\ caller'[p].op = "start"
              => Cardinality(Starting)' = Cardinality(Starting) + 1
         /\ caller[p].op # "start" /\ caller'[p].op # "start"
              => Cardinality(Starting)' = Cardinality(Starting)
<1>1. IsFiniteSet(Starting)
  BY FS_Subset DEF Starting
<1>2. Starting' \ {p} = Starting \ {p}
  BY DEF Starting
<1>3. IsFiniteSet(Starting')
  BY FS_Subset DEF Starting
<1>4. /\ caller[p].op = "start" <=> p \in Starting
      /\ caller'[p].op = "start" <=> p \in Starting'
  BY DEF Starting
<1>5. /\ Cardinality(Starting) \in Nat
      /\ Cardinality(Starting') \in Nat
  BY <1>1, <1>3, FS_CardinalityType
<1>6. /\ Cardinality(Starting \ {p}) =
           IF p \in Starting THEN Cardinality(Starting) - 1 ELSE Cardinality(Starting)
      /\ Cardinality(Starting' \ {p}) =
           IF p \in Starting' THEN Cardinality(Starting') - 1 ELSE Cardinality(Starting')
  BY <1>1, <1>3, FS_RemoveElement
<1>7. Cardinality(Starting \ {p}) = Cardinality(Starting' \ {p})
  BY <1>2
<1> QED
  BY <1>1, <1>4, <1>5, <1>6, <1>7

-----------------------------------------------------------------------------
(***************************************************************************)
(* The steps that only move a caller, who may take or release o.mu.        *)
(***************************************************************************)
Holding(o, a) ==
  \/ a \in {"starting", "stopped", "relocking"}
  \/ a \in {"stopping", "awaiting"} /\ o # "cleanup"

LEMMA CallerMoves ==
  ASSUME CollectionInv, NEW p \in Callers,
         NEW o \in Ops \cup {"none", "cleanup"}, NEW a \in Places,
         caller' = [caller EXCEPT ![p] = [op |-> o, at |-> a]],
         UNCHANGED <<running, cancelOf, collector, loops, panicked>>,
         cancelled' \subseteq Loops,
         Holding(o, a) => omu \in {p, Free} /\ omu' = p,
         ~Holding(o, a) => omu' = IF HoldsOrchestrator(p) THEN Free ELSE omu,
         caller[p].at # "awaiting", a # "awaiting", a # "stopped",
         a = "stopping" => o \in {"stop", "shutdown", "cleanup"},
         a = "starting" => ~running,
         o = "start" /\ caller[p].op # "start"
           => started + Cardinality(Starting) < MaxStarts
  PROVE  CollectionInv'
<1> USE DEF CollectionInv
<1>1. /\ caller' \in [Callers -> [op : Ops \cup {"none", "cleanup"}, at : Places]]
      /\ caller'[p].op = o
      /\ caller'[p].at = a
      /\ \A q \in Callers \ {p} : caller'[q] = caller[q]
  BY Moved
<1>2. omu' \in Callers \cup {Free}
  BY DEF TypeOK
<1>3. TypeOK'
  BY <1>1, <1>2 DEF TypeOK, collector, loops
<1>4. LocksAreHeld'
  BY <1>1 DEF LocksAreHeld, HoldsOrchestrator, Holding, collector, TypeOK
<1>5. AtMostOneLoop' /\ ChannelsMatch' /\ QuietWhenStopped' /\ NoDoubleClose'
  BY DEF AtMostOneLoop, ChannelsMatch, QuietWhenStopped, NoDoubleClose, LiveLoop,
         collector, loops
<1>6. (started + Cardinality(Starting) <= MaxStarts)'
  BY <1>1, StartsCounted DEF loops, TypeOK, Bookkeeping
<1>7. Bookkeeping'
  BY <1>1, <1>6 DEF Bookkeeping, collector, loops
<1> QED
  BY <1>3, <1>4, <1>5, <1>7

LEMMA CallStep ==
  ASSUME CollectionInv, NEW p \in Callers, NEW op \in Ops, Call(p, op)
  PROVE  CollectionInv'
<1>1. /\ caller' = [caller EXCEPT ![p] = [op |-> op, at |-> "called"]]
      /\ caller[p].at = "idle"
  BY DEF Call, Goto, Returned
<1>2. /\ UNCHANGED <<running, cancelOf, collector, loops, panicked>>
      /\ cancelled' = cancelled /\ omu' = omu
      /\ op = "start" => started + Cardinality(Starting) < MaxStarts
  BY DEF Call, orchestrator
<1>3. ~HoldsOrchestrator(p) /\ ~Holding(op, "called")
  BY <1>1 DEF HoldsOrchestrator, Holding
<1>4. "called" \in Places /\ cancelled \subseteq Loops
  BY DEF Places, CollectionInv, TypeOK
<1> QED
  BY <1>1, <1>2, <1>3, <1>4, CallerMoves

LEMMA StartLockStep ==
  ASSUME CollectionInv, NEW p \in Callers, StartLock(p)
  PROVE  CollectionInv'
<1>1. PICK o \in Ops \cup {"none"}, a \in Places :
        /\ caller' = [caller EXCEPT ![p] = [op |-> o, at |-> a]]
        /\ \/ running /\ o = "none" /\ a = "idle" /\ omu' = omu
           \/ ~running /\ o = "start" /\ a = "starting" /\ omu' = p
  BY DEF StartLock, Goto, Return, Returned, At, Places, TypeOK, CollectionInv
<1>2. /\ caller[p].op = "start" /\ caller[p].at = "called" /\ omu = Free
      /\ UNCHANGED <<running, cancelOf, collector, loops, panicked>>
      /\ cancelled' \subseteq Loops
  BY DEF StartLock, At, CollectionInv, TypeOK
<1>3. ~HoldsOrchestrator(p) /\ (Holding(o, a) <=> omu' = p)
  BY <1>1, <1>2 DEF HoldsOrchestrator, Holding
<1> QED
  BY <1>1, <1>2, <1>3, CallerMoves

LEMMA StopLockStep ==
  ASSUME CollectionInv, NEW p \in Callers, StopLock(p)
  PROVE  CollectionInv'
<1>1. /\ caller[p].op \in {"stop", "shutdown"} /\ caller[p].op \in Ops \cup {"none", "cleanup"}
      /\ caller[p].at = "called" /\ omu = Free
      /\ UNCHANGED <<running, cancelOf, collector, loops, panicked>>
      /\ cancelled' \subseteq Loops
  BY DEF StopLock, At, CollectionInv, TypeOK
<1>2. PICK o \in Ops \cup {"none", "cleanup"}, a \in Places :
        /\ caller' = [caller EXCEPT ![p] = [op |-> o, at |-> a]]
        /\ \/ o = "cleanup" /\ a = "checking" /\ omu' = omu
           \/ o = "none" /\ a = "idle" /\ omu' = omu
           \/ o = caller[p].op /\ a = "stopping" /\ omu' = p
  BY <1>1 DEF StopLock, Goto, Return, Returned, Places
<1>3. ~HoldsOrchestrator(p) /\ (Holding(o, a) <=> omu' = p)
  BY <1>1, <1>2 DEF HoldsOrchestrator, Holding
<1> QED
  BY <1>1, <1>2, <1>3, CallerMoves

LEMMA CleanupCheckStep ==
  ASSUME CollectionInv, NEW p \in Callers, CleanupCheck(p)
  PROVE  CollectionInv'
<1>1. /\ caller[p].op = "cleanup" /\ caller[p].at = "checking"
      /\ UNCHANGED <<running, cancelOf, collector, loops, panicked, omu>>
      /\ cancelled' \subseteq Loops
  BY DEF CleanupCheck, At, CollectionInv, TypeOK, orchestrator
<1>2. PICK o \in {"none", "cleanup"}, a \in Places :
        /\ caller' = [caller EXCEPT ![p] = [op |-> o, at |-> a]]
        /\ \/ o = "cleanup" /\ a = "stopping"
           \/ o = "none" /\ a = "idle"
  BY DEF CleanupCheck, Goto, Return, Returned, Places
<1>3. ~HoldsOrchestrator(p) /\ ~Holding(o, a)
  BY <1>1, <1>2 DEF HoldsOrchestrator, Holding
<1> QED
  BY <1>1, <1>2, <1>3, CallerMoves

LEMMA UpdateLockStep ==
  ASSUME CollectionInv, NEW p \in Callers, UpdateLock(p)
  PROVE  CollectionInv'
<1>1. /\ caller[p].op = "update" /\ caller[p].at = "called" /\ omu = Free
      /\ UNCHANGED <<running, cancelOf, collector, loops, panicked>>
      /\ cancelled' \subseteq Loops
  BY DEF UpdateLock, At, CollectionInv, TypeOK
<1>2. PICK o \in Ops \cup {"none"}, a \in Places :
        /\ caller' = [caller EXCEPT ![p] = [op |-> o, at |-> a]]
        /\ \/ o = "none" /\ a = "idle" /\ omu' = omu
           \/ o = "update" /\ a = "relocking" /\ omu' = p
  BY <1>1 DEF UpdateLock, Goto, Return, Returned, Places, CollectionInv, TypeOK
<1>3. ~HoldsOrchestrator(p) /\ (Holding(o, a) <=> omu' = p)
  BY <1>1, <1>2 DEF HoldsOrchestrator, Holding
<1> QED
  BY <1>1, <1>2, <1>3, CallerMoves

LEMMA CollectStep ==
  ASSUME CollectionInv, NEW p \in Callers,
         CollectBegin(p) \/ CollectRun(p) \/ CollectEnd(p)
  PROVE  CollectionInv'
<1>1. /\ caller[p].at \in {"called", "running", "recording"}
      /\ UNCHANGED <<running, cancelOf, collector, loops, panicked, omu>>
      /\ cancelled' \subseteq Loops
  BY DEF CollectBegin, CollectRun, CollectEnd, At, CollectionInv, TypeOK, orchestrator
<1>2. PICK o \in {"none", caller[p].op}, a \in {"idle", "running", "recording"} :
        caller' = [caller EXCEPT ![p] = [op |-> o, at |-> a]]
  BY DEF CollectBegin, CollectRun, CollectEnd, Goto, Return, Returned
<1>3. o \in Ops \cup {"none", "cleanup"} /\ a \in Places
  BY <1>2 DEF Places, CollectionInv, TypeOK
<1>4. ~HoldsOrchestrator(p) /\ ~Holding(o, a)
  BY <1>1, <1>2 DEF HoldsOrchestrator, Holding
<1> QED
  BY <1>1, <1>2, <1>3, <1>4, CallerMoves

-----------------------------------------------------------------------------
(***************************************************************************)
(* The steps that start and stop the collector.                            *)
(***************************************************************************)
LEMMA StartCollectorStep ==
  ASSUME CollectionInv, NEW p \in Callers, StartCollector(p)
  PROVE  CollectionInv'
<1> USE DEF CollectionInv
<1>1. /\ caller[p].op = "start" /\ caller[p].at = "starting"
      /\ caller' = [caller EXCEPT ![p] = [op |-> "none", at |-> "idle"]]
      /\ omu = p /\ omu' = Free /\ UNCHANGED <<cmu, gen, stopClosed, doneClosed, cancelled, panicked>>
  BY DEF StartCollector, At, Return, Returned, LocksAreHeld, HoldsOrchestrator
<1>2. /\ caller' \in [Callers -> [op : Ops \cup {"none", "cleanup"}, at : Places]]
      /\ caller'[p].op = "none"
      /\ caller'[p].at = "idle"
      /\ \A q \in Callers \ {p} : caller'[q] = caller[q]
  <2>1. "idle" \in Places
    BY DEF Places
  <2> QED
    BY <1>1, <2>1, Moved
\* He that is starting holds o.mu, so nothing is running and nothing lives.
<1>3. ~running /\ ~continuous /\ \A l \in Loops : ~LiveLoop(l)
  BY <1>1 DEF Bookkeeping, QuietWhenStopped
<1>4. /\ continuous' /\ running' /\ started' = started + 1 /\ cancelOf' = started + 1
      /\ loop' = [loop EXCEPT ![started + 1].pc = "spawned"]
  BY <1>3 DEF StartCollector
\* The start is counted, so there is room for its goroutine.
<1>5. /\ Cardinality(Starting)' = Cardinality(Starting) - 1
      /\ Cardinality(Starting)' \in Nat
      /\ Cardinality(Starting) \in Nat
  BY <1>1, <1>2, StartsCounted
<1>6. started + 1 \in Loops /\ started \in Nat
  BY <1>5 DEF Bookkeeping, TypeOK, Loops
<1>7. /\ loop' \in [Loops -> [pc : {"none", "ended"} \cup Live, stop : Nat, done : Nat]]
      /\ loop'[started + 1].pc = "spawned"
      /\ \A l \in Loops \ {started + 1} : loop'[l] = loop[l]
  BY <1>4, <1>6 DEF TypeOK, Live
<1>8. TypeOK'
  BY <1>1, <1>2, <1>4, <1>6, <1>7, SMTT(30) DEF TypeOK, Loops
<1>9. LocksAreHeld'
  BY <1>1, <1>2 DEF LocksAreHeld, HoldsOrchestrator
<1>10. AtMostOneLoop'
  BY <1>3, <1>7 DEF AtMostOneLoop, LiveLoop
\* The done channel in the fields is open: a goroutine that had closed it
\* would have left continuous set.
<1>11. ChannelsMatch'
  BY <1>1, <1>3, <1>4, <1>6, <1>7 DEF ChannelsMatch, LiveLoop, Bookkeeping
<1>12. QuietWhenStopped' /\ NoDoubleClose'
  BY <1>1, <1>4 DEF QuietWhenStopped, NoDoubleClose
<1>13. Bookkeeping'
  <2>1. \A q \in Callers \ {p} : caller[q].at \notin {"starting", "stopped"}
    BY <1>1 DEF LocksAreHeld, HoldsOrchestrator
  <2>2. \A q \in Callers :
          /\ caller'[q].at \in {"stopping", "awaiting"} =>
               caller'[q].op \in {"stop", "shutdown", "cleanup"}
          /\ caller'[q].at \notin {"starting", "stopped"}
    BY <1>2, <2>1 DEF Bookkeeping
  <2>3. \A l \in Loops : l > started' => loop'[l].pc = "none"
    BY <1>4, <1>6, <1>7 DEF Bookkeeping, Loops
  <2>4. (started + Cardinality(Starting) <= MaxStarts)'
    BY <1>4, <1>5, <1>6 DEF Bookkeeping
  <2> QED
    BY <1>1, <1>4, <2>2, <2>3, <2>4 DEF Bookkeeping
<1> QED
  BY <1>8, <1>9, <1>10, <1>11, <1>12, <1>13

LEMMA CollectorStopStep ==
  ASSUME CollectionInv, NEW p \in Callers, CollectorStop(p)
  PROVE  CollectionInv'
<1>1. /\ caller[p].at = "stopping" /\ caller[p].op \in {"stop", "shutdown", "cleanup"}
      /\ caller[p].op \in Ops \cup {"none", "cleanup"}
      /\ omu = p <=> caller[p].op # "cleanup"
      /\ cmu = Free
      /\ UNCHANGED <<running, cancelOf, continuous, gen, loops, cancelled>>
  BY DEF CollectorStop, CollectionInv, Bookkeeping, TypeOK, LocksAreHeld, HoldsOrchestrator
<1>2. CASE ~continuous
  <2>1. /\ UNCHANGED <<collector, panicked>>
        /\ cancelled' \subseteq Loops
    BY <1>1, <1>2 DEF CollectorStop, collector, CollectionInv, TypeOK
  <2>2. PICK o \in {"none", "cleanup"}, a \in {"idle", "checking"} :
          caller' = [caller EXCEPT ![p] = [op |-> o, at |-> a]]
    BY <1>1, <1>2 DEF CollectorStop, AfterFailedStop, Goto, Return, Returned
  <2>3. omu' = IF caller[p].op = "cleanup" THEN omu ELSE Free
    BY <1>1, <1>2 DEF CollectorStop, AfterFailedStop
  <2>4. ~Holding(o, a) /\ (HoldsOrchestrator(p) <=> caller[p].op # "cleanup")
    BY <1>1, <2>2 DEF HoldsOrchestrator, Holding
  <2>5. a \in Places
    BY <2>2 DEF Places
  <2> QED
    BY <1>1, <2>1, <2>2, <2>3, <2>4, <2>5, CallerMoves
<1>3. CASE continuous
  <2> USE DEF CollectionInv
  <2>1. /\ cmu' = p /\ omu' = omu
        /\ stopClosed' = stopClosed \cup {gen}
        /\ panicked' = (gen \in stopClosed)
        /\ caller' = [caller EXCEPT ![p] = [op |-> caller[p].op, at |-> "awaiting"]]
    BY <1>3 DEF CollectorStop, Goto
  <2>2. /\ caller' \in [Callers -> [op : Ops \cup {"none", "cleanup"}, at : Places]]
        /\ caller'[p].op = caller[p].op
        /\ caller'[p].at = "awaiting"
        /\ \A q \in Callers \ {p} : caller'[q] = caller[q]
    <3>1. "awaiting" \in Places
      BY DEF Places
    <3> QED
      BY <1>1, <2>1, <3>1, Moved
\* c.mu was free, so the stop channel in the fields is still open.
  <2>3. NoDoubleClose'
    BY <1>1, <2>1 DEF ChannelsMatch, NoDoubleClose
  <2>4. TypeOK'
    BY <1>1, <2>1, <2>2, <2>3 DEF TypeOK, loops, NoDoubleClose
  <2>5. LocksAreHeld'
    BY <1>1, <2>1, <2>2 DEF LocksAreHeld, HoldsOrchestrator
  <2>6. AtMostOneLoop' /\ ChannelsMatch' /\ QuietWhenStopped'
    BY <1>1, <1>3, <2>1 DEF AtMostOneLoop, ChannelsMatch, QuietWhenStopped, LiveLoop, loops
  <2>7. (started + Cardinality(Starting) <= MaxStarts)'
    BY <1>1, <2>2, StartsCounted DEF loops, TypeOK, Bookkeeping
  <2>8. \A g \in stopClosed' \cup doneClosed' : g <= gen'
    BY <1>1, <2>1 DEF Bookkeeping, TypeOK, loops
  <2>9. Bookkeeping'
    BY <1>1, <1>3, <2>1, <2>2, <2>7, <2>8 DEF Bookkeeping, loops
  <2> QED
    BY <2>3, <2>4, <2>5, <2>6, <2>9
<1> QED
  BY <1>2, <1>3

LEMMA CollectorStoppedStep ==
  ASSUME CollectionInv, NEW p \in Callers, CollectorStopped(p)
  PROVE  CollectionInv'
<1> USE DEF CollectionInv
<1>1. /\ caller[p].at = "awaiting" /\ caller[p].op \in {"stop", "shutdown", "cleanup"}
      /\ cmu = p /\ cmu' = Free /\ gen \in doneClosed /\ gen' = gen + 1 /\ continuous' = FALSE
      /\ UNCHANGED <<omu, running, cancelOf, stopClosed, loops, cancelled, panicked>>
  BY DEF CollectorStopped, Bookkeeping, LocksAreHeld, orchestrator
<1>2. PICK o \in Ops \cup {"none", "cleanup"}, a \in Places :
        /\ caller' = [caller EXCEPT ![p] = [op |-> o, at |-> a]]
        /\ \/ caller[p].op = "cleanup" /\ o = "none" /\ a = "idle"
           \/ caller[p].op \in {"stop", "shutdown"} /\ o = caller[p].op /\ a = "stopped"
  BY <1>1 DEF CollectorStopped, Goto, Return, Returned, Places, TypeOK
<1>3. /\ caller' \in [Callers -> [op : Ops \cup {"none", "cleanup"}, at : Places]]
      /\ caller'[p].op = o
      /\ caller'[p].at = a
      /\ \A q \in Callers \ {p} : caller'[q] = caller[q]
  BY <1>2, Moved
\* The goroutine that would still live has not closed the done channel.
<1>4. \A l \in Loops : ~LiveLoop(l)
  BY <1>1 DEF ChannelsMatch
<1>5. \A l \in Loops : ~LiveLoop(l)'
  BY <1>1, <1>4 DEF LiveLoop, loops
<1>6. \A g \in stopClosed' \cup doneClosed' : g <= gen /\ g \in Nat
  BY <1>1 DEF Bookkeeping, TypeOK, loops
<1>7. gen' \notin stopClosed' \cup doneClosed'
  BY <1>1, <1>6 DEF TypeOK
<1>8. TypeOK'
  <2>1. gen' \in Nat /\ cmu' \in Callers \cup {Free}
    BY <1>1 DEF TypeOK
  <2>2. /\ started' \in 0..MaxStarts /\ cancelOf' \in 0..started' /\ cancelled' \subseteq Loops
        /\ stopClosed' \subseteq Nat /\ doneClosed' \subseteq Nat
        /\ loop' \in [Loops -> [pc : {"none", "ended"} \cup Live, stop : Nat, done : Nat]]
    BY <1>1 DEF TypeOK, loops
  <2>3. omu' \in Callers \cup {Free} /\ running' \in BOOLEAN /\ panicked' \in BOOLEAN
    BY <1>1 DEF TypeOK
  <2>4. continuous' \in BOOLEAN
    BY <1>1
  <2> QED
    BY <1>3, <2>1, <2>2, <2>3, <2>4 DEF TypeOK
<1>9. LocksAreHeld'
  BY <1>1, <1>2, <1>3 DEF LocksAreHeld, HoldsOrchestrator
<1>10. AtMostOneLoop' /\ ChannelsMatch' /\ QuietWhenStopped' /\ NoDoubleClose'
  BY <1>1, <1>5, <1>7
  DEF AtMostOneLoop, ChannelsMatch, QuietWhenStopped, NoDoubleClose, LiveLoop
<1>11. (started + Cardinality(Starting) <= MaxStarts)'
  BY <1>1, <1>2, <1>3, StartsCounted DEF loops, TypeOK, Bookkeeping
<1>12. \A g \in stopClosed' \cup doneClosed' : g <= gen'
  BY <1>1, <1>6 DEF TypeOK
<1>13. Bookkeeping'
  BY <1>1, <1>2, <1>3, <1>7, <1>11, <1>12 DEF Bookkeeping, loops
<1> QED
  BY <1>8, <1>9, <1>10, <1>13

LEMMA StopUnlockStep ==
  ASSUME CollectionInv, NEW p \in Callers, StopUnlock(p)
  PROVE  CollectionInv'
<1> USE DEF CollectionInv
<1>1. /\ caller[p].at = "stopped" /\ caller[p].op \in {"stop", "shutdown"} /\ ~continuous
      /\ omu = p /\ omu' = Free /\ running' = FALSE
      /\ UNCHANGED <<cancelOf, collector, loops, cancelled, panicked>>
  BY DEF StopUnlock, Bookkeeping, LocksAreHeld, HoldsOrchestrator
<1>2. PICK o \in {"none", "cleanup"}, a \in {"idle", "checking"} :
        caller' = [caller EXCEPT ![p] = [op |-> o, at |-> a]]
  BY <1>1 DEF StopUnlock, Goto, Return, Returned
<1>3. /\ caller' \in [Callers -> [op : Ops \cup {"none", "cleanup"}, at : Places]]
      /\ caller'[p].op = o
      /\ caller'[p].at = a
      /\ \A q \in Callers \ {p} : caller'[q] = caller[q]
  <2>1. a \in Places
    BY DEF Places
  <2> QED
    BY <1>2, <2>1, Moved
<1>4. TypeOK'
  BY <1>1, <1>3 DEF TypeOK, collector, loops
<1>5. LocksAreHeld'
  BY <1>1, <1>3 DEF LocksAreHeld, HoldsOrchestrator, collector
<1>6. AtMostOneLoop' /\ ChannelsMatch' /\ QuietWhenStopped' /\ NoDoubleClose'
  BY <1>1
  DEF AtMostOneLoop, ChannelsMatch, QuietWhenStopped, NoDoubleClose, LiveLoop, collector, loops
<1>7. (started + Cardinality(Starting) <= MaxStarts)'
  BY <1>1, <1>3, StartsCounted DEF loops, TypeOK, Bookkeeping
<1>8. Bookkeeping'
  BY <1>1, <1>3, <1>7 DEF Bookkeeping, collector, loops
<1> QED
  BY <1>4, <1>5, <1>6, <1>8

-----------------------------------------------------------------------------
(***************************************************************************)
(* The steps of the collection goroutine: they move one goroutine, which   *)
(* stays alive or closes the done channel.                                 *)
(***************************************************************************)
LEMMA LoopMoves ==
  ASSUME CollectionInv, NEW l \in Loops, LiveLoop(l),
         loop' \in [Loops -> [pc : {"none", "ended"} \cup Live, stop : Nat, done : Nat]],
         \A m \in Loops \ {l} : loop'[m] = loop[m],
         \/ loop'[l].pc = "ended" /\ doneClosed' = doneClosed \cup {gen}
         \/ LiveLoop(l)' /\ loop'[l].stop = gen /\ loop'[l].done = gen /\ doneClosed' = doneClosed,
         UNCHANGED <<orchestrator, collector, started, cancelled, caller>>,
         panicked' = FALSE
  PROVE  CollectionInv'
<1> USE DEF CollectionInv
<1>1. doneClosed' \subseteq doneClosed \cup {gen}
  OBVIOUS
<1>2. \A m \in Loops \ {l} : ~LiveLoop(m) /\ ~LiveLoop(m)'
  BY DEF AtMostOneLoop, LiveLoop
<1>3. /\ continuous /\ running /\ gen \notin doneClosed /\ l <= started /\ gen \in Nat
  <2>1. continuous /\ gen \notin doneClosed
    BY DEF ChannelsMatch
  <2>2. running
    BY DEF QuietWhenStopped
  <2>3. loop[l].pc # "none" /\ l \in Nat /\ started \in Nat
    BY DEF LiveLoop, Live, Loops, TypeOK
  <2>4. ~(l > started)
    BY <2>3 DEF Bookkeeping
  <2> QED
    BY <2>1, <2>2, <2>3, <2>4 DEF TypeOK
<1>4. TypeOK'
  BY <1>1, <1>3 DEF TypeOK, orchestrator, collector
<1>5. LocksAreHeld'
  BY DEF LocksAreHeld, HoldsOrchestrator, orchestrator, collector
<1>6. AtMostOneLoop'
  BY <1>2 DEF AtMostOneLoop
<1>7. ChannelsMatch'
  <2>1. (gen \in stopClosed)' <=> (cmu # Free)'
    BY DEF ChannelsMatch, collector
  <2>2. ASSUME NEW m \in Loops, LiveLoop(m)'
        PROVE  (/\ continuous
                /\ gen \notin doneClosed
                /\ loop[m].pc # "spawned" => (loop[m].stop = gen /\ loop[m].done = gen))'
    <3>1. m = l
      BY <1>2, <2>2
    <3>2. loop'[l].pc # "ended"
      BY <2>2, <3>1 DEF LiveLoop, Live
    <3> QED
      BY <1>3, <3>1, <3>2 DEF collector
  <2> QED
    BY <2>1, <2>2 DEF ChannelsMatch
<1>8. QuietWhenStopped' /\ NoDoubleClose'
  BY <1>3 DEF QuietWhenStopped, NoDoubleClose, orchestrator
<1>9. \A g \in stopClosed' \cup doneClosed' : g <= gen'
  BY <1>1, <1>3 DEF Bookkeeping, TypeOK, collector
<1>10. (started + Cardinality(Starting) <= MaxStarts)'
  BY DEF Bookkeeping, Starting
<1>11. \A m \in Loops : m > started => loop'[m].pc = "none"
  BY <1>3 DEF Bookkeeping, Loops, TypeOK
<1>12. Bookkeeping'
  BY <1>3, <1>9, <1>10, <1>11 DEF Bookkeeping, orchestrator, collector
<1> QED
  BY <1>4, <1>5, <1>6, <1>7, <1>8, <1>12

LEMMA LoopStep ==
  ASSUME CollectionInv, NEW l \in Loops, LoopProgress(l)
  PROVE  CollectionInv'
<1> USE DEF CollectionInv
<1>1. /\ LiveLoop(l) /\ gen \in Nat
      /\ loop \in [Loops -> [pc : {"none", "ended"} \cup Live, stop : Nat, done : Nat]]
  BY DEF LoopProgress, LoopBegin, LoopTick, LoopQuit, LoopCollect, LoopCallback, LiveLoop,
         Live, TypeOK
<1>0. panicked = FALSE
  BY DEF NoDoubleClose, TypeOK
<1>2. loop[l].pc # "spawned" => loop[l].stop = gen /\ loop[l].done = gen
  BY <1>1 DEF ChannelsMatch
<1>3. CASE LoopBegin(l)
  BY <1>0, <1>1, <1>3, LoopMoves DEF LoopBegin, LiveLoop, Live
<1>4. CASE LoopTick(l) \/ LoopCollect(l)
  <2>1. /\ loop[l].pc # "spawned"
        /\ UNCHANGED <<orchestrator, collector, started, cancelled, caller, panicked, doneClosed>>
    BY <1>4 DEF LoopTick, LoopCollect
  <2>2. PICK pc \in Live : loop' = [loop EXCEPT ![l].pc = pc]
    BY <1>4 DEF LoopTick, LoopCollect, Live
  <2>3. /\ loop' \in [Loops -> [pc : {"none", "ended"} \cup Live, stop : Nat, done : Nat]]
        /\ loop'[l].pc = pc /\ loop'[l].stop = gen /\ loop'[l].done = gen
        /\ \A m \in Loops \ {l} : loop'[m] = loop[m]
    BY <1>1, <1>2, <2>1, <2>2
  <2> QED
    BY <1>0, <1>1, <2>1, <2>3, LoopMoves DEF LiveLoop
<1>5. CASE LoopQuit(l)
  <2>1. /\ loop' = [loop EXCEPT ![l].pc = "ended"] /\ loop[l].done = gen
        /\ UNCHANGED <<orchestrator, collector, started, cancelled, caller>>
    BY <1>2, <1>5 DEF LoopQuit
  <2>2. gen \notin doneClosed /\ doneClosed' = doneClosed \cup {gen}
    BY <1>1, <1>5, <2>1 DEF LoopQuit, ChannelsMatch
  <2>3. panicked' = FALSE
    <3>1. panicked' = (loop[l].done \in doneClosed)
      BY <1>5 DEF LoopQuit
    <3>2. (loop[l].done \in doneClosed) = FALSE
      BY <2>1, <2>2
    <3> QED
      BY <3>1, <3>2, Zenon
  <2>4. /\ loop' \in [Loops -> [pc : {"none", "ended"} \cup Live, stop : Nat, done : Nat]]
        /\ loop'[l].pc = "ended"
        /\ \A m \in Loops \ {l} : loop'[m] = loop[m]
    BY <1>1, <2>1
  <2> QED
    BY <1>1, <2>1, <2>2, <2>3, <2>4, LoopMoves
<1>6. CASE LoopCallback(l)
  <2>1. /\ loop' = [loop EXCEPT ![l].pc = "select", ![l].stop = gen] /\ loop[l].done = gen
        /\ UNCHANGED <<orchestrator, collector, started, cancelled, caller, panicked, doneClosed>>
    BY <1>2, <1>6 DEF LoopCallback
  <2>2. /\ loop' \in [Loops -> [pc : {"none", "ended"} \cup Live, stop : Nat, done : Nat]]
        /\ loop'[l].pc = "select" /\ loop'[l].stop = gen /\ loop'[l].done = gen
        /\ \A m \in Loops \ {l} : loop'[m] = loop[m]
    BY <1>1, <2>1 DEF Live
  <2> QED
    BY <1>0, <1>1, <2>1, <2>2, LoopMoves DEF LiveLoop, Live
<1> QED
  BY <1>3, <1>4, <1>5, <1>6 DEF LoopProgress

LEMMA CancelStep ==
  ASSUME CollectionInv, NEW l \in Loops, CancelParent(l)
  PROVE  CollectionInv'
BY DEF CancelParent, CollectionInv, TypeOK, LocksAreHeld, HoldsOrchestrator, AtMostOneLoop,
       ChannelsMatch, QuietWhenStopped, NoDoubleClose, Bookkeeping, LiveLoop, Starting,
       orchestrator, collector, loops

-----------------------------------------------------------------------------
(***************************************************************************)
(* The theorems.                                                           *)
(***************************************************************************)
LEMMA InvInit == Init => CollectionInv
<1> SUFFICES ASSUME Init PROVE CollectionInv
  OBVIOUS
<1>1. Starting = {} /\ Cardinality({}) = 0
  BY FS_EmptySet DEF Init, Starting, Returned
<1>2. TypeOK
  <2>1. /\ caller \in [Callers -> [op : Ops \cup {"none", "cleanup"}, at : Places]]
        /\ loop \in [Loops -> [pc : {"none", "ended"} \cup Live, stop : Nat, done : Nat]]
    BY DEF Init, Returned, Places
  <2>2. /\ gen \in Nat /\ started \in 0..MaxStarts /\ cancelOf \in 0..started
        /\ stopClosed \subseteq Nat /\ doneClosed \subseteq Nat
    BY DEF Init
  <2>3. running \in BOOLEAN /\ continuous \in BOOLEAN /\ panicked \in BOOLEAN
    BY Zenon DEF Init
  <2>4. omu = Free /\ cmu = Free /\ cancelled = {}
    BY DEF Init
  <2> QED
    BY <2>1, <2>2, <2>3, <2>4 DEF TypeOK
<1>3. LocksAreHeld
  BY DEF Init, LocksAreHeld, HoldsOrchestrator, Returned
<1>4. AtMostOneLoop /\ ChannelsMatch /\ QuietWhenStopped /\ NoDoubleClose
  BY DEF Init, AtMostOneLoop, ChannelsMatch, QuietWhenStopped, NoDoubleClose, LiveLoop, Live
<1>5. Bookkeeping
  BY <1>1 DEF Init, Bookkeeping, Returned
<1> QED
  BY <1>2, <1>3, <1>4, <1>5 DEF CollectionInv

LEMMA InvStep == CollectionInv /\ [Next]_vars => CollectionInv'
<1> SUFFICES ASSUME CollectionInv, [Next]_vars PROVE CollectionInv'
  OBVIOUS
<1>1. CASE UNCHANGED vars
  BY <1>1 DEF CollectionInv, TypeOK, LocksAreHeld, HoldsOrchestrator, AtMostOneLoop,
       ChannelsMatch, QuietWhenStopped, NoDoubleClose, Bookkeeping, LiveLoop, Starting,
       orchestrator, collector, loops, vars
<1>2. ASSUME NEW p \in Callers, NEW op \in Ops, Call(p, op) PROVE CollectionInv'
  BY <1>2, CallStep
<1>3. ASSUME NEW p \in Callers, Progress(p) PROVE CollectionInv'
  BY <1>3, StartLockStep, StartCollectorStep, StopLockStep, CollectorStopStep,
     CollectorStoppedStep, StopUnlockStep, CleanupCheckStep, UpdateLockStep, CollectStep
  DEF Progress
<1>4. ASSUME NEW l \in Loops, LoopProgress(l) \/ CancelParent(l) PROVE CollectionInv'
  BY <1>4, LoopStep, CancelStep
<1> QED
  BY <1>1, <1>2, <1>3, <1>4 DEF Next

\* CollectionInv, which says all of what follows, holds in every reachable
\* state of any number of callers (orchestrator.go, collector.go).
THEOREM Invariance == Spec => []CollectionInv
BY InvInit, InvStep, PTL DEF Spec

\* Two collection goroutines never run at once, however starts, stops,
\* shutdowns and cancelled contexts interleave.
THEOREM OneLoop == Spec => []AtMostOneLoop
<1>1. CollectionInv => AtMostOneLoop
  BY DEF CollectionInv
<1> QED
  BY <1>1, Invariance, PTL

\* Once StopContinuousCollection has returned, no goroutine collects or calls
\* back, and the collector can be started again.
THEOREM Quiet == Spec => []QuietWhenStopped
<1>1. CollectionInv => QuietWhenStopped
  BY DEF CollectionInv
<1> QED
  BY <1>1, Invariance, PTL

\* stopChan and doneChan are never closed twice.
THEOREM ClosedOnce == Spec => []NoDoubleClose
<1>1. CollectionInv => NoDoubleClose
  BY DEF CollectionInv
<1> QED
  BY <1>1, Invariance, PTL

\* o.mu and c.mu are held by exactly the callers inside their critical
\* sections.
THEOREM Locked == Spec => []LocksAreHeld
<1>1. CollectionInv => LocksAreHeld
  BY DEF CollectionInv
<1> QED
  BY <1>1, Invariance, PTL

\* The goroutine that runs listens on the channels in the collector's fields.
THEOREM Matched == Spec => []ChannelsMatch
<1>1. CollectionInv => ChannelsMatch
  BY DEF CollectionInv
<1> QED
  BY <1>1, Invariance, PTL
=============================================================================
