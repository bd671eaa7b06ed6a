-------------------------- MODULE MemoryRepository --------------------------
(***************************************************************************)
(* The in-memory repository (infrastructure/storage/memory.go): ring       *)
(* buffers, here the bounded logs they implement (see RingBuffer), an      *)
(* index of more of them by key, and the callers, who stamp a sample when  *)
(* they collect it and save it later.                                      *)
(*                                                                         *)
(* Processes by PID and disks by device are stored by the same code: the   *)
(* module has one such stream, and one without an index for the system     *)
(* metrics and the CPU pressure.  An index buffer is a place in heap: a    *)
(* reader may hold one the index has given up.                             *)
(***************************************************************************)
EXTENDS TimeSeries, Functions

CONSTANTS
  Keys,          \* PIDs, or devices
  System,        \* the key of the samples that are not indexed
  Capacity,      \* of the main buffers
  IndexCapacity, \* of an index buffer, the 1000 of SaveProcessMetrics
  Savers,        \* goroutines that collect and save
  Readers,       \* goroutines in GetLatestProcessMetrics
  None,          \* no sample, no buffer, no call
  MaxTime, MaxSaves \* bounds on the clock and on the samples collected

ASSUME RepositoryAssumption ==
  /\ Capacity \in Nat \ {0} /\ IndexCapacity \in Nat \ {0}
  /\ MaxTime \in Nat /\ MaxSaves \in Nat
  /\ System \notin Keys

VARIABLES
  now,            \* the clock
  systemMetrics,  \* a main buffer without an index, oldest first
  processMetrics, \* the main buffer with the index, oldest first
  heap,           \* every index buffer made so far
  processIndex,   \* per key: its buffer in heap
  saver,          \* the sample a saver has collected and not yet saved
  reader,         \* a call of GetLatestProcessMetrics that has its buffer
  collected       \* how many samples were collected, for the bound

buffers == <<systemMetrics, processMetrics, heap, processIndex>>
vars == <<now, buffers, saver, reader, collected>>

Init ==
  /\ now = 0
  /\ systemMetrics = << >> /\ processMetrics = << >>
  /\ heap = << >>
  /\ processIndex = [k \in Keys |-> None]
  /\ saver = [s \in Savers |-> None]
  /\ reader = [r \in Readers |-> None]
  /\ collected = 0

Indexed(k) == processIndex[k] # None

\* What a lookup and a GetLatest(1) in one step would find under k.
LatestIn(h, index, k) == IF index[k] = None THEN << >> ELSE Newest(h[index[k]], 1)

\* Ghost: answers collects what a call in progress could have answered, had it
\* happened at one of the moments since it began.
Witnessed ==
  reader' = [r \in Readers |->
    IF reader[r] = None THEN None
    ELSE [reader[r] EXCEPT !.answers =
                       @ \cup {LatestIn(heap', processIndex', reader[r].key)}]]

-----------------------------------------------------------------------------
Tick ==
  /\ now < MaxTime
  /\ now' = now + 1
  /\ UNCHANGED <<buffers, saver, reader, collected>>

\* A collection stamps its sample when it takes it.
Collect(s, k) ==
  /\ saver[s] = None
  /\ collected < MaxSaves
  /\ saver' = [saver EXCEPT ![s] = [time |-> now, key |-> k]]
  /\ collected' = collected + 1
  /\ UNCHANGED <<now, buffers, reader>>

SaveSystemMetrics(s) ==
  /\ saver[s] # None /\ saver[s].key = System
  /\ systemMetrics' = Pushed(systemMetrics, Capacity, saver[s])
  /\ saver' = [saver EXCEPT ![s] = None]
  /\ UNCHANGED <<now, processMetrics, heap, processIndex, reader, collected>>

\* A wrong allocation: a buffer the index has given up is used again.
RecycledBuffer(sample) ==
  LET free == DOMAIN heap \ Range(processIndex) IN
  \E b \in IF free = {} THEN {Len(heap) + 1} ELSE free :
    /\ heap' = [i \in DOMAIN heap \cup {b} |-> IF i = b THEN <<sample>> ELSE heap[i]]
    /\ processIndex' = [processIndex EXCEPT ![sample.key] = b]

\* A key seen for the first time gets a buffer.
FreshBuffer(sample) ==
  /\ heap' = Append(heap, <<sample>>)
  /\ processIndex' = [processIndex EXCEPT ![sample.key] = Len(heap) + 1]

\* A wrong index: it keeps the first sample and no later one.
IndexFirst(sample) ==
  IF Indexed(sample.key) THEN UNCHANGED <<heap, processIndex>> ELSE FreshBuffer(sample)

Index(sample) ==
  \/ /\ Indexed(sample.key)
     /\ heap' = [heap EXCEPT
                   ![processIndex[sample.key]] = Pushed(@, IndexCapacity, sample)]
     /\ UNCHANGED processIndex
  \/ ~Indexed(sample.key) /\ FreshBuffer(sample)

\* Both pushes under one lock.
SaveProcessMetrics(s) ==
  /\ saver[s] # None /\ saver[s].key \in Keys
  /\ processMetrics' = Pushed(processMetrics, Capacity, saver[s])
  /\ Index(saver[s])
  /\ saver' = [saver EXCEPT ![s] = None]
  /\ Witnessed
  /\ UNCHANGED <<now, systemMetrics, collected>>

\* A wrong cleanup: emptied index buffers stay.
DeleteKeepingEmpty(before) ==
  /\ systemMetrics' = Evicted(systemMetrics, before)
  /\ processMetrics' = Evicted(processMetrics, before)
  /\ heap' = [b \in DOMAIN heap |-> IF b \in Range(processIndex)
                                    THEN Evicted(heap[b], before) ELSE heap[b]]
  /\ Witnessed
  /\ UNCHANGED <<now, processIndex, saver, collected>>

\* A wrong cleanup: it never comes to the index buffers.
DeleteMainOnly(before) ==
  /\ systemMetrics' = Evicted(systemMetrics, before)
  /\ processMetrics' = Evicted(processMetrics, before)
  /\ Witnessed
  /\ UNCHANGED <<now, heap, processIndex, saver, collected>>

\* DeleteOldMetrics evicts every buffer and drops the index buffers it empties.
DeleteOldMetrics(before) ==
  /\ systemMetrics' = Evicted(systemMetrics, before)
  /\ processMetrics' = Evicted(processMetrics, before)
  /\ heap' = [b \in DOMAIN heap |-> IF b \in Range(processIndex)
                                    THEN Evicted(heap[b], before) ELSE heap[b]]
  /\ processIndex' = [k \in Keys |->
       IF Indexed(k) /\ heap'[processIndex[k]] # << >> THEN processIndex[k] ELSE None]
  /\ Witnessed
  /\ UNCHANGED <<now, saver, collected>>

\* Close clears the main buffers and makes a new index; it does not clear the
\* buffers of the old one.
Close ==
  /\ systemMetrics' = << >> /\ processMetrics' = << >>
  /\ processIndex' = [k \in Keys |-> None]
  /\ heap' = heap
  /\ Witnessed
  /\ UNCHANGED <<now, saver, collected>>

\* GetLatestProcessMetrics finds the buffer under the lock and reads it
\* without.  A key that is not in the index is an error and no step.
LookupLatest(r, k) ==
  /\ reader[r] = None
  /\ Indexed(k)
  /\ reader' = [reader EXCEPT
       ![r] = [key |-> k, buffer |-> processIndex[k],
               answers |-> {LatestIn(heap, processIndex, k)}]]
  /\ UNCHANGED <<now, buffers, saver, collected>>

Answer(r) == Newest(heap[reader[r].buffer], 1)

ReadLatest(r) ==
  /\ reader[r] # None
  /\ reader' = [reader EXCEPT ![r] = None]
  /\ UNCHANGED <<now, buffers, saver, collected>>

-----------------------------------------------------------------------------
Next ==
  \/ Tick
  \/ \E s \in Savers :
       \/ \E k \in Keys \cup {System} : Collect(s, k)
       \/ SaveSystemMetrics(s) \/ SaveProcessMetrics(s)
  \/ \E before \in 1..now : DeleteOldMetrics(before)
  \/ Close
  \/ \E r \in Readers : ReadLatest(r) \/ \E k \in Keys : LookupLatest(r, k)

Spec == Init /\ [][Next]_vars

-----------------------------------------------------------------------------
Sample == [time : 0..MaxTime, key : Keys \cup {System}]
Call == [key : Keys, buffer : Nat, answers : SUBSET Seq(Sample)]

TypeOK ==
  /\ now \in 0..MaxTime /\ collected \in 0..MaxSaves
  /\ systemMetrics \in Seq(Sample) /\ Len(systemMetrics) <= Capacity
  /\ processMetrics \in Seq(Sample) /\ Len(processMetrics) <= Capacity
  /\ heap \in Seq(Seq(Sample))
  /\ \A b \in DOMAIN heap : Len(heap[b]) <= IndexCapacity
  /\ processIndex \in [Keys -> {None} \cup DOMAIN heap]
  /\ saver \in [Savers -> {None} \cup Sample]
  /\ reader \in [Readers -> {None} \cup Call]

Stored(k) == Kept(processMetrics, {i \in 1..Len(processMetrics) : processMetrics[i].key = k})

\* The main buffer and the index tell one history: of what they have of a key,
\* the shorter is the newest part of the longer, however their different
\* bounds, evictions and deletions have cut them.
OneHistory ==
  \A k \in Keys : Indexed(k) =>
    LET main == Stored(k)
        index == heap[processIndex[k]]
    IN  Newest(main, Len(index)) = Newest(index, Len(main))

\* The index has no empty buffers, so keys no longer seen do not pile up; and
\* no two keys share a buffer.
IndexIsTidy ==
  \A k \in Keys : Indexed(k) =>
    /\ heap[processIndex[k]] # << >>
    /\ \A i \in DOMAIN heap[processIndex[k]] : heap[processIndex[k]][i].key = k

\* A call that reads a buffer the index has given up answers what it could
\* have answered at some moment of the call: the stale pointer is harmless.
LatestLinearizable ==
  \A r \in Readers : reader[r] # None => Answer(r) \in reader[r].answers

\* The inductive invariant: moreover a buffer somebody reads is the one the
\* index has for his key, or one the index has given up for good.
RepositoryInv ==
  /\ TypeOK /\ IndexIsTidy /\ LatestLinearizable
  /\ \A r \in Readers : reader[r] # None =>
       /\ reader[r].buffer \in DOMAIN heap /\ reader[r].buffer # None
       /\ processIndex[reader[r].key] = reader[r].buffer
            \/ reader[r].buffer \notin Range(processIndex)

\* All that a clean-up up to before owes a log, which left is what remains of:
\* only older samples went, from the front, and an older one stays only behind
\* one that is not, stored before it.
CleanedUp(log, left, before) ==
  LET gone == Len(log) - Len(left) IN
  /\ gone >= 0 /\ left = Newest(log, Len(left))
  /\ \A i \in 1..gone : log[i].time < before
  /\ \A i \in 1..Len(left) : left[i].time < before =>
       \E j \in 1..(i - 1) : left[j].time >= before

Remaining(k) == IF processIndex'[k] = None THEN << >> ELSE heap'[processIndex'[k]]

\* A deletion cleans up every buffer, the index's too, and drops none that has
\* a younger sample.  So where the samples were stored in the order of their
\* times none older is left; concurrent savers may store them in another.
DeletesAllOlder ==
  [][\A before \in 1..now : DeleteOldMetrics(before) =>
       /\ CleanedUp(systemMetrics, systemMetrics', before)
       /\ CleanedUp(processMetrics, processMetrics', before)
       /\ \A k \in Keys : Indexed(k) =>
            CleanedUp(heap[processIndex[k]], Remaining(k), before)]_vars

\* What DeleteOldMetrics says of itself, whatever the order of the samples:
\* "removes metrics older than the specified time".
DeletesMetricsOlder ==
  [][\A before \in 1..now : DeleteOldMetrics(before) =>
       \A i \in DOMAIN processMetrics' : processMetrics'[i].time >= before]_vars
=============================================================================
