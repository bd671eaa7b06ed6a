----------------------------- MODULE RingBuffer -----------------------------
(***************************************************************************)
(* The circular buffer of internal/infrastructure/storage/ringbuffer.go.   *)
(* The parallel slices buffer and timestamps are one array of entries      *)
(* (they are always indexed and assigned together).  Operations that hold  *)
(* mu exclusively are one step each.  Operations that hold it shared copy  *)
(* entries and then add to totalReads without excluding each other, so     *)
(* the load and the store of every addition are steps of their own.        *)
(***************************************************************************)
EXTENDS TimeSeries

CONSTANTS
  Items,            \* payloads
  Times,            \* timestamps callers pass
  Requested,        \* arguments of NewRingBuffer and Resize, any integers
  DefaultCapacity,  \* the 1000 of NewRingBuffer
  LinearLimit,      \* the 100 below which GetByTimeRange scans
  Readers,          \* goroutines that read under the shared lock
  MaxWrites,        \* bound on totalWrites
  MaxReads          \* bound on the entries handed out by reads

ASSUME RingAssumption ==
  /\ Times \subseteq Int
  /\ Requested \subseteq Int
  /\ DefaultCapacity \in Nat \ {0}
  /\ MaxWrites \in Nat
  /\ MaxReads \in Nat

VARIABLES
  slots, capacity, head, tail, size,
  totalWrites, totalReads,
  reader,    \* per reader: additions left, the addend, the value loaded
  handedOut  \* history: the entries returned by Pop and by counted reads

vars == <<slots, capacity, head, tail, size, totalWrites, totalReads,
          reader, handedOut>>
indices == <<capacity, head, tail, size>>

Entry == [item : Items, time : Times]
Zero == [item |-> "zero", time |-> 0]    \* what make() puts in a slot
NotLoaded == -1
Idle == [left |-> 0, by |-> 0, loaded |-> NotLoaded]
Busy == [left : Nat \ {0}, by : Nat, loaded : Nat \cup {NotLoaded}]

Capacities == {c \in Requested : c > 0} \cup {DefaultCapacity}

\* The i-th oldest entry, from 0, and all of them, oldest first.
At(i) == slots[(tail + i) % capacity]
Contents == [i \in 1..size |-> At(i - 1)]

\* The shared lock keeps writers out from a read's first step to its last.
Unlocked == \A r \in Readers : reader[r] = Idle

Init ==
  /\ \E c \in Requested : capacity = IF c <= 0 THEN DefaultCapacity ELSE c
  /\ slots = [i \in 0..capacity-1 |-> Zero]
  /\ head = 0 /\ tail = 0 /\ size = 0
  /\ totalWrites = 0 /\ totalReads = 0 /\ handedOut = 0
  /\ reader = [r \in Readers |-> Idle]

-----------------------------------------------------------------------------
\* A wrong push: the tail of a full buffer stays where it is.
PushStuckTail(entry) ==
  /\ Unlocked
  /\ totalWrites < MaxWrites
  /\ slots' = [slots EXCEPT ![head] = entry]
  /\ head' = (head + 1) % capacity
  /\ size' = IF size < capacity THEN size + 1 ELSE size
  /\ totalWrites' = totalWrites + 1
  /\ UNCHANGED <<tail, capacity, totalReads, reader, handedOut>>

PushWithTime(entry) ==
  /\ Unlocked
  /\ totalWrites < MaxWrites
  /\ slots' = [slots EXCEPT ![head] = entry]
  /\ head' = (head + 1) % capacity
  /\ \/ /\ size < capacity
        /\ size' = size + 1
        /\ tail' = tail
     \/ /\ size >= capacity
        /\ tail' = (tail + 1) % capacity
        /\ size' = size
  /\ totalWrites' = totalWrites + 1
  /\ UNCHANGED <<capacity, totalReads, reader, handedOut>>

Pop ==
  /\ Unlocked
  /\ handedOut < MaxReads
  /\ size # 0
  /\ tail' = (tail + 1) % capacity
  /\ size' = size - 1
  /\ totalReads' = totalReads + 1
  /\ handedOut' = handedOut + 1
  /\ UNCHANGED <<slots, capacity, head, totalWrites, reader>>

\* Clear leaves the slots and the counters as they are.
Clear ==
  /\ Unlocked
  /\ head' = 0 /\ tail' = 0 /\ size' = 0
  /\ UNCHANGED <<slots, capacity, totalWrites, totalReads, reader, handedOut>>

\* A wrong eviction: entries of the cutoff's own time go too.
EvictUpTo(cutoff) ==
  /\ Unlocked
  /\ \E k \in 0..size :
       /\ \A j \in 0..k-1 : At(j).time <= cutoff
       /\ k < size => At(k).time > cutoff
       /\ tail' = (tail + k) % capacity
       /\ size' = size - k
  /\ UNCHANGED <<slots, capacity, head, totalWrites, totalReads, reader,
                 handedOut>>

\* The tail steps over entries older than cutoff and stops at the first that
\* is not; k is how many it steps over.
EvictOlderThan(cutoff) ==
  /\ Unlocked
  /\ \E k \in 0..size :
       /\ \A j \in 0..k-1 : At(j).time < cutoff
       /\ k < size => At(k).time >= cutoff
       /\ tail' = (tail + k) % capacity
       /\ size' = size - k
  /\ UNCHANGED <<slots, capacity, head, totalWrites, totalReads, reader,
                 handedOut>>

\* New slices take the newest entries from index 0 on; a capacity that is not
\* positive or not new is ignored.
Resize(newCapacity) ==
  /\ Unlocked
  /\ newCapacity > 0 /\ newCapacity # capacity
  /\ LET start == IF size > newCapacity THEN size - newCapacity ELSE 0
     IN  /\ slots' = [i \in 0..newCapacity-1 |->
                        IF i < size - start THEN At(start + i) ELSE Zero]
         /\ size' = size - start
         /\ head' = (size - start) % newCapacity
  /\ tail' = 0
  /\ capacity' = newCapacity
  /\ UNCHANGED <<totalWrites, totalReads, reader, handedOut>>

-----------------------------------------------------------------------------
\* What GetLatest(n) returns: startIdx is computed from the tail.
GetLatest(n) ==
  LET count == IF n > size THEN size ELSE n
      startIdx == (tail + size - count) % capacity
  IN  [i \in 1..count |-> slots[(startIdx + (i - 1)) % capacity]]

\* Reader r takes the shared lock to add by to totalReads, times over.  A read
\* of an empty buffer and one that matches nothing change nothing.
BeginRead(r, times, by) ==
  /\ reader[r] = Idle
  /\ size # 0 /\ times > 0
  /\ handedOut + times * by <= MaxReads
  /\ reader' = [reader EXCEPT
                  ![r] = [left |-> times, by |-> by, loaded |-> NotLoaded]]
  /\ UNCHANGED <<slots, indices, totalWrites, totalReads, handedOut>>

ReadAll(r) == BeginRead(r, 1, size)

ReadLatest(r, n) == BeginRead(r, 1, Len(GetLatest(n)))

\* The scan of a short buffer counts each match by itself, the search of a
\* long one counts its result once; it does not return when make panics.
ReadByTimeRange(r, from, to) ==
  LET matches == Len(RangeRead(Contents, LinearLimit, from, to)) IN
  /\ ~RangePanics(Contents, LinearLimit, from, to)
  /\ IF size < LinearLimit THEN BeginRead(r, matches, 1)
                           ELSE BeginRead(r, 1, matches)

LoadReads(r) ==
  /\ reader[r].left > 0
  /\ reader[r].loaded = NotLoaded
  /\ reader' = [reader EXCEPT ![r].loaded = totalReads]
  /\ UNCHANGED <<slots, indices, totalWrites, totalReads, handedOut>>

\* The store ends one addition; the last one releases the shared lock.
StoreReads(r) ==
  /\ reader[r].loaded # NotLoaded
  /\ totalReads' = reader[r].loaded + reader[r].by
  /\ handedOut' = handedOut + reader[r].by
  /\ reader' = [reader EXCEPT
                  ![r] = IF @.left = 1
                         THEN Idle
                         ELSE [left |-> @.left - 1, by |-> @.by,
                               loaded |-> NotLoaded]]
  /\ UNCHANGED <<slots, indices, totalWrites>>

-----------------------------------------------------------------------------
Writing ==
  \/ \E entry \in Entry : PushWithTime(entry)
  \/ Pop
  \/ Clear
  \/ \E cutoff \in Times : EvictOlderThan(cutoff)
  \/ \E newCapacity \in Requested : Resize(newCapacity)

Reading(r) ==
  \/ ReadAll(r)
  \/ \E n \in 0..capacity+1 : ReadLatest(r, n)
  \/ \E from, to \in Times : ReadByTimeRange(r, from, to)
  \/ LoadReads(r)
  \/ StoreReads(r)

Next == Writing \/ \E r \in Readers : Reading(r)

Spec == Init /\ [][Next]_vars

-----------------------------------------------------------------------------
TypeOK ==
  /\ capacity \in Capacities
  /\ slots \in [0..capacity-1 -> Entry \cup {Zero}]
  /\ head \in 0..capacity-1
  /\ tail \in 0..capacity-1
  /\ size \in 0..capacity
  /\ totalWrites \in Nat
  /\ totalReads \in Nat
  /\ handedOut \in Nat
  /\ reader \in [Readers -> {Idle} \cup Busy]

\* The three indices agree: head is the slot size places after tail, whatever
\* sequence of wrapping writes, evictions and resizes came before.  Every read
\* derives its slots from tail and size, every write from head alone.
IndicesAgree == head = (tail + size) % capacity

\* GetLatest walks forward from an index it computes modulo the capacity; it
\* returns the newest entries whether or not they wrap around the array.
LatestIsNewest ==
  \A n \in 0..capacity+1 : GetLatest(n) = Newest(Contents, n)

\* On entries in time order the scan and the two binary searches of
\* GetByTimeRange return the same thing, the entries of the range, and the
\* searches never cross, so make is never given a negative capacity.
RangeReadExact ==
  TimeOrdered(Contents) =>
    \A from, to \in Times : from <= to =>
      /\ ~RangePanics(Contents, LinearLimit, from, to)
      /\ RangeRead(Contents, LinearLimit, from, to) = Within(Contents, from, to)

Young(log, cutoff) == Kept(log, {i \in 1..Len(log) : log[i].time >= cutoff})

\* EvictOlderThan never drops an entry that is young enough, in whatever order
\* the entries are, and leaves no old one behind when they are in time order.
EvictionKeepsTheYoung ==
  [][\A cutoff \in Times : EvictOlderThan(cutoff) =>
       /\ Young(Contents', cutoff) = Young(Contents, cutoff)
       /\ TimeOrdered(Contents) => Contents' = Young(Contents, cutoff)]_vars

\* Readers that lose each other's additions to totalReads can only make it
\* too small: neither totalReads nor a value some reader is about to add to
\* ever counts an entry that was not handed out.
ReadsNeverOvercounted ==
  /\ totalReads <= handedOut
  /\ \A r \in Readers : reader[r].loaded <= handedOut

\* A ring buffer is a bounded log of the entries between tail and head.
Log == INSTANCE BoundedLog WITH
         Entry <- Entry, Bound <- Capacities, log <- Contents, bound <- capacity
ImplementsBoundedLog == Log!LogSpec
=============================================================================
