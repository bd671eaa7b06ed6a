----------------------------- MODULE TimeSeries -----------------------------
(***************************************************************************)
(* What internal/infrastructure/storage computes on the entries of a ring  *)
(* buffer, read as a sequence from the oldest write to the newest.  An     *)
(* entry is a record with a field time (the caller's timestamp, which need *)
(* not grow along the sequence) and whatever payload the caller stores.    *)
(***************************************************************************)
EXTENDS Integers, Sequences, FiniteSets, Subsequences

\* The last n entries of log: everything, when there are no more than n.
Newest(log, n) ==
  LET kept == IF n < Len(log) THEN n ELSE Len(log)
  IN  [i \in 1..kept |-> log[Len(log) - kept + i]]

\* Two wrong writes: one that never makes room, one that overwrites the oldest
\* entry where it is, as a full buffer would if its tail stayed.
PushedUnbounded(log, bound, entry) == Append(log, entry)
PushedInPlace(log, bound, entry) ==
  IF Len(log) < bound THEN Append(log, entry) ELSE [log EXCEPT ![1] = entry]

\* log after a write of entry to a buffer of the given bound: the oldest
\* entry makes room when the buffer is full.
Pushed(log, bound, entry) ==
  Append(IF Len(log) < bound THEN log ELSE Tail(log), entry)

\* The entries whose time is neither before from nor after to.
Within(log, from, to) ==
  Kept(log, {i \in 1..Len(log) : from <= log[i].time /\ log[i].time <= to})

TimeOrdered(log) ==
  \A i, j \in 1..Len(log) : i <= j => log[i].time <= log[j].time

-----------------------------------------------------------------------------
(***************************************************************************)
(* sort.Search(n, f) of the Go library: the binary search for the smallest *)
(* index in 0..n-1 at which holds is TRUE, n when there is none.  The      *)
(* answer is only meaningful when holds is FALSE up to some index and TRUE *)
(* from there on; on any other predicate it is whatever the halving finds. *)
(* Every round of its loop shortens the range from i to j, so n are enough.*)
(***************************************************************************)
Halved(range, holds) ==
  LET h == (range.i + range.j) \div 2 IN
  IF range.i >= range.j THEN range
  ELSE IF holds[h] THEN [i |-> range.i, j |-> h] ELSE [i |-> h + 1, j |-> range.j]

SearchRounds(n, holds) ==
  LET range[k \in 0..n] ==
        IF k = 0 THEN [i |-> 0, j |-> n] ELSE Halved(range[k - 1], holds)
  IN  range

SortSearch(n, holds) == SearchRounds(n, holds)[n].i

\* A wrong search: the end of the range excluded.
SearchedExclusive(log, from, to) ==
  LET n == Len(log) IN
  [first |-> SortSearch(n, [i \in 0..n-1 |-> log[i+1].time >= from]),
   last  |-> SortSearch(n, [i \in 0..n-1 |-> log[i+1].time >= to])]

\* The half-open range of indices [first, last) GetByTimeRange cuts out of a
\* log of linearLimit entries or more with two binary searches.
SearchedRange(log, from, to) ==
  LET n == Len(log) IN
  [first |-> SortSearch(n, [i \in 0..n-1 |-> log[i+1].time >= from]),
   last  |-> SortSearch(n, [i \in 0..n-1 |-> log[i+1].time > to])]

\* make([]T, 0, endIdx-startIdx) panics when the two searches cross.
RangePanics(log, linearLimit, from, to) ==
  /\ Len(log) >= linearLimit
  /\ LET r == SearchedRange(log, from, to)
     IN  r.first < Len(log) /\ r.last < r.first

\* What GetByTimeRange returns (when it returns): a scan of a short log, the
\* entries between the two searches of a long one.
RangeRead(log, linearLimit, from, to) ==
  IF Len(log) < linearLimit
  THEN Within(log, from, to)
  ELSE LET r == SearchedRange(log, from, to)
       IN  IF r.first >= Len(log) \/ r.last <= r.first
           THEN << >>
           ELSE SubSeq(log, r.first + 1, r.last)

\* log once EvictOlderThan has dropped entries from its old end: it stops at
\* the first entry that is not older than the cutoff.
Evicted(log, cutoff) ==
  LET old == {i \in 1..Len(log) : \A j \in 1..i : log[j].time < cutoff}
  IN  SubSeq(log, Cardinality(old) + 1, Len(log))
=============================================================================
