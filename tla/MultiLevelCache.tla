--------------------------- MODULE MultiLevelCache ---------------------------
(***************************************************************************)
(* The two-level cache (infrastructure/optimization/cache.go): a small L1  *)
(* over a larger L2, both of them LRU caches with locks of their own, that *)
(* hand entries down when L1 evicts and copy them up when L2 is hit often. *)
(*                                                                         *)
(* SetWithTTL, Delete, Clear and cleanup hold c.mu alone and are one step. *)
(* Get shares c.mu: each call it makes to an LRU cache is a step, and so   *)
(* is the eviction callback, which the LRU cache runs after its own lock   *)
(* is released.  A value is the number of the Set that brought it.         *)
(***************************************************************************)
EXTENDS Integers, Sequences, FiniteSets, Subsequences

CONSTANTS
  Keys,
  Readers,          \* goroutines that call Get
  L1Size, L2Size,
  L1TTL,            \* what a promotion gives
  TTL,              \* of each key: what its callers give SetWithTTL
  HotHits,          \* an entry with more hits than this is promoted (3)
  Nothing,          \* no entry, a missed Get
  MaxTime, MaxSets  \* bounds on the clock and on the calls of SetWithTTL

Entry == [key : Keys, value : Nat, expiresAt : Nat, hitCount : Nat]

\* Every caller of SetWithTTL in the repository asks for L1TTL or longer.
ASSUME CacheAssumption ==
  /\ L1Size \in Nat \ {0} /\ L2Size \in Nat \ {0}
  /\ L1TTL \in Nat /\ TTL \in [Keys -> Nat] /\ \A k \in Keys : TTL[k] >= L1TTL
  /\ HotHits \in Nat /\ MaxTime \in Nat /\ MaxSets \in Nat
  /\ Nothing \notin Nat \cup Entry

VARIABLES
  now,     \* the clock
  l1, l2,  \* the entries of each level, least recently used first
  reader,  \* of each goroutine: where its Get is
  sets,    \* calls of SetWithTTL so far
  latest,  \* ghost: the value each key was given last, Nothing once removed
  dropped, \* ghost: the last value there was when each key was last removed
  raced    \* ghost: two Gets have been under way at once

levels == <<l1, l2>>
ghosts == <<sets, latest, dropped, raced>>
vars == <<now, levels, reader, ghosts>>

Idle == [at |-> "idle"]
Running(r) == reader[r].at \notin {"idle", "returned"}
Unshared == \A r \in Readers : ~Running(r)   \* c.mu can be locked

Init ==
  /\ now = 0 /\ l1 = << >> /\ l2 = << >>
  /\ reader = [r \in Readers |-> Idle]
  /\ sets = 0 /\ raced = FALSE
  /\ latest = [k \in Keys |-> Nothing] /\ dropped = [k \in Keys |-> 0]

Tick == now < MaxTime /\ now' = now + 1 /\ UNCHANGED <<levels, reader, ghosts>>

-----------------------------------------------------------------------------
(***************************************************************************)
(* An LRU cache.                                                           *)
(***************************************************************************)
Holds(level, k) == \E i \in DOMAIN level : level[i].key = k
Entries(level) == {level[i] : i \in DOMAIN level}
EntryOf(level, k) == level[CHOOSE i \in DOMAIN level : level[i].key = k]
Without(level, k) == Kept(level, {i \in DOMAIN level : level[i].key # k})
Used(level, e) == Append(Without(level, e.key), e)

Added(level, bound, e) ==
  IF Len(Used(level, e)) > bound THEN Tail(Used(level, e)) ELSE Used(level, e)

\* The entry that Add(e) evicts, if it does.
Victim(level, bound, e) ==
  IF Len(Used(level, e)) > bound THEN Head(Used(level, e)) ELSE Nothing

Expired(e) == now > e.expiresAt

\* The eviction callback of L1: what it leaves in L2.
Demoted(level, e) ==
  IF e = Nothing \/ Expired(e) THEN level ELSE Added(level, L2Size, e)

-----------------------------------------------------------------------------
(***************************************************************************)
(* The calls that hold c.mu alone.                                         *)
(***************************************************************************)
NewEntry(k) == [key |-> k, value |-> sets + 1, expiresAt |-> now + TTL[k], hitCount |-> 0]

\* A wrong Set: an entry that is there already stays.
SetIfAbsent(k) ==
  /\ sets < MaxSets /\ Unshared
  /\ sets' = sets + 1
  /\ latest' = [latest EXCEPT ![k] = sets + 1]
  /\ l1' = IF Holds(l1, k) THEN l1 ELSE Added(l1, L1Size, NewEntry(k))
  /\ l2' = IF Holds(l1, k) THEN l2 ELSE Demoted(l2, Victim(l1, L1Size, NewEntry(k)))
  /\ UNCHANGED <<now, reader, dropped, raced>>

\* The copy of k that L2 may have stays there.
SetWithTTL(k) ==
  /\ sets < MaxSets /\ Unshared
  /\ sets' = sets + 1
  /\ latest' = [latest EXCEPT ![k] = sets + 1]
  /\ l1' = Added(l1, L1Size, NewEntry(k))
  /\ l2' = Demoted(l2, Victim(l1, L1Size, NewEntry(k)))
  /\ UNCHANGED <<now, reader, dropped, raced>>

Forget(ks) ==
  /\ latest' = [k \in Keys |-> IF k \in ks THEN Nothing ELSE latest[k]]
  /\ dropped' = [k \in Keys |-> IF k \in ks THEN sets ELSE dropped[k]]
  /\ UNCHANGED <<now, reader, sets, raced>>

\* A wrong order: L2 first, so the callback brings the entry back.
DeleteUpwards(k) ==
  /\ Unshared
  /\ l1' = Without(l1, k)
  /\ l2' = IF Holds(l1, k) THEN Demoted(Without(l2, k), EntryOf(l1, k))
                           ELSE Without(l2, k)
  /\ Forget({k})

\* L1's Remove runs the callback too, which can evict another key from L2.
Delete(k) ==
  /\ Unshared
  /\ l1' = Without(l1, k)
  /\ l2' = Without(IF Holds(l1, k) THEN Demoted(l2, EntryOf(l1, k)) ELSE l2, k)
  /\ Forget({k})

Clear == Unshared /\ l1' = << >> /\ l2' = << >> /\ Forget(Keys)

Unexpired(level) == Kept(level, {i \in DOMAIN level : ~Expired(level[i])})

Cleanup ==
  /\ Unshared
  /\ l1' = Unexpired(l1) /\ l2' = Unexpired(l2)
  /\ UNCHANGED <<now, reader, ghosts>>

-----------------------------------------------------------------------------
(***************************************************************************)
(* Get, one call to an LRU cache at a time.                                *)
(***************************************************************************)
Hit(e) == [e EXCEPT !.hitCount = IF @ > HotHits THEN @ ELSE @ + 1]  \* saturates
Goto(r, place) == reader' = [reader EXCEPT ![r] = place]
Return(r, k, answer) == Goto(r, [at |-> "returned", key |-> k, value |-> answer])

\* The lookup in L1 and the test of what it found.
LookL1(r, k) ==
  /\ ~Running(r)
  /\ raced' = (raced \/ ~Unshared)
  /\ IF Holds(l1, k)
     THEN LET e == EntryOf(l1, k) IN
          IF Expired(e)
          THEN l1' = Used(l1, e) /\ Goto(r, [at |-> "expired in L1", key |-> k])
          ELSE l1' = Used(l1, Hit(e)) /\ Return(r, k, e.value)
     ELSE UNCHANGED l1 /\ Goto(r, [at |-> "missed L1", key |-> k])
  /\ UNCHANGED <<now, l2, sets, latest, dropped>>

\* The Remove of an expired entry takes what is there by now, and its callback
\* hands it down if that has not expired.
RemoveFromL1(r) ==
  /\ reader[r].at = "expired in L1"
  /\ LET k == reader[r].key IN
     /\ l1' = Without(l1, k)
     /\ Goto(r, IF Holds(l1, k)
                THEN [at |-> "removed from L1", key |-> k, entry |-> EntryOf(l1, k)]
                ELSE [at |-> "missed L1", key |-> k])
  /\ UNCHANGED <<now, l2, ghosts>>

DemoteRemoved(r) ==
  /\ reader[r].at = "removed from L1"
  /\ l2' = Demoted(l2, reader[r].entry)
  /\ Goto(r, [at |-> "missed L1", key |-> reader[r].key])
  /\ UNCHANGED <<now, l1, ghosts>>

LookL2(r) ==
  /\ reader[r].at = "missed L1"
  /\ LET k == reader[r].key IN
     IF Holds(l2, k)
     THEN LET e == Hit(EntryOf(l2, k)) IN
          IF Expired(e)
          THEN /\ l2' = Used(l2, EntryOf(l2, k))
               /\ Goto(r, [at |-> "expired in L2", key |-> k])
          ELSE /\ l2' = Used(l2, e)
               /\ IF e.hitCount > HotHits
                  THEN Goto(r, [at |-> "promoting", key |-> k, entry |-> e])
                  ELSE Return(r, k, e.value)
     ELSE UNCHANGED l2 /\ Return(r, k, Nothing)
  /\ UNCHANGED <<now, l1, ghosts>>

RemoveFromL2(r) ==
  /\ reader[r].at = "expired in L2"
  /\ l2' = Without(l2, reader[r].key)
  /\ Return(r, reader[r].key, Nothing)
  /\ UNCHANGED <<now, l1, ghosts>>

\* promoteToL1 adds a copy with a deadline of its own; the entry stays in L2.
Promote(r) ==
  /\ reader[r].at = "promoting"
  /\ LET e == [reader[r].entry EXCEPT !.expiresAt = now + L1TTL] IN
     /\ l1' = Added(l1, L1Size, e)
     /\ IF Victim(l1, L1Size, e) = Nothing
        THEN Return(r, e.key, e.value)
        ELSE Goto(r, [at |-> "evicted from L1", key |-> e.key, value |-> e.value,
                      entry |-> Victim(l1, L1Size, e)])
  /\ UNCHANGED <<now, l2, ghosts>>

DemoteEvicted(r) ==
  /\ reader[r].at = "evicted from L1"
  /\ l2' = Demoted(l2, reader[r].entry)
  /\ Return(r, reader[r].key, reader[r].value)
  /\ UNCHANGED <<now, l1, ghosts>>

Get(r) ==
  \/ \E k \in Keys : LookL1(r, k)
  \/ RemoveFromL1(r) \/ DemoteRemoved(r)
  \/ LookL2(r) \/ RemoveFromL2(r)
  \/ Promote(r) \/ DemoteEvicted(r)

Next ==
  \/ Tick
  \/ \E k \in Keys : SetWithTTL(k) \/ Delete(k)
  \/ Clear \/ Cleanup
  \/ \E r \in Readers : Get(r)

Spec == Init /\ [][Next]_vars

-----------------------------------------------------------------------------
Level(level, bound) ==
  /\ level \in Seq(Entry) /\ Len(level) <= bound
  /\ \A i, j \in DOMAIN level : level[i].key = level[j].key => i = j

Places ==
  [at : {"idle"}]
  \cup [at : {"expired in L1", "missed L1", "expired in L2"}, key : Keys]
  \cup [at : {"removed from L1", "promoting"}, key : Keys, entry : Entry]
  \cup [at : {"evicted from L1"}, key : Keys, value : Nat, entry : Entry]
  \cup [at : {"returned"}, key : Keys, value : Nat \cup {Nothing}]

TypeOK ==
  /\ now \in 0..MaxTime /\ sets \in 0..MaxSets /\ raced \in BOOLEAN
  /\ Level(l1, L1Size) /\ Level(l2, L2Size)
  /\ reader \in [Readers -> Places]
  /\ latest \in [Keys -> Nat \cup {Nothing}] /\ dropped \in [Keys -> Nat]

\* The entries a Get has in its hands, and all there are.
Carried(r) == IF "entry" \in DOMAIN reader[r] THEN {reader[r].entry} ELSE {}
Found == Entries(l1) \cup Entries(l2) \cup UNION {Carried(r) : r \in Readers}

\* What an entry found anywhere, on its way between the levels too, could still
\* answer was set after its key was last deleted or cleared.
NothingResurrected == \A e \in Found : e.value > dropped[e.key]

\* Why: a removal happens while no Get has an entry in its hands, takes every
\* copy of the key, and no value up to then is given to anybody later.
CacheInv ==
  /\ TypeOK /\ NothingResurrected
  /\ \A k \in Keys : dropped[k] <= sets

\* As long as no two Gets have met, a Get answers the value its key was given
\* last, through every eviction, expiry and promotion, or it misses; a stale
\* copy in L2 is never found behind an entry of L1 that has gone.
FreshReads ==
  [][\A r \in Readers : reader'[r] # reader[r] /\ reader'[r].at = "returned" /\ ~raced =>
       reader'[r].value \in {Nothing, latest[reader'[r].key]}]_vars

\* Why: L1 has what was given last, and an older copy in L2 that has not expired
\* is behind an entry of its key that lives at least as long, in L1 or on its way
\* from there; none lives longer than one that would be set now.
Outlives(o, e) == o.key = e.key /\ o.expiresAt >= e.expiresAt

Hidden(e) ==
  \/ \E o \in Entries(l1) : Outlives(o, e)
  \/ \E r \in Readers : reader[r].at = "evicted from L1" /\ Outlives(reader[r].entry, e)

\* Where the one Get that is under way may be.
FreshPlace(p) ==
  /\ p.at = "expired in L1" => \A e \in Entries(l1) : e.key = p.key => Expired(e)
  /\ p.at \in {"missed L1", "expired in L2"} => ~Holds(l1, p.key)
  /\ p.at = "removed from L1" => ~Holds(l1, p.key) /\ Expired(p.entry)
  /\ p.at = "promoting" => ~Holds(l1, p.key) /\ p.entry.key = p.key /\ p.entry.value = latest[p.key]
  /\ p.at = "evicted from L1" =>
       /\ ~Holds(l1, p.entry.key)
       /\ p.entry.value = latest[p.entry.key] /\ p.value = latest[p.key]

ShortLived == \A e \in Found : e.expiresAt <= now + TTL[e.key]
OneGet == \A r, q \in Readers : Running(r) /\ Running(q) => r = q
LatestInL1 == \A e \in Entries(l1) : e.value = latest[e.key]
StaleIsHidden == \A e \in Entries(l2) : e.value = latest[e.key] \/ Expired(e) \/ Hidden(e)
FreshPlaces == \A r \in Readers : FreshPlace(reader[r])

FreshInv ==
  /\ TypeOK /\ ShortLived
  /\ ~raced => OneGet /\ LatestInL1 /\ StaleIsHidden /\ FreshPlaces

-----------------------------------------------------------------------------
(***************************************************************************)
(* What the repository says and the code does not do.                      *)
(***************************************************************************)
\* "SetWithTTL stores a value in the cache": a Get from then on that finds one
\* finds that, not an older one.
ReadsLatest ==
  [][\A r \in Readers : reader'[r] # reader[r] /\ reader'[r].at = "returned" =>
       reader'[r].value \in {Nothing, latest[reader'[r].key]}]_vars
=============================================================================
