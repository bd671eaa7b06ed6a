----------------------------- MODULE CachesProofs -----------------------------
(***************************************************************************)
(* Theorems about the two caches: the two-level cache never brings back    *)
(* what was deleted, and a Get that meets no other answers what was set    *)
(* last; the rates computed from the samples report no byte twice, or,     *)
(* where collections overlap, at most once for each collector; and what    *)
(* the Linux readers answer is right, for anything the kernel shows.       *)
(***************************************************************************)
EXTENDS MCCaches, SubsequenceProofs, FiniteSetTheorems, SequenceTheorems, TLAPS

-----------------------------------------------------------------------------
(***************************************************************************)
(* The entries of a level, through the operations of an LRU cache.         *)
(***************************************************************************)
LEMMA LevelEntries ==
  ASSUME NEW bound, NEW level, Level(level, bound)
  PROVE  /\ level \in Seq(Entry) /\ Len(level) \in Nat /\ Entries(level) \subseteq Entry
         /\ DOMAIN level = 1..Len(level) /\ \A i \in 1..Len(level) : level[i] \in Entries(level)
         /\ \A e, f \in Entries(level) : e.key = f.key => e = f
         /\ \A k : Holds(level, k) <=> \E e \in Entries(level) : e.key = k
<1>1. level \in Seq(Entry) /\ DOMAIN level = 1..Len(level) /\ Len(level) \in Nat
  BY DEF Level
<1> QED
  BY <1>1 DEF Level, Entries, Holds

\* The operations that drop the entries whose index is not in I.
LEMMA KeptLevel ==
  ASSUME NEW bound \in Nat, NEW level, Level(level, bound), NEW I
  PROVE  /\ Level(Kept(level, I), bound)
         /\ Entries(Kept(level, I)) = {level[i] : i \in I \cap DOMAIN level}
         /\ (\E i \in DOMAIN level : i \notin I) => Len(Kept(level, I)) < Len(level)
<1> DEFINE k == Kept(level, I)
<1>1. level \in Seq(Entry) /\ DOMAIN level = 1..Len(level) /\ Len(level) \in Nat /\ Len(level) <= bound
  BY DEF Level
<1>2. k \in Seq(Entry) /\ DrawnFrom(k, level, I)
  BY <1>1, KeptElements
<1>3. Len(k) <= Len(level) /\ ((\E i \in 1..Len(level) : i \notin I) => Len(k) < Len(level))
  BY <1>1, KeptLength
<1> HIDE DEF k
<1>4. DOMAIN k = 1..Len(k) /\ Len(k) \in Nat
  BY <1>2
<1>5. Level(k, bound)
  <2>1. ASSUME NEW x \in 1..Len(k), NEW y \in 1..Len(k), k[x].key = k[y].key, x # y PROVE FALSE
    <3>0. \A p, q \in 1..Len(k) : p # q =>
            \E i, j \in I \cap (1..Len(level)) : i # j /\ k[p] = level[i] /\ k[q] = level[j]
      BY <1>2 DEF DrawnFrom
    <3>1. PICK i \in 1..Len(level), j \in 1..Len(level) : i # j /\ k[x] = level[i] /\ k[y] = level[j]
      BY <2>1, <3>0
    <3> QED
      BY <1>1, <2>1, <3>1 DEF Level
  <2>2. Len(k) <= bound
    BY <1>1, <1>3, <1>4
  <2> QED
    BY <1>2, <1>4, <2>1, <2>2 DEF Level
<1>6. Entries(k) = {level[i] : i \in I \cap DOMAIN level}
  <2>1. ASSUME NEW e PROVE e \in Entries(k) <=> \E i \in I \cap (1..Len(level)) : e = level[i]
    <3>1. e \in Entries(k) <=> \E j \in 1..Len(k) : e = k[j]
      BY <1>4 DEF Entries
    <3>2. ASSUME NEW j \in 1..Len(k) PROVE \E i \in I \cap (1..Len(level)) : k[j] = level[i]
      BY <1>2 DEF DrawnFrom
    <3>3. ASSUME NEW i \in I \cap (1..Len(level)) PROVE \E j \in 1..Len(k) : k[j] = level[i]
      BY <1>2 DEF DrawnFrom
    <3> QED
      BY <3>1, <3>2, <3>3, Zenon
  <2> QED
    BY <1>1, <2>1
<1> QED
  BY <1>1, <1>3, <1>5, <1>6 DEF k

LEMMA WithoutLevel ==
  ASSUME NEW bound \in Nat, NEW level, Level(level, bound), NEW k
  PROVE  /\ Level(Without(level, k), bound)
         /\ Entries(Without(level, k)) = {e \in Entries(level) : e.key # k}
         /\ Holds(level, k) => Len(Without(level, k)) < Len(level)
         /\ ~Holds(Without(level, k), k)
<1> DEFINE I == {i \in DOMAIN level : level[i].key # k}
<1>1. /\ Level(Kept(level, I), bound)
      /\ Entries(Kept(level, I)) = {level[i] : i \in I \cap DOMAIN level}
      /\ (\E i \in DOMAIN level : i \notin I) => Len(Kept(level, I)) < Len(level)
  <2> HIDE DEF I
  <2> QED
    BY KeptLevel
<1>2. {level[i] : i \in I \cap DOMAIN level} = {e \in Entries(level) : e.key # k}
  BY DEF Entries
<1>3. Holds(level, k) => \E i \in DOMAIN level : i \notin I
  BY DEF Holds
<1>4. Without(level, k) = Kept(level, I)
  BY DEF Without
<1> HIDE DEF I
<1>5. ~Holds(Kept(level, I), k)
  BY <1>1, <1>2, LevelEntries
<1> QED
  BY <1>1, <1>2, <1>3, <1>4, <1>5

LEMMA UnexpiredLevel ==
  ASSUME NEW bound \in Nat, NEW level, Level(level, bound)
  PROVE  /\ Level(Unexpired(level), bound)
         /\ Entries(Unexpired(level)) = {e \in Entries(level) : ~Expired(e)}
<1> DEFINE I == {i \in DOMAIN level : ~Expired(level[i])}
<1>1. Level(Kept(level, I), bound) /\ Entries(Kept(level, I)) = {level[i] : i \in I \cap DOMAIN level}
  <2> HIDE DEF I
  <2> QED
    BY KeptLevel
<1>2. {level[i] : i \in I \cap DOMAIN level} = {e \in Entries(level) : ~Expired(e)}
  BY DEF Entries
<1> QED
  BY <1>1, <1>2 DEF Unexpired

LEMMA EntryOfLevel ==
  ASSUME NEW bound, NEW level, Level(level, bound), NEW k, Holds(level, k)
  PROVE  /\ EntryOf(level, k) \in Entries(level) /\ EntryOf(level, k).key = k
         /\ \A e \in Entries(level) : e.key = k => e = EntryOf(level, k)
<1>1. EntryOf(level, k) \in Entries(level) /\ EntryOf(level, k).key = k
  BY DEF Holds, EntryOf, Entries
<1> QED
  BY <1>1, LevelEntries

\* What one more entry than the bound is.
LEMMA UsedLevel ==
  ASSUME NEW bound \in Nat, NEW level, Level(level, bound), NEW e \in Entry
  PROVE  /\ Level(Used(level, e), bound + 1)
         /\ Used(level, e) # << >>
         /\ Used(level, e)[Len(Used(level, e))] = e
         /\ Entries(Used(level, e)) = {x \in Entries(level) : x.key # e.key} \cup {e}
         /\ Holds(level, e.key) => Level(Used(level, e), bound)
<1> DEFINE w == Without(level, e.key)
           u == Used(level, e)
<1>1. /\ Level(w, bound) /\ Entries(w) = {x \in Entries(level) : x.key # e.key}
      /\ Holds(level, e.key) => Len(w) < Len(level)
  BY WithoutLevel
<1>2. w \in Seq(Entry) /\ Len(w) \in Nat /\ Len(w) <= bound /\ DOMAIN w = 1..Len(w)
  BY <1>1 DEF Level
<1>3. level \in Seq(Entry) /\ Len(level) <= bound /\ Len(level) \in Nat
  BY DEF Level
<1>4. u = Append(w, e)
  BY DEF Used
<1> HIDE DEF w, u
<1>5. u \in Seq(Entry) /\ Len(u) = Len(w) + 1 /\ DOMAIN u = 1..(Len(w) + 1)
  BY <1>2, <1>4
<1>6. u[Len(w) + 1] = e /\ \A i \in 1..Len(w) : u[i] = w[i]
  BY <1>2, <1>4
<1>7. ASSUME NEW i \in 1..(Len(w) + 1), NEW j \in 1..(Len(w) + 1), u[i].key = u[j].key PROVE i = j
  <2>1. \A x \in 1..Len(w) : w[x].key # e.key
    BY <1>1, <1>2 DEF Entries
  <2>2. CASE i = Len(w) + 1 \/ j = Len(w) + 1
    BY <1>2, <1>6, <1>7, <2>1, <2>2
  <2>3. CASE i \in 1..Len(w) /\ j \in 1..Len(w)
    BY <1>1, <1>2, <1>6, <1>7, <2>3 DEF Level
  <2> QED
    BY <1>2, <2>2, <2>3
<1>8. Level(u, bound + 1) /\ (Holds(level, e.key) => Level(u, bound))
  BY <1>1, <1>2, <1>3, <1>5, <1>7 DEF Level
<1>9. Entries(u) = Entries(w) \cup {e}
  <2>1. ASSUME NEW x PROVE x \in Entries(u) <=> x \in Entries(w) \cup {e}
    <3>1. x \in Entries(u) <=> \E i \in 1..(Len(w) + 1) : x = u[i]
      BY <1>5 DEF Entries
    <3>2. x \in Entries(w) <=> \E i \in 1..Len(w) : x = w[i]
      BY <1>2 DEF Entries
    <3> QED
      BY <1>2, <1>6, <3>1, <3>2
  <2> QED
    BY <2>1
<1>10. u # << >>
  BY <1>2, <1>5
<1> QED
  BY <1>1, <1>5, <1>6, <1>8, <1>9, <1>10 DEF u

\* An entry added has another one evicted, or none.
LEMMA AddedLevel ==
  ASSUME NEW bound \in Nat \ {0}, NEW level, Level(level, bound), NEW e \in Entry
  PROVE  /\ Level(Added(level, bound, e), bound)
         /\ \/ /\ Victim(level, bound, e) = Nothing
               /\ Entries(Added(level, bound, e)) = {x \in Entries(level) : x.key # e.key} \cup {e}
            \/ /\ Victim(level, bound, e) \in Entries(level)
               /\ Victim(level, bound, e).key # e.key
               /\ Entries(Added(level, bound, e)) =
                    {x \in Entries(level) : x.key \notin {e.key, Victim(level, bound, e).key}} \cup {e}
<1> DEFINE u == Used(level, e)
<1>1. /\ Level(u, bound + 1) /\ u # << >> /\ u[Len(u)] = e
      /\ Entries(u) = {x \in Entries(level) : x.key # e.key} \cup {e}
  BY UsedLevel
<1> HIDE DEF u
<1>2. /\ u \in Seq(Entry) /\ Len(u) \in Nat \ {0} /\ Len(u) <= bound + 1 /\ DOMAIN u = 1..Len(u)
      /\ \A i, j \in 1..Len(u) : u[i].key = u[j].key => i = j
  BY <1>1 DEF Level
<1>3. CASE Len(u) <= bound
  <2>1. Added(level, bound, e) = u /\ Victim(level, bound, e) = Nothing
    <3>1. ~(Len(u) > bound)
      BY <1>2, <1>3
    <3> QED
      BY <3>1, Zenon DEF Added, Victim, u
  <2>2. Level(u, bound)
    BY <1>1, <1>3 DEF Level
  <2> QED
    BY <1>1, <2>1, <2>2
<1>4. CASE Len(u) > bound
  <2> DEFINE t == Tail(u)
             v == Head(u)
  <2>1. Added(level, bound, e) = t /\ Victim(level, bound, e) = v
    BY <1>2, <1>4 DEF Added, Victim, u
  <2>2. /\ t \in Seq(Entry) /\ Len(t) = Len(u) - 1 /\ DOMAIN t = 1..(Len(u) - 1)
        /\ \A i \in 1..(Len(u) - 1) : t[i] = u[i + 1]
    BY <1>2
  <2>3. v = u[1] /\ Len(u) > 1
    BY <1>2, <1>4
  <2> HIDE DEF t, v
  <2>4. Level(t, bound)
    <3>1. ASSUME NEW i \in 1..(Len(u) - 1), NEW j \in 1..(Len(u) - 1), t[i].key = t[j].key PROVE i = j
      <4>1. i + 1 \in 1..Len(u) /\ j + 1 \in 1..Len(u)
        BY <1>2
      <4>2. u[i + 1].key = u[j + 1].key
        BY <2>2, <3>1
      <4>3. i + 1 = j + 1
        BY <1>2, <4>1, <4>2
      <4> QED
        BY <4>3
    <3> QED
      BY <1>2, <2>2, <3>1, SMTT(30) DEF Level
  <2>5. Entries(t) = {x \in Entries(u) : x.key # v.key}
    <3>1. ASSUME NEW i \in 1..(Len(u) - 1) PROVE t[i] \in Entries(u) /\ t[i].key # v.key
      <4>1. i + 1 \in 1..Len(u) /\ 1 \in 1..Len(u) /\ i + 1 # 1 /\ t[i] = u[i + 1]
        BY <1>2, <2>2
      <4> QED
        BY <1>2, <2>3, <4>1 DEF Entries
    <3>2. ASSUME NEW i \in 1..Len(u), u[i].key # v.key PROVE u[i] \in Entries(t)
      <4>1. i - 1 \in 1..(Len(u) - 1) /\ t[i - 1] = u[i]
        BY <1>2, <2>2, <2>3, <3>2
      <4> QED
        BY <2>2, <4>1 DEF Entries
    <3>3. ASSUME NEW x \in Entries(t) PROVE x \in Entries(u) /\ x.key # v.key
      BY <2>2, <3>1 DEF Entries
    <3>4. ASSUME NEW x \in Entries(u), x.key # v.key PROVE x \in Entries(t)
      <4>1. PICK i \in 1..Len(u) : x = u[i]
        BY <1>2 DEF Entries
      <4> QED
        BY <3>2, <3>4, <4>1
    <3> QED
      BY <3>3, <3>4
  <2>6. v.key # e.key
    BY <1>1, <1>2, <2>3
  <2>7. v \in Entries(u)
    BY <1>2, <2>3 DEF Entries
  <2>8. v \in Entries(level)
    BY <1>1, <2>6, <2>7
  <2>9. Entries(t) = {x \in Entries(level) : x.key \notin {e.key, v.key}} \cup {e}
    BY <1>1, <2>5, <2>6
  <2> QED
    BY <2>1, <2>4, <2>6, <2>8, <2>9
<1> QED
  BY <1>2, <1>3, <1>4

\* What the callback finds and leaves: at most the demoted entry is new.
LEMMA DemotedLevel ==
  ASSUME NEW level, Level(level, L2Size), NEW e \in Entry \cup {Nothing}
  PROVE  /\ Level(Demoted(level, e), L2Size)
         /\ \/ Entries(Demoted(level, e)) = Entries(level) /\ (e = Nothing \/ Expired(e))
            \/ /\ e \in Entry /\ ~Expired(e) /\ e \in Entries(Demoted(level, e))
               /\ \A x \in Entries(Demoted(level, e)) : x = e \/ (x \in Entries(level) /\ x.key # e.key)
<1>1. CASE e = Nothing \/ Expired(e)
  BY <1>1 DEF Demoted
<1>2. CASE e # Nothing /\ ~Expired(e)
  <2>1. e \in Entry /\ Demoted(level, e) = Added(level, L2Size, e) /\ L2Size \in Nat \ {0}
    BY <1>2, CacheAssumption DEF Demoted
  <2>2. /\ Level(Added(level, L2Size, e), L2Size)
        /\ e \in Entries(Added(level, L2Size, e))
        /\ \A x \in Entries(Added(level, L2Size, e)) : x = e \/ (x \in Entries(level) /\ x.key # e.key)
    BY <2>1, AddedLevel
  <2> QED
    BY <1>2, <2>1, <2>2
<1> QED
  BY <1>1, <1>2
-----------------------------------------------------------------------------
(***************************************************************************)
(* The two-level cache: types.                                             *)
(***************************************************************************)
LEMMA PlaceFields ==
  ASSUME NEW p \in Places
  PROVE  /\ p.at \in {"idle", "expired in L1", "missed L1", "expired in L2",
                      "removed from L1", "promoting", "evicted from L1", "returned"}
         /\ p.at # "idle" => p.key \in Keys
         /\ "entry" \in DOMAIN p <=> p.at \in {"removed from L1", "promoting", "evicted from L1"}
         /\ "entry" \in DOMAIN p => p.entry \in Entry
         /\ p.at = "evicted from L1" => p.value \in Nat
  BY DEF Places

LEMMA PlacesMade ==
  /\ \A k \in Keys, at \in {"expired in L1", "missed L1", "expired in L2"} : [at |-> at, key |-> k] \in Places
  /\ \A k \in Keys, at \in {"removed from L1", "promoting"}, e \in Entry :
       [at |-> at, key |-> k, entry |-> e] \in Places
  /\ \A k \in Keys, v \in Nat, e \in Entry :
       [at |-> "evicted from L1", key |-> k, value |-> v, entry |-> e] \in Places
  /\ \A k \in Keys, v \in Nat \cup {Nothing} : [at |-> "returned", key |-> k, value |-> v] \in Places
  BY DEF Places

LEMMA Moved ==
  ASSUME TypeOK, NEW r \in Readers, NEW p \in Places, Goto(r, p)
  PROVE  /\ reader' \in [Readers -> Places] /\ reader'[r] = p
         /\ \A q \in Readers : q # r => reader'[q] = reader[q]
  BY DEF TypeOK, Goto

LEMMA HitEntry ==
  ASSUME NEW e \in Entry
  PROVE  /\ Hit(e) \in Entry /\ Hit(e).key = e.key /\ Hit(e).value = e.value
         /\ Hit(e).expiresAt = e.expiresAt
  BY CacheAssumption DEF Entry, Hit

LEMMA NewEntryIsEntry ==
  ASSUME TypeOK, NEW k \in Keys
  PROVE  /\ NewEntry(k) \in Entry /\ NewEntry(k).key = k /\ NewEntry(k).value = sets + 1
         /\ NewEntry(k).expiresAt = now + TTL[k]
  BY CacheAssumption DEF TypeOK, NewEntry, Entry

LEMMA EmptyLevel ==
  ASSUME NEW bound \in Nat
  PROVE  Level(<< >>, bound) /\ Entries(<< >>) = {}
  BY DEF Level, Entries

LEMMA TypeInit == Init => TypeOK
<1> SUFFICES ASSUME Init PROVE TypeOK
  OBVIOUS
<1>1. Level(l1, L1Size) /\ Level(l2, L2Size)
  BY CacheAssumption, EmptyLevel DEF Init
<1>2. reader \in [Readers -> Places]
  BY DEF Init, Places, Idle
<1>3. now \in 0..MaxTime /\ sets \in 0..MaxSets
  BY CacheAssumption DEF Init
<1>4. latest \in [Keys -> Nat \cup {Nothing}] /\ dropped \in [Keys -> Nat] /\ raced \in BOOLEAN
  BY DEF Init
<1> QED
  BY <1>1, <1>2, <1>3, <1>4 DEF TypeOK
\* An entry that is in L2 after an eviction of v, none of v's key but v itself.
FromSet(x, v) ==
  \/ x \in Entries(l2) /\ (v # Nothing => Expired(v) \/ x.key # v.key)
  \/ x \in Entries(l1) /\ x = v

\* What SetWithTTL leaves: the new entry, and others of other keys.
LEMMA SetLevels ==
  ASSUME TypeOK, NEW k \in Keys, SetWithTTL(k)
  PROVE  /\ Level(l1', L1Size) /\ Level(l2', L2Size)
         /\ Victim(l1, L1Size, NewEntry(k)) \in Entries(l1) \cup {Nothing}
         /\ Entries(l1)' = {x \in Entries(l1) : x.key # k /\ x # Victim(l1, L1Size, NewEntry(k))} \cup {NewEntry(k)}
         /\ \A x \in Entries(l2)' : FromSet(x, Victim(l1, L1Size, NewEntry(k)))
<1> DEFINE e == NewEntry(k)
           v == Victim(l1, L1Size, e)
<1>1. e \in Entry /\ e.key = k
  BY NewEntryIsEntry
<1>2. Level(l1, L1Size) /\ Level(l2, L2Size) /\ L1Size \in Nat \ {0}
  BY CacheAssumption DEF TypeOK
<1>3. Entries(l1) \subseteq Entry /\ \A x, y \in Entries(l1) : x.key = y.key => x = y
  BY <1>2, LevelEntries
<1>4. l1' = Added(l1, L1Size, e) /\ l2' = Demoted(l2, v)
  BY DEF SetWithTTL
<1> HIDE DEF e
<1>5. /\ Level(Added(l1, L1Size, e), L1Size)
      /\ \/ /\ v = Nothing
            /\ Entries(Added(l1, L1Size, e)) = {x \in Entries(l1) : x.key # e.key} \cup {e}
         \/ /\ v \in Entries(l1) /\ v.key # e.key
            /\ Entries(Added(l1, L1Size, e)) = {x \in Entries(l1) : x.key \notin {e.key, v.key}} \cup {e}
  BY <1>1, <1>2, AddedLevel
<1> HIDE DEF v
<1>6. v \in Entries(l1) \cup {Nothing}
  BY <1>5
<1>7. Entries(Added(l1, L1Size, e)) = {x \in Entries(l1) : x.key # k /\ x # v} \cup {e}
  <2>1. CASE v = Nothing
    BY <1>1, <1>3, <1>5, <2>1, CacheAssumption
  <2>2. CASE v # Nothing
    BY <1>1, <1>3, <1>5, <2>2
  <2> QED
    BY <2>1, <2>2
<1>8. Level(Demoted(l2, v), L2Size) /\ \A x \in Entries(Demoted(l2, v)) : FromSet(x, v)
  <2>1. v \in Entry \cup {Nothing}
    BY <1>3, <1>6
  <2>2. Nothing \notin Entry
    BY CacheAssumption
  <2> QED
    BY <1>2, <1>6, <2>1, <2>2, DemotedLevel DEF FromSet
<1>9. Entries(l1)' = Entries(l1') /\ Entries(l2)' = Entries(l2')
  BY DEF Entries
<1> QED
  BY <1>4, <1>5, <1>6, <1>7, <1>8, <1>9 DEF e, v

\* What Delete leaves: no entry of the key, and nothing new.
LEMMA DeleteLevels ==
  ASSUME TypeOK, NEW k \in Keys, Delete(k)
  PROVE  /\ Level(l1', L1Size) /\ Level(l2', L2Size)
         /\ Entries(l1)' = {x \in Entries(l1) : x.key # k}
         /\ \A x \in Entries(l2)' : x.key # k /\ x \in Entries(l2)
<1>1. Level(l1, L1Size) /\ Level(l2, L2Size) /\ L1Size \in Nat /\ L2Size \in Nat
  BY CacheAssumption DEF TypeOK
<1> DEFINE d == IF Holds(l1, k) THEN Demoted(l2, EntryOf(l1, k)) ELSE l2
<1>2. l1' = Without(l1, k) /\ l2' = Without(d, k)
  BY DEF Delete
<1>3. Level(d, L2Size) /\ \A x \in Entries(d) : x \in Entries(l2) \/ x.key = k
  <2>1. CASE Holds(l1, k)
    <3>1. EntryOf(l1, k) \in Entry /\ EntryOf(l1, k).key = k
      BY <1>1, <2>1, EntryOfLevel, LevelEntries
    <3> QED
      BY <1>1, <2>1, <3>1, DemotedLevel
  <2>2. CASE ~Holds(l1, k)
    BY <1>1, <2>2
  <2> QED
    BY <2>1, <2>2
<1> HIDE DEF d
<1>4. Level(Without(d, k), L2Size) /\ Entries(Without(d, k)) = {e \in Entries(d) : e.key # k}
  BY <1>1, <1>3, WithoutLevel
<1>5. Level(Without(l1, k), L1Size) /\ Entries(Without(l1, k)) = {e \in Entries(l1) : e.key # k}
  BY <1>1, WithoutLevel
<1>6. Entries(l1)' = Entries(l1') /\ Entries(l2)' = Entries(l2')
  BY DEF Entries
<1> QED
  BY <1>2, <1>3, <1>4, <1>5, <1>6
LEMMA CallsType == TypeOK /\ (Tick \/ (\E k \in Keys : SetWithTTL(k) \/ Delete(k)) \/ Clear \/ Cleanup) => TypeOK'
<1> SUFFICES ASSUME TypeOK, Tick \/ (\E k \in Keys : SetWithTTL(k) \/ Delete(k)) \/ Clear \/ Cleanup
             PROVE  TypeOK'
  OBVIOUS
<1>1. CASE Tick
  BY <1>1, CacheAssumption DEF Tick, TypeOK, levels, ghosts, Level
<1>2. ASSUME NEW k \in Keys, SetWithTTL(k) PROVE TypeOK'
  <2>1. Level(l1, L1Size)' /\ Level(l2, L2Size)'
    BY <1>2, SetLevels DEF Level
  <2>2. sets' \in 0..MaxSets /\ latest' \in [Keys -> Nat \cup {Nothing}]
    BY <1>2, CacheAssumption DEF SetWithTTL, TypeOK
  <2> QED
    BY <1>2, <2>1, <2>2 DEF SetWithTTL, TypeOK
<1>3. ASSUME NEW k \in Keys, Delete(k) PROVE TypeOK'
  <2>1. Level(l1, L1Size)' /\ Level(l2, L2Size)'
    BY <1>3, DeleteLevels DEF Level
  <2>2. latest' \in [Keys -> Nat \cup {Nothing}] /\ dropped' \in [Keys -> Nat]
    BY <1>3, CacheAssumption DEF Delete, Forget, TypeOK
  <2> QED
    BY <1>3, <2>1, <2>2 DEF Delete, Forget, TypeOK
<1>4. CASE Clear
  <2>1. Level(l1, L1Size)' /\ Level(l2, L2Size)'
    BY <1>4, EmptyLevel, CacheAssumption DEF Clear, Level
  <2>2. latest' \in [Keys -> Nat \cup {Nothing}] /\ dropped' \in [Keys -> Nat]
    BY <1>4, CacheAssumption DEF Clear, Forget, TypeOK
  <2> QED
    BY <1>4, <2>1, <2>2 DEF Clear, Forget, TypeOK
<1>5. CASE Cleanup
  <2>1. Level(Unexpired(l1), L1Size) /\ Level(Unexpired(l2), L2Size)
    BY UnexpiredLevel, CacheAssumption DEF TypeOK
  <2>2. Level(l1, L1Size)' /\ Level(l2, L2Size)'
    BY <1>5, <2>1 DEF Cleanup, Level
  <2> QED
    BY <1>5, <2>2 DEF Cleanup, TypeOK, ghosts
<1> QED
  BY <1>1, <1>2, <1>3, <1>4, <1>5

\* The steps of a Get: what each leaves of the levels, and where it goes on.
LEMMA LookL1Levels ==
  ASSUME TypeOK, NEW r \in Readers, NEW k \in Keys, LookL1(r, k)
  PROVE  /\ Level(l1', L1Size) /\ l2' = l2
         /\ \/ /\ ~Holds(l1, k) /\ l1' = l1
               /\ Goto(r, [at |-> "missed L1", key |-> k])
            \/ \E e \in Entries(l1) :
                 /\ e.key = k
                 /\ \/ /\ Expired(e) /\ Entries(l1)' = Entries(l1)
                       /\ Goto(r, [at |-> "expired in L1", key |-> k])
                    \/ /\ ~Expired(e) /\ Entries(l1)' = {x \in Entries(l1) : x.key # k} \cup {Hit(e)}
                       /\ Return(r, k, e.value)
<1>1. Level(l1, L1Size) /\ L1Size \in Nat
  BY CacheAssumption DEF TypeOK
<1>2. CASE ~Holds(l1, k)
  BY <1>1, <1>2 DEF LookL1
<1>3. CASE Holds(l1, k)
  <2> DEFINE e == EntryOf(l1, k)
  <2>1. e \in Entries(l1) /\ e.key = k /\ e \in Entry /\ \A x \in Entries(l1) : x.key = k => x = e
    BY <1>1, <1>3, EntryOfLevel, LevelEntries
  <2>2. Hit(e) \in Entry /\ Hit(e).key = k
    BY <2>1, HitEntry
  <2>3. CASE Expired(e)
    <3>1. l1' = Used(l1, e) /\ Goto(r, [at |-> "expired in L1", key |-> k]) /\ l2' = l2
      BY <1>3, <2>3 DEF LookL1
    <3> HIDE DEF e
    <3>2. Level(Used(l1, e), L1Size) /\ Entries(Used(l1, e)) = {x \in Entries(l1) : x.key # k} \cup {e}
      BY <1>1, <1>3, <2>1, UsedLevel
    <3>3. Entries(l1)' = Entries(l1)
      BY <2>1, <3>1, <3>2 DEF Entries
    <3> QED
      BY <2>1, <2>3, <3>1, <3>2, <3>3
  <2>4. CASE ~Expired(e)
    <3>1. l1' = Used(l1, Hit(e)) /\ Return(r, k, e.value) /\ l2' = l2
      BY <1>3, <2>4 DEF LookL1
    <3> HIDE DEF e
    <3>2. /\ Level(Used(l1, Hit(e)), L1Size)
          /\ Entries(Used(l1, Hit(e))) = {x \in Entries(l1) : x.key # k} \cup {Hit(e)}
      BY <1>1, <1>3, <2>2, UsedLevel
    <3>3. Entries(l1)' = {x \in Entries(l1) : x.key # k} \cup {Hit(e)}
      BY <3>1, <3>2 DEF Entries
    <3> QED
      BY <2>1, <2>4, <3>1, <3>2, <3>3
  <2> QED
    BY <2>3, <2>4
<1> QED
  BY <1>2, <1>3

LEMMA RemoveFromL1Levels ==
  ASSUME TypeOK, NEW r \in Readers, RemoveFromL1(r)
  PROVE  /\ Level(l1', L1Size) /\ l2' = l2
         /\ Entries(l1)' = {x \in Entries(l1) : x.key # reader[r].key}
         /\ \/ /\ ~Holds(l1, reader[r].key)
               /\ Goto(r, [at |-> "missed L1", key |-> reader[r].key])
            \/ \E e \in Entries(l1) :
                 /\ e.key = reader[r].key
                 /\ Goto(r, [at |-> "removed from L1", key |-> reader[r].key, entry |-> e])
<1> DEFINE k == reader[r].key
<1>1. Level(l1, L1Size) /\ L1Size \in Nat
  BY CacheAssumption DEF TypeOK
<1>2. l1' = Without(l1, k) /\ l2' = l2
  BY DEF RemoveFromL1
<1>3. Level(Without(l1, k), L1Size) /\ Entries(Without(l1, k)) = {x \in Entries(l1) : x.key # k}
  BY <1>1, WithoutLevel
<1>4. Entries(l1)' = {x \in Entries(l1) : x.key # k}
  BY <1>2, <1>3 DEF Entries
<1>5. CASE Holds(l1, k)
  <2>1. EntryOf(l1, k) \in Entries(l1) /\ EntryOf(l1, k).key = k
    BY <1>1, <1>5, EntryOfLevel
  <2>2. Goto(r, [at |-> "removed from L1", key |-> k, entry |-> EntryOf(l1, k)])
    BY <1>5 DEF RemoveFromL1
  <2> QED
    BY <1>2, <1>3, <1>4, <2>1, <2>2
<1>6. CASE ~Holds(l1, k)
  <2>1. Goto(r, [at |-> "missed L1", key |-> k])
    BY <1>6 DEF RemoveFromL1
  <2> QED
    BY <1>2, <1>3, <1>4, <1>6, <2>1
<1> QED
  BY <1>5, <1>6
LEMMA DemoteLevels ==
  ASSUME TypeOK, NEW r \in Readers, reader[r].at \in {"removed from L1", "evicted from L1"},
         DemoteRemoved(r) \/ DemoteEvicted(r)
  PROVE  /\ Level(l2', L2Size) /\ l1' = l1
         /\ \/ Entries(l2)' = Entries(l2) /\ Expired(reader[r].entry)
            \/ \A x \in Entries(l2)' :
                 x = reader[r].entry \/ (x \in Entries(l2) /\ x.key # reader[r].entry.key)
<1> DEFINE e == reader[r].entry
<1>1. Level(l2, L2Size) /\ reader[r] \in Places
  BY DEF TypeOK
<1>2. e \in Entry
  BY <1>1, PlaceFields
<1>3. l2' = Demoted(l2, e) /\ l1' = l1
  BY DEF DemoteRemoved, DemoteEvicted
<1> HIDE DEF e
<1>4. /\ Level(Demoted(l2, e), L2Size)
      /\ \/ Entries(Demoted(l2, e)) = Entries(l2) /\ Expired(e)
         \/ \A x \in Entries(Demoted(l2, e)) : x = e \/ (x \in Entries(l2) /\ x.key # e.key)
  BY <1>1, <1>2, DemotedLevel, CacheAssumption
<1>5. Entries(l2)' = Entries(l2')
  BY DEF Entries
<1> QED
  BY <1>3, <1>4, <1>5 DEF e

LEMMA LookL2Levels ==
  ASSUME TypeOK, NEW r \in Readers, LookL2(r)
  PROVE  /\ Level(l2', L2Size) /\ l1' = l1
         /\ \/ /\ ~Holds(l2, reader[r].key) /\ l2' = l2
               /\ Return(r, reader[r].key, Nothing)
            \/ \E e \in Entries(l2) :
                 /\ e.key = reader[r].key
                 /\ \/ /\ Expired(e) /\ Entries(l2)' = Entries(l2)
                       /\ Goto(r, [at |-> "expired in L2", key |-> reader[r].key])
                    \/ /\ ~Expired(e) /\ Entries(l2)' = {x \in Entries(l2) : x.key # reader[r].key} \cup {Hit(e)}
                       /\ \/ Goto(r, [at |-> "promoting", key |-> reader[r].key, entry |-> Hit(e)])
                          \/ Return(r, reader[r].key, e.value)
<1> DEFINE k == reader[r].key
<1>1. Level(l2, L2Size) /\ L2Size \in Nat
  BY CacheAssumption DEF TypeOK
<1>2. CASE ~Holds(l2, k)
  BY <1>1, <1>2 DEF LookL2
<1>3. CASE Holds(l2, k)
  <2> DEFINE e == EntryOf(l2, k)
  <2>1. e \in Entries(l2) /\ e.key = k /\ e \in Entry /\ \A x \in Entries(l2) : x.key = k => x = e
    BY <1>1, <1>3, EntryOfLevel, LevelEntries
  <2>2. Hit(e) \in Entry /\ Hit(e).key = k /\ Hit(e).value = e.value /\ (Expired(Hit(e)) <=> Expired(e))
    BY <2>1, HitEntry DEF Expired
  <2>3. CASE Expired(e)
    <3>1. l2' = Used(l2, e) /\ Goto(r, [at |-> "expired in L2", key |-> k]) /\ l1' = l1
      BY <1>3, <2>2, <2>3 DEF LookL2
    <3> HIDE DEF e
    <3>2. Level(Used(l2, e), L2Size) /\ Entries(Used(l2, e)) = {x \in Entries(l2) : x.key # k} \cup {e}
      BY <1>1, <1>3, <2>1, UsedLevel
    <3>3. Entries(l2)' = Entries(l2)
      BY <2>1, <3>1, <3>2 DEF Entries
    <3> QED
      BY <2>1, <2>3, <3>1, <3>2, <3>3
  <2>4. CASE ~Expired(e)
    <3>1. /\ l2' = Used(l2, Hit(e)) /\ l1' = l1
          /\ \/ Goto(r, [at |-> "promoting", key |-> k, entry |-> Hit(e)])
             \/ Return(r, k, e.value)
      BY <1>3, <2>2, <2>4 DEF LookL2
    <3> HIDE DEF e
    <3>2. /\ Level(Used(l2, Hit(e)), L2Size)
          /\ Entries(Used(l2, Hit(e))) = {x \in Entries(l2) : x.key # k} \cup {Hit(e)}
      BY <1>1, <1>3, <2>2, UsedLevel
    <3>3. Entries(l2)' = {x \in Entries(l2) : x.key # k} \cup {Hit(e)}
      BY <3>1, <3>2 DEF Entries
    <3> QED
      BY <2>1, <2>4, <3>1, <3>2, <3>3
  <2> QED
    BY <2>3, <2>4
<1> QED
  BY <1>2, <1>3

LEMMA RemoveFromL2Levels ==
  ASSUME TypeOK, NEW r \in Readers, RemoveFromL2(r)
  PROVE  /\ Level(l2', L2Size) /\ l1' = l1
         /\ Entries(l2)' = {x \in Entries(l2) : x.key # reader[r].key}
         /\ Return(r, reader[r].key, Nothing)
<1> DEFINE k == reader[r].key
<1>1. Level(Without(l2, k), L2Size) /\ Entries(Without(l2, k)) = {x \in Entries(l2) : x.key # k}
  BY WithoutLevel, CacheAssumption DEF TypeOK
<1>2. l2' = Without(l2, k) /\ l1' = l1 /\ Return(r, k, Nothing)
  BY DEF RemoveFromL2
<1>3. Entries(l2)' = Entries(l2')
  BY DEF Entries
<1> QED
  BY <1>1, <1>2, <1>3

\* The entry that promoteToL1 adds.
Promoted(r) == [reader[r].entry EXCEPT !.expiresAt = now + L1TTL]

LEMMA PromoteLevels ==
  ASSUME TypeOK, NEW r \in Readers, Promote(r)
  PROVE  /\ Level(l1', L1Size) /\ l2' = l2
         /\ Promoted(r) \in Entry /\ Promoted(r).key = reader[r].entry.key
         /\ Promoted(r).value = reader[r].entry.value /\ Promoted(r).expiresAt = now + L1TTL
         /\ \/ /\ Entries(l1)' = {x \in Entries(l1) : x.key # Promoted(r).key} \cup {Promoted(r)}
               /\ Return(r, Promoted(r).key, Promoted(r).value)
            \/ \E v \in Entries(l1) :
                 /\ v.key # Promoted(r).key
                 /\ Entries(l1)' = {x \in Entries(l1) : x.key \notin {Promoted(r).key, v.key}} \cup {Promoted(r)}
                 /\ Goto(r, [at |-> "evicted from L1", key |-> Promoted(r).key,
                             value |-> Promoted(r).value, entry |-> v])
<1> DEFINE e == Promoted(r)
           v == Victim(l1, L1Size, e)
<1>1. reader[r] \in Places /\ reader[r].at = "promoting" /\ Level(l1, L1Size) /\ now \in 0..MaxTime
  BY DEF Promote, TypeOK
<1>2. reader[r].entry \in Entry
  BY <1>1, PlaceFields
<1>3. e \in Entry /\ e.key = reader[r].entry.key /\ e.value = reader[r].entry.value /\ e.expiresAt = now + L1TTL
  BY <1>1, <1>2, CacheAssumption DEF Promoted, Entry
<1>4. /\ l1' = Added(l1, L1Size, e) /\ l2' = l2
      /\ v = Nothing => Return(r, e.key, e.value)
      /\ v # Nothing => Goto(r, [at |-> "evicted from L1", key |-> e.key, value |-> e.value, entry |-> v])
  BY DEF Promote, Promoted
<1> HIDE DEF e
<1>5. /\ Level(Added(l1, L1Size, e), L1Size)
      /\ \/ /\ v = Nothing
            /\ Entries(Added(l1, L1Size, e)) = {x \in Entries(l1) : x.key # e.key} \cup {e}
         \/ /\ v \in Entries(l1) /\ v.key # e.key
            /\ Entries(Added(l1, L1Size, e)) = {x \in Entries(l1) : x.key \notin {e.key, v.key}} \cup {e}
  BY <1>1, <1>3, AddedLevel, CacheAssumption
<1> HIDE DEF v
<1>6. Nothing \notin Entries(l1)
  BY <1>1, LevelEntries, CacheAssumption
<1>7. Entries(l1)' = Entries(l1')
  BY DEF Entries
<1> QED
  BY <1>3, <1>4, <1>5, <1>6, <1>7 DEF e
LEMMA GetType == ASSUME TypeOK, NEW r \in Readers, Get(r) PROVE TypeOK'
<1>1. /\ Level(l1, L1Size) /\ Level(l2, L2Size) /\ reader[r] \in Places
      /\ Entries(l1) \subseteq Entry /\ Entries(l2) \subseteq Entry
  BY LevelEntries DEF TypeOK
<1> DEFINE Typed == /\ Level(l1', L1Size) /\ Level(l2', L2Size)
                    /\ \E p \in Places : Goto(r, p)
<1>2. Typed
  <2>1. ASSUME NEW k \in Keys, LookL1(r, k) PROVE Typed
    <3>1. \A e \in Entries(l1) : e.value \in Nat
      BY <1>1 DEF Entry
    <3> QED
      BY <1>1, <2>1, <3>1, LookL1Levels, PlacesMade DEF Return
  <2>2. CASE RemoveFromL1(r)
    <3>1. reader[r].key \in Keys
      BY <1>1, <2>2, PlaceFields DEF RemoveFromL1
    <3> QED
      BY <1>1, <2>2, <3>1, RemoveFromL1Levels, PlacesMade
  <2>3. CASE DemoteRemoved(r)
    <3>1. reader[r].key \in Keys /\ reader[r].at = "removed from L1"
      BY <1>1, <2>3, PlaceFields DEF DemoteRemoved
    <3>2. Goto(r, [at |-> "missed L1", key |-> reader[r].key])
      BY <2>3 DEF DemoteRemoved
    <3> QED
      BY <1>1, <2>3, <3>1, <3>2, DemoteLevels, PlacesMade
  <2>4. CASE LookL2(r)
    <3>1. reader[r].key \in Keys
      BY <1>1, <2>4, PlaceFields DEF LookL2
    <3>2. \A e \in Entries(l2) : e.value \in Nat /\ Hit(e) \in Entry
      BY <1>1, HitEntry DEF Entry
    <3> QED
      BY <1>1, <2>4, <3>1, <3>2, LookL2Levels, PlacesMade DEF Return
  <2>5. CASE RemoveFromL2(r)
    <3>1. reader[r].key \in Keys
      BY <1>1, <2>5, PlaceFields DEF RemoveFromL2
    <3>2. l1' = l1
      BY <2>5 DEF RemoveFromL2
    <3> QED
      BY <1>1, <2>5, <3>1, <3>2, RemoveFromL2Levels, PlacesMade DEF Return
  <2>6. CASE Promote(r)
    <3>1. Promoted(r) \in Entry
      BY <2>6, PromoteLevels
    <3>2. Promoted(r).key \in Keys /\ Promoted(r).value \in Nat
      BY <3>1 DEF Entry
    <3> QED
      BY <1>1, <2>6, <3>1, <3>2, PromoteLevels, PlacesMade DEF Return
  <2>7. CASE DemoteEvicted(r)
    <3>1. reader[r].key \in Keys /\ reader[r].value \in Nat /\ reader[r].at = "evicted from L1"
      BY <1>1, <2>7, PlaceFields DEF DemoteEvicted
    <3>2. Return(r, reader[r].key, reader[r].value)
      BY <2>7 DEF DemoteEvicted
    <3> QED
      BY <1>1, <2>7, <3>1, <3>2, DemoteLevels, PlacesMade DEF Return
  <2> QED
    BY <2>1, <2>2, <2>3, <2>4, <2>5, <2>6, <2>7 DEF Get
<1>3. reader' \in [Readers -> Places]
  BY <1>2, Moved
<1>4. now' = now /\ sets' = sets /\ latest' = latest /\ dropped' = dropped
  BY DEF Get, LookL1, RemoveFromL1, DemoteRemoved, LookL2, RemoveFromL2, Promote, DemoteEvicted, ghosts
<1>5. raced' \in BOOLEAN
  BY DEF Get, LookL1, RemoveFromL1, DemoteRemoved, LookL2, RemoveFromL2, Promote, DemoteEvicted, ghosts, TypeOK
<1> QED
  BY <1>2, <1>3, <1>4, <1>5 DEF TypeOK, Level

LEMMA TypeStep == TypeOK /\ [Next]_vars => TypeOK'
<1>1. TypeOK /\ UNCHANGED vars => TypeOK'
  BY DEF TypeOK, vars, levels, ghosts, Level
<1> QED
  BY <1>1, CallsType, GetType DEF Next
-----------------------------------------------------------------------------
(***************************************************************************)
(* The two-level cache: nothing comes back.                                *)
(***************************************************************************)
LEMMA CarriedBy ==
  ASSUME TypeOK
  PROVE  \A r \in Readers : \A e : e \in Carried(r) <=>
           /\ reader[r].at \in {"removed from L1", "promoting", "evicted from L1"}
           /\ e = reader[r].entry
<1>1. \A r \in Readers : reader[r] \in Places
  BY DEF TypeOK
<1> QED
  BY <1>1, PlaceFields DEF Carried

LEMMA FoundEntries ==
  ASSUME TypeOK PROVE Found \subseteq Entry
<1>1. Entries(l1) \subseteq Entry /\ Entries(l2) \subseteq Entry /\ \A r \in Readers : reader[r] \in Places
  BY LevelEntries DEF TypeOK
<1>2. \A r \in Readers : Carried(r) \subseteq Entry
  BY <1>1, PlaceFields DEF Carried
<1> QED
  BY <1>1, <1>2 DEF Found

\* A step of a Get moves a copy of an entry, and makes no value of its own; a
\* promotion gives it another deadline.
Copy(e, S) == \E o \in S : o.key = e.key /\ o.value = e.value /\ e.expiresAt \in {o.expiresAt, now + L1TTL}

\* Where a Get goes on, and what it takes there: nothing, or an entry of S.
Takes(r, S) == \E p \in Places : Goto(r, p) /\ ("entry" \in DOMAIN p => Copy(p.entry, S))

LEMMA PlacesTaking ==
  ASSUME NEW r, NEW S, NEW k \in Keys
  PROVE  /\ \A at \in {"expired in L1", "missed L1", "expired in L2"} :
              Goto(r, [at |-> at, key |-> k]) => Takes(r, S)
         /\ \A at \in {"removed from L1", "promoting"}, e \in Entry :
              Goto(r, [at |-> at, key |-> k, entry |-> e]) /\ Copy(e, S) => Takes(r, S)
         /\ \A v \in Nat, e \in Entry :
              Goto(r, [at |-> "evicted from L1", key |-> k, value |-> v, entry |-> e]) /\ Copy(e, S) => Takes(r, S)
         /\ \A v \in Nat \cup {Nothing} : Return(r, k, v) => Takes(r, S)
<1>1. ASSUME NEW at \in {"expired in L1", "missed L1", "expired in L2"}, Goto(r, [at |-> at, key |-> k])
      PROVE  Takes(r, S)
  <2>1. [at |-> at, key |-> k] \in Places /\ "entry" \notin DOMAIN [at |-> at, key |-> k]
    BY PlacesMade
  <2> QED
    BY <1>1, <2>1 DEF Takes
<1>2. ASSUME NEW at \in {"removed from L1", "promoting"}, NEW e \in Entry, Copy(e, S),
             Goto(r, [at |-> at, key |-> k, entry |-> e])
      PROVE  Takes(r, S)
  <2>1. [at |-> at, key |-> k, entry |-> e] \in Places
    BY PlacesMade
  <2> QED
    BY <1>2, <2>1 DEF Takes
<1>3. ASSUME NEW v \in Nat, NEW e \in Entry, Copy(e, S),
             Goto(r, [at |-> "evicted from L1", key |-> k, value |-> v, entry |-> e])
      PROVE  Takes(r, S)
  <2>1. [at |-> "evicted from L1", key |-> k, value |-> v, entry |-> e] \in Places
    BY PlacesMade
  <2> QED
    BY <1>3, <2>1 DEF Takes
<1>4. ASSUME NEW v \in Nat \cup {Nothing}, Return(r, k, v) PROVE Takes(r, S)
  <2>1. [at |-> "returned", key |-> k, value |-> v] \in Places
    BY PlacesMade
  <2>2. "entry" \notin DOMAIN [at |-> "returned", key |-> k, value |-> v]
    OBVIOUS
  <2> QED
    BY <1>4, <2>1, <2>2 DEF Takes, Return
<1> QED
  BY <1>1, <1>2, <1>3, <1>4

LEMMA TakenIsCarried ==
  ASSUME TypeOK, NEW r \in Readers, NEW S, Takes(r, S)
  PROVE  \A e \in UNION {Carried(q) : q \in Readers}' :
           e \in UNION {Carried(q) : q \in Readers} \/ Copy(e, S)
<1>1. PICK p \in Places : Goto(r, p) /\ ("entry" \in DOMAIN p => Copy(p.entry, S))
  BY DEF Takes
<1>2. reader'[r] = p /\ \A q \in Readers : q # r => reader'[q] = reader[q]
  BY <1>1, Moved
<1> QED
  BY <1>1, <1>2 DEF Carried

LEMMA GetCopies ==
  ASSUME TypeOK, TypeOK', NEW r \in Readers, Get(r)
  PROVE  \A e \in Found' : Copy(e, Found)
<1> DEFINE Copied == /\ \A e \in Entries(l1)' \cup Entries(l2)' : Copy(e, Found)
                     /\ Takes(r, Found)
<1>1. /\ \A x \in Entries(l1) : x \in Entry /\ x \in Found /\ x.value \in Nat
      /\ \A x \in Entries(l2) : x \in Entry /\ x \in Found /\ x.value \in Nat
      /\ \A q \in Readers : Carried(q) \subseteq Found
      /\ reader[r] \in Places
  BY LevelEntries DEF TypeOK, Found, Entry
<1>2. \A x \in Found : Copy(x, Found) /\ (x \in Entry => Copy(Hit(x), Found))
  BY HitEntry DEF Copy
<1>3. /\ l1' = l1 => Entries(l1)' = Entries(l1)
      /\ l2' = l2 => Entries(l2)' = Entries(l2)
  BY DEF Entries
<1>4. reader[r].at # "idle" => reader[r].key \in Keys
  BY <1>1, PlaceFields
<1>5. reader[r].at \in {"removed from L1", "promoting", "evicted from L1"} =>
        reader[r].entry \in Found /\ reader[r].entry \in Entry
  BY <1>1, CarriedBy, PlaceFields
<1>6. SUFFICES Copied
  <2>1. \A e \in UNION {Carried(q) : q \in Readers}' : Copy(e, Found)
    BY <1>1, <1>2, <1>6, TakenIsCarried
  <2> QED
    BY <1>6, <2>1 DEF Found
<1> HIDE DEF Copied
<1>7. ASSUME Entries(l1)' = Entries(l1), Entries(l2)' = Entries(l2), Takes(r, Found) PROVE Copied
  BY <1>1, <1>2, <1>7 DEF Copied
<1>8. ASSUME NEW k \in Keys, LookL1(r, k) PROVE Copied
  <2>1. Entries(l2)' = Entries(l2)
    BY <1>3, <1>8, LookL1Levels
  <2>2. CASE l1' = l1 /\ Goto(r, [at |-> "missed L1", key |-> k])
    BY <1>3, <1>7, <2>1, <2>2, PlacesTaking
  <2>3. CASE Entries(l1)' = Entries(l1) /\ Goto(r, [at |-> "expired in L1", key |-> k])
    BY <1>7, <2>1, <2>3, PlacesTaking
  <2>4. ASSUME NEW e \in Entries(l1), Return(r, k, e.value),
               Entries(l1)' = {x \in Entries(l1) : x.key # k} \cup {Hit(e)}
        PROVE  Copied
    <3>1. Takes(r, Found)
      BY <1>1, <2>4, PlacesTaking
    <3> QED
      BY <1>1, <1>2, <2>1, <2>4, <3>1 DEF Copied
  <2> QED
    BY <1>8, <2>2, <2>3, <2>4, LookL1Levels
<1>9. CASE RemoveFromL1(r)
  <2>1. /\ l2' = l2 /\ reader[r].key \in Keys
        /\ Entries(l1)' = {x \in Entries(l1) : x.key # reader[r].key}
    BY <1>4, <1>9, RemoveFromL1Levels DEF RemoveFromL1
  <2>2. Takes(r, Found)
    <3>1. CASE Goto(r, [at |-> "missed L1", key |-> reader[r].key])
      BY <2>1, <3>1, PlacesTaking
    <3>2. ASSUME NEW e \in Entries(l1),
                 Goto(r, [at |-> "removed from L1", key |-> reader[r].key, entry |-> e])
          PROVE  Takes(r, Found)
      BY <1>1, <1>2, <2>1, <3>2, PlacesTaking
    <3> QED
      BY <1>9, <3>1, <3>2, RemoveFromL1Levels
  <2> QED
    BY <1>1, <1>2, <1>3, <2>1, <2>2 DEF Copied
<1>10. ASSUME reader[r].at \in {"removed from L1", "evicted from L1"}, DemoteRemoved(r) \/ DemoteEvicted(r),
              Takes(r, Found)
       PROVE  Copied
  <2>1. /\ l1' = l1
        /\ \A x \in Entries(l2)' : x = reader[r].entry \/ x \in Entries(l2)
    BY <1>10, DemoteLevels
  <2> QED
    BY <1>1, <1>2, <1>3, <1>5, <1>10, <2>1 DEF Copied
<1>11. CASE DemoteRemoved(r)
  <2>1. reader[r].at = "removed from L1" /\ Goto(r, [at |-> "missed L1", key |-> reader[r].key])
    BY <1>11 DEF DemoteRemoved
  <2> QED
    BY <1>4, <1>10, <1>11, <2>1, PlacesTaking
<1>12. CASE DemoteEvicted(r)
  <2>1. reader[r].at = "evicted from L1" /\ Return(r, reader[r].key, reader[r].value)
    BY <1>12 DEF DemoteEvicted
  <2>2. reader[r].value \in Nat
    BY <1>1, <2>1, PlaceFields
  <2> QED
    BY <1>4, <1>10, <1>12, <2>1, <2>2, PlacesTaking
<1>13. CASE LookL2(r)
  <2>1. Entries(l1)' = Entries(l1) /\ reader[r].key \in Keys
    BY <1>3, <1>4, <1>13, LookL2Levels DEF LookL2
  <2>2. CASE l2' = l2 /\ Return(r, reader[r].key, Nothing)
    BY <1>3, <1>7, <2>1, <2>2, PlacesTaking
  <2>3. CASE Entries(l2)' = Entries(l2) /\ Goto(r, [at |-> "expired in L2", key |-> reader[r].key])
    BY <1>7, <2>1, <2>3, PlacesTaking
  <2>4. ASSUME NEW e \in Entries(l2),
               \/ Goto(r, [at |-> "promoting", key |-> reader[r].key, entry |-> Hit(e)])
               \/ Return(r, reader[r].key, e.value),
               Entries(l2)' = {x \in Entries(l2) : x.key # reader[r].key} \cup {Hit(e)}
        PROVE  Copied
    <3>1. Hit(e) \in Entry /\ Copy(Hit(e), Found) /\ e.value \in Nat
      BY <1>1, <1>2, HitEntry
    <3>2. Takes(r, Found)
      BY <2>1, <2>4, <3>1, PlacesTaking
    <3> QED
      BY <1>1, <1>2, <2>1, <2>4, <3>1, <3>2 DEF Copied
  <2> QED
    BY <1>13, <2>2, <2>3, <2>4, LookL2Levels
<1>14. CASE RemoveFromL2(r)
  <2>1. /\ l1' = l1 /\ reader[r].key \in Keys /\ Return(r, reader[r].key, Nothing)
        /\ Entries(l2)' = {x \in Entries(l2) : x.key # reader[r].key}
    BY <1>4, <1>14, RemoveFromL2Levels DEF RemoveFromL2
  <2> QED
    BY <1>1, <1>2, <1>3, <2>1, PlacesTaking DEF Copied
<1>15. CASE Promote(r)
  <2> DEFINE e == Promoted(r)
  <2>1. /\ e \in Entry /\ l2' = l2 /\ e.expiresAt = now + L1TTL
        /\ e.key = reader[r].entry.key /\ e.value = reader[r].entry.value
    BY <1>15, PromoteLevels
  <2> HIDE DEF e
  <2>2. e.key \in Keys /\ e.value \in Nat /\ reader[r].entry \in Found
    BY <1>5, <1>15, <2>1 DEF Entry, Promote
  <2>3. Copy(e, Found)
    BY <2>1, <2>2 DEF Copy
  <2>4. CASE /\ Entries(l1)' = {x \in Entries(l1) : x.key # e.key} \cup {e}
             /\ Return(r, e.key, e.value)
    <3>1. Takes(r, Found)
      BY <2>2, <2>4, PlacesTaking
    <3> QED
      BY <1>1, <1>2, <1>3, <2>1, <2>3, <2>4, <3>1 DEF Copied
  <2>5. ASSUME NEW v \in Entries(l1),
               Entries(l1)' = {x \in Entries(l1) : x.key \notin {e.key, v.key}} \cup {e},
               Goto(r, [at |-> "evicted from L1", key |-> e.key, value |-> e.value, entry |-> v])
        PROVE  Copied
    <3>1. v \in Entry /\ Copy(v, Found)
      BY <1>1, <1>2
    <3>2. Takes(r, Found)
      BY <2>2, <2>5, <3>1, PlacesTaking
    <3> QED
      BY <1>1, <1>2, <1>3, <2>1, <2>3, <2>5, <3>2 DEF Copied
  <2> QED
    BY <1>15, <2>4, <2>5, PromoteLevels DEF e
<1> QED
  BY <1>8, <1>9, <1>11, <1>12, <1>13, <1>14, <1>15 DEF Get
LEMMA CacheInit == Init => CacheInv
<1> SUFFICES ASSUME Init PROVE CacheInv
  OBVIOUS
<1>1. TypeOK
  BY TypeInit
<1>2. Found = {}
  BY EmptyLevel, CacheAssumption DEF Init, Found, Carried, Idle
<1> QED
  BY <1>1, <1>2 DEF CacheInv, NothingResurrected, Init

LEMMA CacheStep == CacheInv /\ [Next]_vars => CacheInv'
<1> SUFFICES ASSUME CacheInv, [Next]_vars PROVE CacheInv'
  OBVIOUS
<1>1. TypeOK /\ TypeOK' /\ dropped \in [Keys -> Nat] /\ sets \in Nat /\ Found \subseteq Entry
  BY TypeStep, FoundEntries, CacheAssumption DEF CacheInv, TypeOK
<1>2. (\A e \in Found : e.value > dropped[e.key]) /\ \A k \in Keys : dropped[k] <= sets
  BY DEF CacheInv, NothingResurrected
<1> DEFINE After == (\A e \in Found' : e.value > dropped'[e.key]) /\ \A k \in Keys : dropped'[k] <= sets'
<1>3. SUFFICES After
  BY <1>1, <1>3 DEF CacheInv, NothingResurrected
<1>4. ASSUME \A e \in Found' : Copy(e, Found), dropped' = dropped, sets' = sets
      PROVE  After
  BY <1>1, <1>2, <1>4 DEF Copy
<1>5. CASE UNCHANGED vars
  <2>1. Found' = Found
    BY <1>5 DEF vars, levels, ghosts, Found, Entries, Carried
  <2> QED
    BY <1>2, <1>5, <2>1 DEF vars, levels, ghosts
<1>6. CASE Tick
  <2>1. Found' = Found
    BY <1>6 DEF Tick, levels, ghosts, Found, Entries, Carried
  <2> QED
    BY <1>2, <1>6, <2>1 DEF Tick, ghosts
<1>7. reader' = reader => UNION {Carried(q) : q \in Readers}' = UNION {Carried(q) : q \in Readers}
  BY DEF Carried
<1>8. Unshared => UNION {Carried(q) : q \in Readers} = {}
  <2> SUFFICES ASSUME Unshared, NEW q \in Readers PROVE Carried(q) = {}
    BY Zenon
  <2>1. ~Running(q)
    BY DEF Unshared
  <2> QED
    BY <1>1, <2>1, CarriedBy DEF Running
<1>9. ASSUME NEW k \in Keys, SetWithTTL(k) PROVE After
  <2>1. NewEntry(k).value = sets + 1 /\ NewEntry(k).key = k /\ reader' = reader /\ dropped' = dropped /\ sets' = sets + 1
    BY <1>1, <1>9, NewEntryIsEntry DEF SetWithTTL
  <2>2. \A e \in Found' : e = NewEntry(k) \/ e \in Found
    BY <1>1, <1>7, <1>9, <2>1, SetLevels DEF Found, FromSet
  <2> QED
    BY <1>1, <1>2, <2>1, <2>2
<1>10. ASSUME NEW k \in Keys, Delete(k) PROVE After
  <2>1. /\ reader' = reader /\ sets' = sets /\ Unshared
        /\ \A j \in Keys : dropped'[j] = IF j = k THEN sets ELSE dropped[j]
    BY <1>1, <1>10 DEF Delete, Forget
  <2>2. \A e \in Found' : e \in Found /\ e.key # k
    BY <1>1, <1>7, <1>8, <1>10, <2>1, DeleteLevels DEF Found
  <2>3. \A e \in Found : e.key \in Keys
    BY <1>1 DEF Entry
  <2> QED
    BY <1>1, <1>2, <2>1, <2>2, <2>3
<1>11. CASE Clear
  <2>1. /\ reader' = reader /\ sets' = sets /\ Unshared /\ l1' = << >> /\ l2' = << >>
        /\ \A j \in Keys : dropped'[j] = sets
    BY <1>1, <1>11 DEF Clear, Forget
  <2>2. Found' = {}
    BY <1>7, <1>8, <2>1, EmptyLevel, CacheAssumption DEF Found, Entries
  <2> QED
    BY <1>1, <2>1, <2>2
<1>12. CASE Cleanup
  <2>1. Entries(Unexpired(l1)) \subseteq Entries(l1) /\ Entries(Unexpired(l2)) \subseteq Entries(l2)
    BY <1>1, UnexpiredLevel, CacheAssumption DEF TypeOK
  <2>2. Entries(l1)' \subseteq Entries(l1) /\ Entries(l2)' \subseteq Entries(l2)
    BY <1>12, <2>1 DEF Cleanup, Entries
  <2>3. Found' \subseteq Found
    BY <1>7, <1>12, <2>2 DEF Cleanup, Found
  <2> QED
    BY <1>2, <1>12, <2>3 DEF Cleanup, ghosts
<1>13. ASSUME NEW r \in Readers, Get(r) PROVE After
  <2>1. sets' = sets /\ dropped' = dropped
    BY <1>13 DEF Get, LookL1, RemoveFromL1, DemoteRemoved, LookL2, RemoveFromL2, Promote, DemoteEvicted, ghosts
  <2> QED
    BY <1>1, <1>4, <1>13, <2>1, GetCopies
<1> QED
  BY <1>5, <1>6, <1>9, <1>10, <1>11, <1>12, <1>13 DEF Next

\* The levels hold at most their bound, one entry for a key, and whatever has
\* been deleted or cleared stays away: not from a level, nor from the hands of
\* a Get, does an entry set before come back.
THEOREM CacheSafe == Spec => [](TypeOK /\ NothingResurrected)
<1>1. CacheInv => TypeOK /\ NothingResurrected
  BY DEF CacheInv
<1> QED
  BY <1>1, CacheInit, CacheStep, PTL DEF Spec
-----------------------------------------------------------------------------
(***************************************************************************)
(* The two-level cache: a Get that meets no other.                         *)
(***************************************************************************)
\* While one Get is under way, where it goes on is all there is to check.
LEMMA OneGoes ==
  ASSUME TypeOK, NEW r \in Readers, NEW p \in Places, Goto(r, p), FreshPlace(p)',
         \A q \in Readers : q # r => ~Running(q)
  PROVE  OneGet' /\ FreshPlaces'
<1>1. reader'[r] = p /\ \A q \in Readers : q # r => reader'[q] = reader[q]
  BY Moved
<1>2. \A q \in Readers : q # r => ~Running(q)'
  BY <1>1 DEF Running
<1>3. \A q \in Readers : q # r => FreshPlace(reader[q])'
  BY <1>2 DEF FreshPlace, Running
<1>4. FreshPlace(reader[r])'
  BY <1>1 DEF FreshPlace
<1> QED
  BY <1>2, <1>3, <1>4 DEF OneGet, FreshPlaces

\* A copy in L2 stays hidden, or is what was given last, or has expired.
Stale(e) == e.value = latest[e.key] \/ Expired(e) \/ Hidden(e)

LEMMA AnswerFresh ==
  ASSUME NEW r \in Readers, NEW k \in Keys, NEW v, TypeOK, Return(r, k, v), v \in Nat \cup {Nothing},
         v \in {Nothing, latest[k]},
         \A q \in Readers : q # r => ~Running(q)
  PROVE  /\ OneGet' /\ FreshPlaces'
         /\ reader'[r].at = "returned" /\ reader'[r].value \in {Nothing, latest[reader'[r].key]}
<1> DEFINE p == [at |-> "returned", key |-> k, value |-> v]
<1>1. p \in Places /\ Goto(r, p)
  BY PlacesMade DEF Return
<1>2. FreshPlace(p)'
  BY DEF FreshPlace
<1>3. OneGet' /\ FreshPlaces'
  <2> HIDE DEF p
  <2> QED
    BY <1>1, <1>2, OneGoes
<1>4. reader'[r] = p
  <2> HIDE DEF p
  <2> QED
    BY <1>1, Moved
<1> QED
  BY <1>3, <1>4

\* What a step of r must preserve when no other Get is under way.
FreshStep(r) ==
  /\ OneGet' /\ FreshPlaces' /\ LatestInL1' /\ StaleIsHidden'
  /\ reader'[r].at = "returned" => reader'[r].value \in {Nothing, latest[reader'[r].key]}

LEMMA LookL1Fresh ==
  ASSUME TypeOK, TypeOK', NEW r \in Readers, NEW k \in Keys, LookL1(r, k),
         LatestInL1, StaleIsHidden, Unshared
  PROVE  FreshStep(r)
<1>1. now' = now /\ latest' = latest /\ l2' = l2 /\ Level(l1, L1Size) /\ Level(l1', L1Size)
  BY LookL1Levels DEF LookL1, TypeOK
<1>2. /\ \A q \in Readers : ~Running(q)
      /\ \A q \in Readers : reader[q].at # "evicted from L1"
  BY DEF Unshared, Running
<1>3. \A x \in Entries(l1) : x \in Entry /\ x.value = latest[x.key] /\ x.value \in Nat
  BY <1>1, LevelEntries DEF LatestInL1, Entry
<1> DEFINE Kept1 == /\ \A x \in Entries(l1)' : x.value = latest[x.key]
                    /\ \A x \in Entries(l1) : \E o \in Entries(l1)' : o.key = x.key /\ o.expiresAt = x.expiresAt
<1>4. ASSUME Kept1 PROVE LatestInL1' /\ StaleIsHidden'
  <2>1. LatestInL1'
    BY <1>1, <1>4 DEF LatestInL1
  <2>2. ASSUME NEW e \in Entries(l2) PROVE Stale(e)'
    <3>1. Stale(e)
      BY DEF StaleIsHidden, Stale
    <3>2. CASE Hidden(e)
      <4>1. PICK o \in Entries(l1) : Outlives(o, e)
        BY <1>2, <3>2 DEF Hidden
      <4>2. \E x \in Entries(l1)' : Outlives(x, e)
        BY <1>4, <4>1 DEF Outlives
      <4> QED
        BY <4>2 DEF Stale, Hidden, Outlives
    <3> QED
      BY <1>1, <3>1, <3>2 DEF Stale, Expired
  <2>3. Entries(l2)' = Entries(l2)
    BY <1>1 DEF Entries
  <2> QED
    BY <2>1, <2>2, <2>3 DEF StaleIsHidden, Stale
<1> HIDE DEF Kept1
<1>5. Entries(l1)' = Entries(l1) => Kept1
  BY <1>3 DEF Kept1
<1>6. CASE ~Holds(l1, k) /\ l1' = l1 /\ Goto(r, [at |-> "missed L1", key |-> k])
  <2> DEFINE p == [at |-> "missed L1", key |-> k]
  <2>1. p \in Places /\ FreshPlace(p)' /\ p.at # "returned"
    BY <1>6, PlacesMade DEF FreshPlace
  <2>2. Kept1
    BY <1>5, <1>6 DEF Entries
  <2> HIDE DEF p
  <2>3. Goto(r, p)
    BY <1>6 DEF p
  <2>4. reader'[r] = p
    BY <2>1, <2>3, Moved
  <2> QED
    BY <1>2, <1>4, <2>1, <2>2, <2>3, <2>4, OneGoes DEF FreshStep
<1>7. ASSUME NEW e \in Entries(l1), e.key = k, Expired(e), Entries(l1)' = Entries(l1),
             Goto(r, [at |-> "expired in L1", key |-> k])
      PROVE  FreshStep(r)
  <2> DEFINE p == [at |-> "expired in L1", key |-> k]
  <2>1. \A x \in Entries(l1) : x.key = k => x = e
    BY <1>1, <1>7, LevelEntries
  <2>2. p \in Places /\ p.at # "returned"
    BY PlacesMade
  <2>3. FreshPlace(p)'
    BY <1>1, <1>7, <2>1 DEF FreshPlace, Expired
  <2> HIDE DEF p
  <2>4. Goto(r, p)
    BY <1>7 DEF p
  <2>5. reader'[r] = p
    BY <2>2, <2>4, Moved
  <2> QED
    BY <1>2, <1>4, <1>5, <1>7, <2>2, <2>3, <2>4, <2>5, OneGoes DEF FreshStep
<1>8. ASSUME NEW e \in Entries(l1), e.key = k, Return(r, k, e.value),
             Entries(l1)' = {x \in Entries(l1) : x.key # k} \cup {Hit(e)}
      PROVE  FreshStep(r)
  <2>1. Hit(e).key = k /\ Hit(e).value = e.value /\ Hit(e).expiresAt = e.expiresAt
    BY <1>3, <1>8, HitEntry
  <2>2. \A x \in Entries(l1) : x.key = k => x = e
    BY <1>1, <1>8, LevelEntries
  <2>3. Kept1
    BY <1>3, <1>8, <2>1, <2>2 DEF Kept1
  <2>4. e.value = latest[k] /\ e.value \in Nat
    BY <1>3, <1>8
  <2> QED
    BY <1>2, <1>4, <1>8, <2>3, <2>4, AnswerFresh DEF FreshStep
<1> QED
  BY <1>6, <1>7, <1>8, LookL1Levels
LEMMA RemoveFromL1Fresh ==
  ASSUME TypeOK, TypeOK', NEW r \in Readers, RemoveFromL1(r), FreshPlace(reader[r]),
         LatestInL1, StaleIsHidden, \A q \in Readers : q # r => ~Running(q)
  PROVE  FreshStep(r)
<1>0. PICK k : k = reader[r].key
  OBVIOUS
<1>1. /\ now' = now /\ latest' = latest /\ l2' = l2
      /\ Level(l1, L1Size) /\ Level(l1', L1Size) /\ reader[r] \in Places
      /\ reader[r].at = "expired in L1" /\ Entries(l1)' = {x \in Entries(l1) : x.key # k}
  BY <1>0, RemoveFromL1Levels DEF RemoveFromL1, TypeOK, ghosts
<1>2. /\ \A q \in Readers : reader[q].at # "evicted from L1"
      /\ \A x \in Entries(l1) : x \in Entry /\ (x.key = k => Expired(x))
      /\ k \in Keys /\ ~Holds(l1, k)'
  <2>1. ~Holds(l1', k) /\ (Holds(l1', k) <=> Holds(l1, k)')
    <3>1. \A e \in Entries(l1') : e.key # k
      BY <1>1 DEF Entries
    <3> QED
      BY <1>1, <3>1, LevelEntries DEF Holds
  <2>2. \A q \in Readers : reader[q].at # "evicted from L1"
    BY <1>1 DEF Running
  <2>3. \A x \in Entries(l1) : x \in Entry /\ (x.key = k => Expired(x))
    BY <1>0, <1>1, LevelEntries DEF FreshPlace
  <2> QED
    BY <1>0, <1>1, <2>1, <2>2, <2>3, PlaceFields
<1>3. LatestInL1'
  BY <1>1 DEF LatestInL1
<1>4. StaleIsHidden'
  <2>1. ASSUME NEW e \in Entries(l2) PROVE Stale(e)'
    <3>1. Stale(e)
      BY DEF StaleIsHidden, Stale
    <3>2. CASE Hidden(e)
      <4>1. PICK o \in Entries(l1) : Outlives(o, e)
        BY <1>2, <3>2 DEF Hidden
      <4>2. CASE o.key = k
        <5>1. Expired(o) /\ o \in Entry /\ e \in Entry
          BY <1>2, <4>2, LevelEntries DEF TypeOK
        <5>2. now \in Nat /\ o.expiresAt \in Nat /\ e.expiresAt \in Nat
          BY <5>1, CacheAssumption DEF TypeOK, Entry
        <5>3. now > e.expiresAt
          BY <4>1, <5>1, <5>2 DEF Expired, Outlives
        <5> QED
          BY <1>1, <5>3 DEF Stale, Expired
      <4>3. CASE o.key # k
        <5>1. o \in Entries(l1)'
          BY <1>1, <4>3
        <5> QED
          BY <4>1, <5>1 DEF Stale, Hidden, Outlives
      <4> QED
        BY <4>2, <4>3
    <3> QED
      BY <1>1, <3>1, <3>2 DEF Stale, Expired
  <2>2. Entries(l2)' = Entries(l2)
    BY <1>1 DEF Entries
  <2> QED
    BY <2>1, <2>2 DEF StaleIsHidden, Stale
<1>5. ASSUME NEW p \in Places, Goto(r, p), FreshPlace(p)', p.at # "returned" PROVE FreshStep(r)
  <2>1. reader'[r] = p
    BY <1>5, Moved
  <2> QED
    BY <1>3, <1>4, <1>5, <2>1, OneGoes DEF FreshStep
<1>6. CASE Goto(r, [at |-> "missed L1", key |-> k])
  <2> DEFINE p == [at |-> "missed L1", key |-> k]
  <2>1. p \in Places /\ FreshPlace(p)' /\ p.at # "returned"
    BY <1>2, PlacesMade DEF FreshPlace, Holds
  <2>2. Goto(r, p)
    BY <1>6
  <2> HIDE DEF p
  <2> QED
    BY <1>5, <2>1, <2>2
<1>7. ASSUME NEW e \in Entries(l1), e.key = k, Goto(r, [at |-> "removed from L1", key |-> k, entry |-> e])
      PROVE  FreshStep(r)
  <2> DEFINE p == [at |-> "removed from L1", key |-> k, entry |-> e]
  <2>1. p \in Places /\ FreshPlace(p)' /\ p.at # "returned"
    BY <1>1, <1>2, <1>7, PlacesMade DEF FreshPlace, Holds, Expired
  <2>2. Goto(r, p)
    BY <1>7
  <2> HIDE DEF p
  <2> QED
    BY <1>5, <2>1, <2>2
<1> QED
  BY <1>0, <1>6, <1>7, RemoveFromL1Levels

\* What has expired hides nothing that has not.
LEMMA HiddenByExpired ==
  ASSUME TypeOK, NEW o \in Entry, NEW e \in Entry, Outlives(o, e), Expired(o)
  PROVE  Expired(e)
<1>1. now \in Nat /\ o.expiresAt \in Nat /\ e.expiresAt \in Nat
  BY CacheAssumption DEF TypeOK, Entry
<1> QED
  BY <1>1 DEF Outlives, Expired

LEMMA DemoteFresh ==
  ASSUME TypeOK, TypeOK', NEW r \in Readers, DemoteRemoved(r) \/ DemoteEvicted(r), FreshPlace(reader[r]),
         LatestInL1, StaleIsHidden, \A q \in Readers : q # r => ~Running(q)
  PROVE  FreshStep(r)
<1>0. PICK e, k : e = reader[r].entry /\ k = reader[r].key
  OBVIOUS
<1>1. /\ now' = now /\ latest' = latest /\ Level(l2, L2Size) /\ reader[r] \in Places
      /\ reader[r].at \in {"removed from L1", "evicted from L1"}
  BY DEF DemoteRemoved, DemoteEvicted, TypeOK, ghosts
<1>2. /\ l1' = l1 /\ Entries(l1)' = Entries(l1)
      /\ \/ Entries(l2)' = Entries(l2) /\ Expired(e)
         \/ \A x \in Entries(l2)' : x = e \/ (x \in Entries(l2) /\ x.key # e.key)
  BY <1>0, <1>1, DemoteLevels DEF Entries
<1>3. /\ \A q \in Readers : reader[q].at = "evicted from L1" => q = r
      /\ e \in Entry /\ k \in Keys
      /\ \A x \in Entries(l2) : x \in Entry
  BY <1>0, <1>1, PlaceFields, LevelEntries DEF Running
<1>4. LatestInL1'
  BY <1>1, <1>2 DEF LatestInL1
<1>5. StaleIsHidden'
  <2>1. ASSUME NEW x \in Entries(l2), x.key # e.key \/ Expired(e) PROVE Stale(x)'
    <3>1. Stale(x)
      BY DEF StaleIsHidden, Stale
    <3>2. CASE Hidden(x)
      <4>1. CASE \E o \in Entries(l1) : Outlives(o, x)
        BY <1>2, <4>1 DEF Stale, Hidden, Outlives
      <4>2. CASE Outlives(e, x)
        <5>1. Expired(e)
          BY <2>1, <4>2 DEF Outlives
        <5>2. Expired(x)
          BY <1>3, <4>2, <5>1, HiddenByExpired
        <5> QED
          BY <1>1, <5>2 DEF Stale, Expired
      <4> QED
        BY <1>0, <1>3, <3>2, <4>1, <4>2 DEF Hidden
    <3> QED
      BY <1>1, <3>1, <3>2 DEF Stale, Expired
  <2>2. CASE Expired(e) /\ Entries(l2)' = Entries(l2)
    BY <2>1, <2>2 DEF StaleIsHidden, Stale
  <2>3. CASE \A x \in Entries(l2)' : x = e \/ (x \in Entries(l2) /\ x.key # e.key)
    <3>1. Stale(e)'
      <4>1. CASE reader[r].at = "evicted from L1"
        BY <1>0, <1>1, <4>1 DEF FreshPlace, Stale
      <4>2. CASE reader[r].at = "removed from L1"
        BY <1>0, <1>1, <4>2 DEF FreshPlace, Stale, Expired
      <4> QED
        BY <1>1, <4>1, <4>2
    <3>2. ASSUME NEW x \in Entries(l2)' PROVE Stale(x)'
      <4>1. CASE x = e
        BY <3>1, <4>1
      <4>2. CASE x # e
        BY <2>1, <2>3, <4>2
      <4> QED
        BY <4>1, <4>2
    <3> QED
      BY <3>2 DEF StaleIsHidden, Stale
  <2> QED
    BY <1>2, <2>2, <2>3
<1>6. CASE DemoteRemoved(r)
  <2> DEFINE p == [at |-> "missed L1", key |-> k]
  <2>1. Goto(r, p) /\ ~Holds(l1, k)
    BY <1>0, <1>6 DEF DemoteRemoved, FreshPlace
  <2>2. p \in Places /\ FreshPlace(p)' /\ p.at # "returned"
    BY <1>2, <1>3, <2>1, PlacesMade DEF FreshPlace, Holds
  <2> HIDE DEF p
  <2>3. reader'[r] = p
    BY <2>1, <2>2, Moved
  <2> QED
    BY <1>4, <1>5, <2>1, <2>2, <2>3, OneGoes DEF FreshStep
<1>7. CASE DemoteEvicted(r)
  <2>1. /\ Return(r, k, reader[r].value) /\ reader[r].value = latest[k]
        /\ reader[r].value \in Nat
    BY <1>0, <1>1, <1>7, PlaceFields DEF DemoteEvicted, FreshPlace
  <2> QED
    BY <1>3, <1>4, <1>5, <2>1, AnswerFresh DEF FreshStep
<1> QED
  BY <1>6, <1>7
LEMMA LookL2Fresh ==
  ASSUME TypeOK, TypeOK', NEW r \in Readers, LookL2(r), FreshPlace(reader[r]),
         LatestInL1, StaleIsHidden, \A q \in Readers : q # r => ~Running(q)
  PROVE  FreshStep(r)
<1>0. PICK k : k = reader[r].key
  OBVIOUS
<1>1. /\ now' = now /\ latest' = latest /\ l1' = l1 /\ Entries(l1)' = Entries(l1)
      /\ Level(l1, L1Size) /\ Level(l2, L2Size) /\ reader[r] \in Places /\ reader[r].at = "missed L1"
  BY DEF LookL2, TypeOK, ghosts, Entries
<1>2. /\ \A q \in Readers : reader[q].at # "evicted from L1"
      /\ \A x \in Entries(l1) : x.key # k
      /\ \A x \in Entries(l2) : x \in Entry
      /\ k \in Keys /\ ~Holds(l1, k) /\ ~Holds(l1, k)'
  <2>1. ~Holds(l1, k) /\ k \in Keys
    BY <1>0, <1>1, PlaceFields DEF FreshPlace
  <2>2. (\A x \in Entries(l1) : x.key # k) /\ \A x \in Entries(l2) : x \in Entry
    BY <1>1, <2>1, LevelEntries
  <2>3. ~Holds(l1, k)'
    BY <1>1, <2>1 DEF Holds
  <2>4. \A q \in Readers : reader[q].at # "evicted from L1"
    BY <1>1 DEF Running
  <2> QED
    BY <2>1, <2>2, <2>3, <2>4
<1>3. LatestInL1'
  BY <1>1 DEF LatestInL1
<1>4. ASSUME NEW x \in Entries(l2) PROVE Stale(x) /\ Stale(x)'
  <2>1. Stale(x)
    BY DEF StaleIsHidden, Stale
  <2>2. Hidden(x) => \E o \in Entries(l1) : Outlives(o, x)
    BY <1>2 DEF Hidden
  <2> QED
    BY <1>1, <2>1, <2>2 DEF Stale, Hidden, Expired, Outlives
<1>5. Entries(l2)' = Entries(l2) => StaleIsHidden'
  BY <1>4 DEF StaleIsHidden, Stale
<1>6. CASE l2' = l2 /\ Return(r, k, Nothing)
  <2>1. Entries(l2)' = Entries(l2)
    BY <1>6 DEF Entries
  <2> QED
    BY <1>2, <1>3, <1>5, <1>6, <2>1, AnswerFresh DEF FreshStep
<1>7. CASE Entries(l2)' = Entries(l2) /\ Goto(r, [at |-> "expired in L2", key |-> k])
  <2> DEFINE p == [at |-> "expired in L2", key |-> k]
  <2>1. p \in Places /\ FreshPlace(p)' /\ p.at # "returned" /\ Goto(r, p)
    BY <1>2, <1>7, PlacesMade DEF FreshPlace
  <2> HIDE DEF p
  <2>2. reader'[r] = p
    BY <2>1, Moved
  <2> QED
    BY <1>3, <1>5, <1>7, <2>1, <2>2, OneGoes DEF FreshStep
<1>8. ASSUME NEW e \in Entries(l2), e.key = k, ~Expired(e),
             Entries(l2)' = {x \in Entries(l2) : x.key # k} \cup {Hit(e)},
             \/ Goto(r, [at |-> "promoting", key |-> k, entry |-> Hit(e)])
             \/ Return(r, k, e.value)
      PROVE  FreshStep(r)
  <2>1. /\ Hit(e) \in Entry /\ Hit(e).key = k /\ Hit(e).value = e.value /\ e.value \in Nat
    BY <1>2, <1>8, HitEntry DEF Entry
  <2>2. e.value = latest[k]
    <3>1. ~Hidden(e)
      BY <1>2, <1>8 DEF Hidden, Outlives
    <3> QED
      BY <1>4, <1>8, <3>1 DEF Stale
  <2>3. StaleIsHidden'
    <3>1. Stale(Hit(e))'
      BY <1>1, <2>1, <2>2 DEF Stale
    <3> QED
      BY <1>4, <1>8, <3>1 DEF StaleIsHidden, Stale
  <2>4. CASE Return(r, k, e.value)
    BY <1>2, <1>3, <2>1, <2>2, <2>3, <2>4, AnswerFresh DEF FreshStep
  <2>5. CASE Goto(r, [at |-> "promoting", key |-> k, entry |-> Hit(e)])
    <3> DEFINE p == [at |-> "promoting", key |-> k, entry |-> Hit(e)]
    <3>1. p \in Places /\ p.at # "returned" /\ Goto(r, p)
      BY <1>2, <2>1, <2>5, PlacesMade
    <3>2. FreshPlace(p)'
      BY <1>1, <1>2, <2>1, <2>2 DEF FreshPlace
    <3> HIDE DEF p
    <3>3. reader'[r] = p
      BY <3>1, Moved
    <3> QED
      BY <1>3, <2>3, <3>1, <3>2, <3>3, OneGoes DEF FreshStep
  <2> QED
    BY <1>8, <2>4, <2>5
<1> QED
  BY <1>0, <1>6, <1>7, <1>8, LookL2Levels

LEMMA RemoveFromL2Fresh ==
  ASSUME TypeOK, TypeOK', NEW r \in Readers, RemoveFromL2(r),
         LatestInL1, StaleIsHidden, \A q \in Readers : q # r => ~Running(q)
  PROVE  FreshStep(r)
<1>0. PICK k : k = reader[r].key
  OBVIOUS
<1>1. /\ now' = now /\ latest' = latest /\ l1' = l1 /\ Entries(l1)' = Entries(l1)
      /\ reader[r] \in Places /\ reader[r].at = "expired in L2" /\ Return(r, k, Nothing)
  BY <1>0 DEF RemoveFromL2, TypeOK, ghosts, Entries
<1>2. k \in Keys /\ \A q \in Readers : reader[q].at # "evicted from L1"
  BY <1>0, <1>1, PlaceFields DEF Running
<1>3. ASSUME NEW x \in Entries(l2)' PROVE Stale(x)'
  <2>1. x \in Entries(l2)
    BY RemoveFromL2Levels
  <2>2. Stale(x)
    BY <2>1 DEF StaleIsHidden, Stale
  <2>3. Hidden(x) => \E o \in Entries(l1) : Outlives(o, x)
    BY <1>2 DEF Hidden
  <2> QED
    BY <1>1, <2>2, <2>3 DEF Stale, Hidden, Expired, Outlives
<1>4. LatestInL1' /\ StaleIsHidden'
  BY <1>1, <1>3 DEF LatestInL1, StaleIsHidden, Stale
<1> QED
  BY <1>1, <1>2, <1>4, AnswerFresh DEF FreshStep

LEMMA PromoteFresh ==
  ASSUME TypeOK, TypeOK', NEW r \in Readers, Promote(r), FreshPlace(reader[r]),
         LatestInL1, StaleIsHidden, \A q \in Readers : q # r => ~Running(q)
  PROVE  FreshStep(r)
<1>0. PICK e : e = Promoted(r)
  OBVIOUS
<1>1. /\ now' = now /\ latest' = latest /\ l2' = l2 /\ Entries(l2)' = Entries(l2)
      /\ Level(l1, L1Size) /\ Level(l1', L1Size) /\ reader[r] \in Places /\ reader[r].at = "promoting"
  BY DEF Promote, TypeOK, ghosts, Entries
<1>2. /\ e \in Entry /\ e.key \in Keys /\ e.value \in Nat
      /\ e.value = latest[e.key]
      /\ \A x \in Entries(l1) : x \in Entry /\ x.value = latest[x.key] /\ x.key # e.key
      /\ \A q \in Readers : reader[q].at # "evicted from L1"
  <2>1. e \in Entry /\ e.key = reader[r].entry.key /\ e.value = reader[r].entry.value
    BY <1>0, PromoteLevels
  <2>2. ~Holds(l1, e.key) /\ e.value = latest[e.key]
    BY <1>1, <2>1 DEF FreshPlace
  <2>3. \A x \in Entries(l1) : x \in Entry /\ x.value = latest[x.key] /\ x.key # e.key
    BY <1>1, <2>2, LevelEntries DEF LatestInL1
  <2>4. \A q \in Readers : reader[q].at # "evicted from L1"
    BY <1>1 DEF Running
  <2> QED
    BY <2>1, <2>2, <2>3, <2>4 DEF Entry
<1>3. ASSUME NEW x \in Entries(l2) PROVE x.value = latest[x.key] \/ Expired(x) \/ \E o \in Entries(l1) : Outlives(o, x)
  BY <1>2 DEF StaleIsHidden, Hidden
<1>4. CASE /\ Entries(l1)' = {x \in Entries(l1) : x.key # e.key} \cup {e}
           /\ Return(r, e.key, e.value)
  <2>1. LatestInL1'
    BY <1>1, <1>2, <1>4 DEF LatestInL1
  <2>2. ASSUME NEW x \in Entries(l2) PROVE Stale(x)'
    <3>1. CASE \E o \in Entries(l1) : Outlives(o, x)
      <4>1. \E o \in Entries(l1)' : Outlives(o, x)
        BY <1>2, <1>4, <3>1
      <4> QED
        BY <4>1 DEF Stale, Hidden, Outlives
    <3> QED
      BY <1>1, <1>3, <3>1 DEF Stale, Expired
  <2>3. StaleIsHidden'
    BY <1>1, <2>2 DEF StaleIsHidden, Stale
  <2> QED
    BY <1>2, <1>4, <2>1, <2>3, AnswerFresh DEF FreshStep
<1>5. ASSUME NEW v \in Entries(l1), v.key # e.key,
             Entries(l1)' = {x \in Entries(l1) : x.key \notin {e.key, v.key}} \cup {e},
             Goto(r, [at |-> "evicted from L1", key |-> e.key, value |-> e.value, entry |-> v])
      PROVE  FreshStep(r)
  <2> DEFINE p == [at |-> "evicted from L1", key |-> e.key, value |-> e.value, entry |-> v]
  <2>1. p \in Places /\ p.at = "evicted from L1" /\ p.entry = v /\ Goto(r, p)
    BY <1>2, <1>5, PlacesMade
  <2>2. LatestInL1'
    BY <1>1, <1>2, <1>5 DEF LatestInL1
  <2>3. FreshPlace(p)'
    <3>1. ~Holds(l1, v.key)'
      <4>1. \A x \in Entries(l1') : x.key # v.key
        BY <1>5 DEF Entries
      <4>2. ~Holds(l1', v.key)
        BY <1>1, <4>1, LevelEntries
      <4> QED
        BY <4>2 DEF Holds
    <3> QED
      BY <1>1, <1>2, <3>1 DEF FreshPlace
  <2> HIDE DEF p
  <2>4. reader'[r] = p
    BY <2>1, Moved
  <2>5. ASSUME NEW x \in Entries(l2) PROVE Stale(x)'
    <3>1. ASSUME NEW o \in Entries(l1), Outlives(o, x) PROVE Stale(x)'
      <4>1. CASE o.key = v.key
        <5>1. o = v
          BY <1>1, <4>1, LevelEntries
        <5>2. Hidden(x)'
          BY <2>1, <2>4, <3>1, <5>1 DEF Hidden, Outlives
        <5> QED
          BY <5>2 DEF Stale
      <4>2. CASE o.key # v.key
        <5>1. o \in Entries(l1)'
          BY <1>2, <1>5, <4>2
        <5> QED
          BY <3>1, <5>1 DEF Stale, Hidden, Outlives
      <4> QED
        BY <4>1, <4>2
    <3> QED
      BY <1>1, <1>3, <3>1 DEF Stale, Expired
  <2>6. StaleIsHidden'
    BY <1>1, <2>5 DEF StaleIsHidden, Stale
  <2> QED
    BY <2>1, <2>2, <2>3, <2>4, <2>6, OneGoes DEF FreshStep
<1> QED
  BY <1>0, <1>4, <1>5, PromoteLevels
LEMMA GetFresh ==
  ASSUME FreshInv, TypeOK', NEW r \in Readers, Get(r), ~raced
  PROVE  /\ ~raced' => OneGet' /\ LatestInL1' /\ StaleIsHidden' /\ FreshPlaces'
         /\ reader'[r].at = "returned" => reader'[r].value \in {Nothing, latest[reader'[r].key]}
<1>1. TypeOK /\ LatestInL1 /\ StaleIsHidden /\ FreshPlace(reader[r]) /\ OneGet
  BY DEF FreshInv, FreshPlaces
<1>2. ASSUME Running(r) PROVE \A q \in Readers : q # r => ~Running(q)
  BY <1>1, <1>2 DEF OneGet
<1>3. ASSUME NEW k \in Keys, LookL1(r, k) PROVE ~raced' => FreshStep(r)
  <2>1. ~raced' => Unshared
    BY <1>3 DEF LookL1
  <2> QED
    BY <1>1, <1>3, <2>1, LookL1Fresh
\* A lookup in L1 answers what was set last even while others run.
<1>4. ASSUME NEW k \in Keys, LookL1(r, k), reader'[r].at = "returned"
      PROVE  reader'[r].value = latest[reader'[r].key]
  <2>1. PICK e \in Entries(l1) : e.key = k /\ Return(r, k, e.value)
    <3>1. ASSUME NEW at \in {"missed L1", "expired in L1"}, Goto(r, [at |-> at, key |-> k]) PROVE FALSE
      <4> DEFINE p == [at |-> at, key |-> k]
      <4>1. p \in Places /\ Goto(r, p) /\ p.at # "returned"
        BY <3>1, PlacesMade
      <4> HIDE DEF p
      <4> QED
        BY <1>1, <1>4, <4>1, Moved
    <3> QED
      BY <1>1, <1>4, <3>1, LookL1Levels
  <2>2. e.value = latest[k] /\ e.value \in Nat
    BY <1>1, <2>1, LevelEntries DEF LatestInL1, TypeOK, Entry
  <2> DEFINE p == [at |-> "returned", key |-> k, value |-> e.value]
  <2>3. p \in Places /\ Goto(r, p) /\ p.value = latest[p.key]
    BY <2>1, <2>2, PlacesMade DEF Return
  <2> HIDE DEF p
  <2> QED
    BY <1>1, <2>3, Moved
<1>5. CASE RemoveFromL1(r)
  BY <1>1, <1>2, <1>5, RemoveFromL1Fresh DEF RemoveFromL1, Running, FreshStep
<1>6. CASE DemoteRemoved(r)
  BY <1>1, <1>2, <1>6, DemoteFresh DEF DemoteRemoved, Running, FreshStep
<1>7. CASE LookL2(r)
  BY <1>1, <1>2, <1>7, LookL2Fresh DEF LookL2, Running, FreshStep
<1>8. CASE RemoveFromL2(r)
  BY <1>1, <1>2, <1>8, RemoveFromL2Fresh DEF RemoveFromL2, Running, FreshStep
<1>9. CASE Promote(r)
  BY <1>1, <1>2, <1>9, PromoteFresh DEF Promote, Running, FreshStep
<1>10. CASE DemoteEvicted(r)
  BY <1>1, <1>2, <1>10, DemoteFresh DEF DemoteEvicted, Running, FreshStep
<1> QED
  BY <1>3, <1>4, <1>5, <1>6, <1>7, <1>8, <1>9, <1>10 DEF Get, FreshStep

\* No entry lives longer than one that would be set now.
LEMMA ShortLivedStep == TypeOK /\ TypeOK' /\ ShortLived /\ [Next]_vars => ShortLived'
<1> SUFFICES ASSUME TypeOK, TypeOK', ShortLived, [Next]_vars PROVE ShortLived'
  OBVIOUS
<1>1. /\ \A e \in Found : /\ e.key \in Keys /\ TTL[e.key] \in Nat /\ TTL[e.key] >= L1TTL
                           /\ e.expiresAt \in Nat /\ e.expiresAt <= now + TTL[e.key]
      /\ now \in Nat /\ L1TTL \in Nat
  BY FoundEntries, CacheAssumption DEF ShortLived, Entry, TypeOK
<1>2. reader' = reader => UNION {Carried(q) : q \in Readers}' = UNION {Carried(q) : q \in Readers}
  BY DEF Carried
<1>3. ASSUME now' = now \/ now' = now + 1, Found' \subseteq Found PROVE ShortLived'
  BY <1>1, <1>3 DEF ShortLived
<1>4. CASE UNCHANGED <<levels, reader>> /\ (now' = now \/ now' = now + 1)
  <2>1. Found' = Found
    BY <1>4 DEF levels, Found, Entries, Carried
  <2> QED
    BY <1>3, <1>4, <2>1
<1>5. ASSUME NEW k \in Keys, SetWithTTL(k) PROVE ShortLived'
  <2>1. /\ NewEntry(k).key = k /\ NewEntry(k).expiresAt = now + TTL[k] /\ reader' = reader /\ now' = now
    BY <1>5, NewEntryIsEntry DEF SetWithTTL
  <2>2. \A e \in Found' : e = NewEntry(k) \/ e \in Found
    BY <1>2, <1>5, <2>1, SetLevels DEF Found, FromSet
  <2>3. now + TTL[k] <= now + TTL[k]
    BY <1>1, CacheAssumption
  <2>4. ASSUME NEW e \in Found' PROVE e.expiresAt <= now' + TTL[e.key]
    <3>1. CASE e = NewEntry(k)
      <4>1. NewEntry(k).expiresAt <= now' + TTL[NewEntry(k).key]
        BY <2>1, <2>3
      <4> QED
        BY <3>1, <4>1
    <3>2. CASE e \in Found
      BY <1>1, <2>1, <3>2
    <3> QED
      BY <2>2, <3>1, <3>2
  <2> QED
    BY <2>4 DEF ShortLived
<1>6. ASSUME NEW k \in Keys, Delete(k) PROVE ShortLived'
  <2>1. reader' = reader /\ now' = now
    BY <1>6 DEF Delete, Forget
  <2>2. Found' \subseteq Found
    BY <1>2, <1>6, <2>1, DeleteLevels DEF Found
  <2> QED
    BY <1>3, <2>1, <2>2
<1>7. CASE Clear
  <2>1. reader' = reader /\ now' = now /\ Entries(l1)' = {} /\ Entries(l2)' = {}
    BY <1>7, EmptyLevel, CacheAssumption DEF Clear, Forget, Entries
  <2>2. Found' \subseteq Found
    BY <1>2, <2>1 DEF Found
  <2> QED
    BY <1>3, <2>1, <2>2
<1>8. CASE Cleanup
  <2>1. Entries(Unexpired(l1)) \subseteq Entries(l1) /\ Entries(Unexpired(l2)) \subseteq Entries(l2)
    BY UnexpiredLevel, CacheAssumption DEF TypeOK
  <2>2. Entries(l1)' \subseteq Entries(l1) /\ Entries(l2)' \subseteq Entries(l2)
    BY <1>8, <2>1 DEF Cleanup, Entries
  <2>3. Found' \subseteq Found
    BY <1>2, <1>8, <2>2 DEF Cleanup, Found
  <2> QED
    BY <1>3, <1>8, <2>3 DEF Cleanup
<1>9. ASSUME NEW r \in Readers, Get(r) PROVE ShortLived'
  <2>1. now' = now
    BY <1>9 DEF Get, LookL1, RemoveFromL1, DemoteRemoved, LookL2, RemoveFromL2, Promote, DemoteEvicted
  <2>2. \A e \in Found' : Copy(e, Found)
    BY <1>9, GetCopies
  <2>3. ASSUME NEW e \in Found' PROVE e.expiresAt <= now + TTL[e.key]
    <3>1. PICK o \in Found : o.key = e.key /\ e.expiresAt \in {o.expiresAt, now + L1TTL}
      BY <2>2 DEF Copy
    <3>2. o.expiresAt <= now + TTL[e.key] /\ TTL[e.key] \in Nat /\ TTL[e.key] >= L1TTL
      BY <1>1, <3>1
    <3> QED
      BY <1>1, <3>1, <3>2
  <2> QED
    BY <2>1, <2>3 DEF ShortLived
<1> QED
  BY <1>4, <1>5, <1>6, <1>7, <1>8, <1>9 DEF Next, Tick, vars
\* What a call that holds c.mu alone must preserve.
CallFresh == LatestInL1' /\ StaleIsHidden'

LEMMA SetFresh ==
  ASSUME FreshInv, ~raced, NEW k \in Keys, SetWithTTL(k)
  PROVE  CallFresh
<1>0. PICK n, v : n = NewEntry(k) /\ v = Victim(l1, L1Size, NewEntry(k))
  OBVIOUS
<1>1. TypeOK /\ LatestInL1 /\ StaleIsHidden /\ ShortLived /\ Level(l1, L1Size) /\ Level(l2, L2Size)
  BY DEF FreshInv, TypeOK
<1>2. /\ now' = now /\ reader' = reader /\ latest' = [latest EXCEPT ![k] = sets + 1]
      /\ \A q \in Readers : reader[q].at # "evicted from L1"
  BY DEF SetWithTTL, Unshared, Running
<1>3. latest'[k] = sets + 1 /\ \A j \in Keys : j # k => latest'[j] = latest[j]
  BY <1>1, <1>2 DEF TypeOK
<1>4. n.key = k /\ n.value = sets + 1 /\ n.expiresAt = now + TTL[k]
  BY <1>0, <1>1, NewEntryIsEntry
<1>5. /\ v \in Entries(l1) \cup {Nothing}
      /\ Entries(l1)' = {x \in Entries(l1) : x.key # k /\ x # v} \cup {n}
      /\ \A x \in Entries(l2)' : FromSet(x, v)
  BY <1>0, <1>1, SetLevels
<1>6. /\ \A x \in Entries(l1) : x \in Entry /\ x.key \in Keys /\ x.value = latest[x.key]
      /\ \A x \in Entries(l2) : x \in Entry /\ x.key \in Keys /\ Stale(x) /\ x.expiresAt <= now + TTL[x.key]
      /\ \A x \in Entries(l1) : x \notin {Nothing}
  <2>1. \A x \in Entries(l1) \cup Entries(l2) : x \in Entry /\ x \in Found
    BY <1>1, LevelEntries DEF Found
  <2> QED
    BY <1>1, <2>1, CacheAssumption DEF LatestInL1, StaleIsHidden, Stale, ShortLived, Entry
<1>7. LatestInL1'
  BY <1>3, <1>4, <1>5, <1>6 DEF LatestInL1
<1>8. ASSUME NEW x \in Entries(l2)' PROVE Stale(x)'
  <2>1. CASE x \in Entries(l1) /\ x = v
    <3>1. CASE x.key # k
      BY <1>3, <1>6, <2>1, <3>1 DEF Stale
\* The victim of an Add has another key; one of the key would be in its place.
    <3>2. CASE x.key = k
      <4>1. Victim(l1, L1Size, NewEntry(k)) # Nothing => Victim(l1, L1Size, NewEntry(k)).key # k
        BY <1>1, NewEntryIsEntry, AddedLevel, CacheAssumption
      <4> QED
        BY <1>0, <1>6, <2>1, <3>2, <4>1
    <3> QED
      BY <3>1, <3>2
  <2>2. CASE x \in Entries(l2) /\ (v # Nothing => Expired(v) \/ x.key # v.key)
    <3>1. CASE x.key = k
      <4>1. Outlives(n, x)
        <5>1. now \in Nat /\ TTL[k] \in Nat /\ x.expiresAt \in Nat
          BY <1>1, <1>6, <2>2, CacheAssumption DEF TypeOK, Entry
        <5> QED
          BY <1>4, <1>6, <2>2, <3>1, <5>1 DEF Outlives
      <4> QED
        BY <1>5, <4>1 DEF Stale, Hidden, Outlives
    <3>2. CASE x.key # k /\ Hidden(x)
      <4>1. PICK o \in Entries(l1) : Outlives(o, x)
        BY <1>2, <3>2 DEF Hidden
      <4>2. CASE o = v
        <5>1. Expired(o)
          BY <1>6, <2>2, <4>1, <4>2 DEF Outlives
        <5>2. Expired(x)
          BY <1>1, <1>6, <2>2, <4>1, <5>1, HiddenByExpired
        <5> QED
          BY <1>2, <5>2 DEF Stale, Expired
      <4>3. CASE o # v
        <5>1. o \in Entries(l1)'
          BY <1>5, <3>2, <4>1, <4>3 DEF Outlives
        <5> QED
          BY <4>1, <5>1 DEF Stale, Hidden, Outlives
      <4> QED
        BY <4>2, <4>3
    <3>3. CASE x.key # k /\ ~Hidden(x)
      BY <1>2, <1>3, <1>6, <2>2, <3>3 DEF Stale, Expired
    <3> QED
      BY <3>1, <3>2, <3>3
  <2> QED
    BY <1>5, <2>1, <2>2 DEF FromSet
<1> QED
  BY <1>7, <1>8 DEF CallFresh, StaleIsHidden, Stale

LEMMA RemovalFresh ==
  ASSUME FreshInv, ~raced, (\E k \in Keys : Delete(k)) \/ Clear \/ Cleanup
  PROVE  CallFresh
<1>1. TypeOK /\ LatestInL1 /\ StaleIsHidden /\ Level(l1, L1Size) /\ Level(l2, L2Size)
  BY DEF FreshInv, TypeOK
<1>2. now' = now /\ reader' = reader /\ \A q \in Readers : reader[q].at # "evicted from L1"
  BY DEF Delete, Clear, Cleanup, Forget, Unshared, Running
<1>3. /\ \A x \in Entries(l1) : x \in Entry /\ x.key \in Keys /\ x.value = latest[x.key]
      /\ \A x \in Entries(l2) : x \in Entry /\ x.key \in Keys /\ Stale(x)
  BY <1>1, LevelEntries DEF LatestInL1, StaleIsHidden, Stale, Entry
<1>4. ASSUME NEW k \in Keys, Delete(k) PROVE CallFresh
  <2>1. \A j \in Keys : j # k => latest'[j] = latest[j]
    BY <1>4 DEF Delete, Forget
  <2>2. /\ Entries(l1)' = {x \in Entries(l1) : x.key # k}
        /\ \A x \in Entries(l2)' : x.key # k /\ x \in Entries(l2)
    BY <1>1, <1>4, DeleteLevels
  <2>3. LatestInL1'
    BY <1>3, <2>1, <2>2 DEF LatestInL1
  <2>4. ASSUME NEW x \in Entries(l2)' PROVE Stale(x)'
    <3>1. CASE Hidden(x)
      <4>1. PICK o \in Entries(l1) : Outlives(o, x)
        BY <1>2, <3>1 DEF Hidden
      <4>2. o \in Entries(l1)'
        BY <2>2, <4>1 DEF Outlives
      <4> QED
        BY <4>1, <4>2 DEF Stale, Hidden, Outlives
    <3> QED
      BY <1>2, <1>3, <2>1, <2>2, <3>1 DEF Stale, Expired
  <2> QED
    BY <2>3, <2>4 DEF CallFresh, StaleIsHidden, Stale
<1>5. CASE Clear
  <2>1. Entries(l1)' = {} /\ Entries(l2)' = {}
    BY <1>5, EmptyLevel, CacheAssumption DEF Clear, Entries
  <2> QED
    BY <2>1 DEF CallFresh, LatestInL1, StaleIsHidden
<1>6. CASE Cleanup
  <2>1. /\ Entries(Unexpired(l1)) = {e \in Entries(l1) : ~Expired(e)}
        /\ Entries(Unexpired(l2)) = {e \in Entries(l2) : ~Expired(e)}
    BY <1>1, UnexpiredLevel, CacheAssumption
  <2>2. /\ Entries(l1)' = {e \in Entries(l1) : ~Expired(e)}
        /\ Entries(l2)' = {e \in Entries(l2) : ~Expired(e)} /\ latest' = latest
    BY <1>6, <2>1 DEF Cleanup, Entries, ghosts
  <2>3. LatestInL1'
    BY <1>3, <2>2 DEF LatestInL1
  <2>4. ASSUME NEW x \in Entries(l2)' PROVE Stale(x)'
    <3>1. x \in Entries(l2) /\ ~Expired(x) /\ Stale(x) /\ x \in Entry
      BY <1>3, <2>2
    <3>2. CASE Hidden(x)
      <4>1. PICK o \in Entries(l1) : Outlives(o, x)
        BY <1>2, <3>2 DEF Hidden
      <4>2. ~Expired(o)
        BY <1>1, <1>3, <3>1, <4>1, HiddenByExpired
      <4>3. o \in Entries(l1)'
        BY <2>2, <4>1, <4>2
      <4> QED
        BY <4>1, <4>3 DEF Stale, Hidden, Outlives
    <3> QED
      BY <2>2, <3>1, <3>2 DEF Stale
  <2> QED
    BY <2>3, <2>4 DEF CallFresh, StaleIsHidden, Stale
<1> QED
  BY <1>4, <1>5, <1>6

LEMMA FreshInit == Init => FreshInv
<1> SUFFICES ASSUME Init PROVE FreshInv
  OBVIOUS
<1>1. TypeOK /\ Entries(l1) = {} /\ Entries(l2) = {} /\ \A r \in Readers : reader[r].at = "idle"
  BY TypeInit, EmptyLevel, CacheAssumption DEF Init, Idle
<1>2. Found = {}
  BY <1>1, CarriedBy DEF Found
<1> QED
  BY <1>1, <1>2 DEF FreshInv, ShortLived, OneGet, LatestInL1, StaleIsHidden, FreshPlaces, FreshPlace, Running

LEMMA FreshNext == FreshInv /\ [Next]_vars => FreshInv'
<1> SUFFICES ASSUME FreshInv, [Next]_vars PROVE FreshInv'
  OBVIOUS
<1>1. TypeOK /\ TypeOK' /\ ShortLived'
  BY TypeStep, ShortLivedStep DEF FreshInv
<1>2. raced => raced'
  BY DEF Next, vars, ghosts, Tick, SetWithTTL, Delete, Clear, Forget, Cleanup, Get, LookL1,
         RemoveFromL1, DemoteRemoved, LookL2, RemoveFromL2, Promote, DemoteEvicted
<1>3. SUFFICES ASSUME ~raced, ~raced' PROVE OneGet' /\ LatestInL1' /\ StaleIsHidden' /\ FreshPlaces'
  BY <1>1, <1>2, <1>3 DEF FreshInv
<1>4. OneGet /\ LatestInL1 /\ StaleIsHidden /\ FreshPlaces
  BY <1>3 DEF FreshInv
<1>5. ASSUME NEW r \in Readers, Get(r) PROVE OneGet' /\ LatestInL1' /\ StaleIsHidden' /\ FreshPlaces'
  BY <1>1, <1>3, <1>5, GetFresh
<1>6. ASSUME reader' = reader, Unshared PROVE OneGet' /\ FreshPlaces'
  <2>1. \A r \in Readers : reader[r].at \in {"idle", "returned"}
    BY <1>6 DEF Unshared, Running
  <2> QED
    BY <1>6, <2>1 DEF OneGet, FreshPlaces, FreshPlace, Running
<1>7. CASE (\E k \in Keys : SetWithTTL(k) \/ Delete(k)) \/ Clear \/ Cleanup
  <2>1. reader' = reader /\ Unshared
    BY <1>7 DEF SetWithTTL, Delete, Clear, Cleanup, Forget
  <2>2. CallFresh
    BY <1>3, <1>7, SetFresh, RemovalFresh
  <2> QED
    BY <1>6, <2>1, <2>2 DEF CallFresh
<1>8. CASE Tick \/ UNCHANGED vars
  <2>1. /\ l1' = l1 /\ l2' = l2 /\ reader' = reader /\ latest' = latest
        /\ \A e \in Entries(l1) \cup Entries(l2) \cup Entry : Expired(e) => Expired(e)'
    <3>1. now \in Nat /\ (now' = now \/ now' = now + 1)
      BY <1>1, <1>8, CacheAssumption DEF Tick, vars, TypeOK
    <3>2. \A e \in Entries(l1) \cup Entries(l2) \cup Entry : e \in Entry /\ e.expiresAt \in Nat
      BY <1>1, LevelEntries DEF TypeOK, Entry
    <3>3. l1' = l1 /\ l2' = l2 /\ reader' = reader /\ latest' = latest
      BY <1>8 DEF Tick, vars, levels, ghosts
    <3> QED
      BY <3>1, <3>2, <3>3 DEF Expired
  <2>2. OneGet' /\ LatestInL1'
    BY <1>4, <2>1 DEF OneGet, LatestInL1, Running, Entries
  <2>3. ASSUME NEW x \in Entries(l2) PROVE Stale(x)'
    <3>1. Stale(x) /\ (Expired(x) => Expired(x)')
      BY <1>4, <2>1 DEF StaleIsHidden, Stale
    <3>2. Hidden(x) => Hidden(x)'
      BY <2>1 DEF Hidden, Outlives, Entries
    <3> QED
      BY <2>1, <3>1, <3>2 DEF Stale
  <2>4. ASSUME NEW r \in Readers PROVE FreshPlace(reader[r])'
    <3>1. reader[r] \in Places /\ FreshPlace(reader[r])
      BY <1>1, <1>4 DEF TypeOK, FreshPlaces
    <3>2. reader[r].at = "removed from L1" => reader[r].entry \in Entry
      BY <3>1, PlaceFields
    <3> QED
      BY <2>1, <3>1, <3>2 DEF FreshPlace, Holds, Entries
  <2>5. StaleIsHidden'
    BY <2>1, <2>3 DEF StaleIsHidden, Stale, Entries
  <2> QED
    BY <2>2, <2>4, <2>5 DEF FreshPlaces
<1> QED
  BY <1>5, <1>7, <1>8 DEF Next

\* As long as no two Gets have met, what a Get answers is what its key was given
\* last, or nothing.
THEOREM CacheAnswersFresh == Spec => FreshReads
<1> DEFINE Answered == \A r \in Readers : reader'[r] # reader[r] /\ reader'[r].at = "returned" /\ ~raced =>
                         reader'[r].value \in {Nothing, latest[reader'[r].key]}
<1>1. FreshInv /\ FreshInv' /\ [Next]_vars => [Answered]_vars
  <2> SUFFICES ASSUME FreshInv, FreshInv', Next PROVE Answered
    OBVIOUS
  <2>1. ASSUME NEW r \in Readers, reader'[r] # reader[r], reader'[r].at = "returned", ~raced
        PROVE  reader'[r].value \in {Nothing, latest[reader'[r].key]}
    <3>1. CASE reader' = reader
      BY <2>1, <3>1
    <3>2. ASSUME NEW q \in Readers, Get(q) PROVE reader'[r].value \in {Nothing, latest[reader'[r].key]}
      <4>1. \E p : Goto(q, p)
        BY <3>2 DEF Get, LookL1, RemoveFromL1, DemoteRemoved, LookL2, RemoveFromL2, Promote, DemoteEvicted, Return
      <4>2. q = r
        BY <2>1, <4>1 DEF Goto, FreshInv, TypeOK
      <4> QED
        BY <2>1, <3>2, <4>2, GetFresh DEF FreshInv
    <3> QED
      BY <3>1, <3>2 DEF Next, Tick, SetWithTTL, Delete, Clear, Cleanup, Forget
  <2> QED
    BY <2>1
<1>2. FreshReads <=> [][Answered]_vars
  BY DEF FreshReads
<1> HIDE DEF Answered
<1> QED
  BY <1>1, <1>2, FreshInit, FreshNext, PTL DEF Spec
-----------------------------------------------------------------------------
(***************************************************************************)
(* The rates: types.                                                       *)
(***************************************************************************)
LEMMA RatePlaces ==
  ASSUME NEW p \in D!Places
  PROVE  /\ p.pc \in {"idle", "readRate", "writeRate", "stats", "readIOPS", "writeIOPS",
                      "getStat", "getTimestamp", "update"}
         /\ p.pc # "idle" => p.device \in Devices
         /\ p.pc \in {"readRate", "writeRate", "stats"} => p.seen \in [D!ByteKinds -> Nat]
         /\ p.pc \in {"readIOPS", "writeIOPS", "getStat", "getTimestamp", "update"} =>
              p.seen \in [D!OpKinds \cup {"ioTime"} -> Nat]
         /\ p.pc \in {"getTimestamp", "update"} => p.prev \in Nat
         /\ p.pc = "update" => p.interval \in Nat
  BY DEF D!Places, D!Idle

LEMMA RatePlacesMoved ==
  ASSUME NEW p \in D!Places, NEW to,
         \/ p.pc \in {"readRate", "writeRate"} /\ to \in {"writeRate", "stats"}
         \/ p.pc \in {"readIOPS", "writeIOPS"} /\ to \in {"writeIOPS", "getStat"}
  PROVE  /\ [p EXCEPT !.pc = to] \in D!Places
         /\ [p EXCEPT !.pc = to].pc = to /\ [p EXCEPT !.pc = to].device = p.device
  BY DEF D!Places, D!Idle

LEMMA StatsPlace ==
  ASSUME NEW q \in D!Places, q.pc = "stats"
  PROVE  q \in [pc : {"stats"}, device : Devices, seen : [D!ByteKinds -> Nat]]
  BY DEF D!Places, D!Idle

LEMMA RatePlacesSampled ==
  ASSUME NEW p \in [pc : {"stats"}, device : Devices, seen : [D!ByteKinds -> Nat]],
         NEW s \in [D!OpKinds \cup {"ioTime"} -> Nat]
  PROVE  [[p EXCEPT !.pc = "readIOPS"] EXCEPT !.seen = s] \in D!Places
<1>1. [[p EXCEPT !.pc = "readIOPS"] EXCEPT !.seen = s] \in
        [pc : {"readIOPS", "writeIOPS", "getStat"}, device : Devices, seen : [D!OpKinds \cup {"ioTime"} -> Nat]]
  OBVIOUS
<1> QED
  BY <1>1 DEF D!Places

\* What of a quotient the dividend covers.
LEMMA QuotientTimesDivisor ==
  ASSUME NEW a \in Nat, NEW b \in Nat \ {0}
  PROVE  a \div b \in Nat /\ (a \div b) * b <= a
  OBVIOUS

\* The rate of a call, times its interval, is what the call claims.
LEMMA RateClaims ==
  ASSUME NEW entry \in D!Entry, entry.at <= time, time \in Nat, NEW k \in D!Kinds, NEW sample \in Nat,
         TicksPerMilli \in Nat \ {0}
  PROVE  /\ D!RateOf(entry, k, sample) * (time - entry.at) \in Nat
         /\ time = entry.at \/ sample < entry.val[k] =>
              D!RateOf(entry, k, sample) * (time - entry.at) = 0
         /\ sample >= entry.val[k] =>
              D!RateOf(entry, k, sample) * (time - entry.at) <= (sample - entry.val[k]) * D!TicksPerSecond
<1> DEFINE T == D!TicksPerSecond
           dt == time - entry.at
           v == entry.val[k]
           rate == D!RateOf(entry, k, sample)
<1>1. entry # NoEntry /\ v \in Nat /\ dt \in Nat /\ T \in Nat
  BY RatesAssumption DEF D!Entry, D!Counts, D!TicksPerSecond
<1>2. rate = IF time = entry.at \/ sample < v THEN 0 ELSE ((sample - v) * T) \div dt
  BY <1>1 DEF D!RateOf
<1> HIDE DEF T, v, rate
<1>3. CASE time = entry.at \/ sample < v
  <2>1. rate * dt = 0
    BY <1>1, <1>2, <1>3
  <2>2. sample >= v => (sample - v) * T \in Nat
    BY <1>1
  <2> QED
    BY <1>1, <2>1, <2>2 DEF T, v, rate
<1>4. CASE ~(time = entry.at \/ sample < v)
  <2>1. dt \in Nat \ {0} /\ sample - v \in Nat
    BY <1>1, <1>4, time \in Nat DEF D!Entry
  <2>2. (sample - v) * T \in Nat
    BY <1>1, <2>1
  <2> DEFINE a == (sample - v) * T
  <2> HIDE DEF a, dt
  <2>3. a \div dt \in Nat /\ (a \div dt) * dt <= a
    BY <2>1, <2>2, QuotientTimesDivisor DEF a
  <2>4. rate = a \div dt
    BY <1>2, <1>4 DEF a
  <2>5. rate * dt \in Nat /\ rate * dt <= a
    BY <2>1, <2>3, <2>4
  <2> QED
    BY <1>4, <2>5 DEF a, dt, T, v, rate
<1> QED
  BY <1>3, <1>4
LEMMA SampledEntry ==
  ASSUME NEW entry \in D!Entry \cup {NoEntry}, entry # NoEntry => entry.at <= time, time \in Nat,
         NEW k \in D!Kinds, NEW current \in Nat, NEW first
  PROVE  /\ D!Sampled(entry, k, current, first) \in D!Entry
         /\ D!Sampled(entry, k, current, first) # NoEntry
         /\ D!Sampled(entry, k, current, first).at <= time
         /\ entry = NoEntry =>
              \A j \in D!Kinds : D!Sampled(entry, k, current, first).val[j] = IF j \in first THEN current ELSE 0
         /\ entry # NoEntry /\ time = entry.at => D!Sampled(entry, k, current, first) = entry
         /\ entry # NoEntry /\ time # entry.at =>
              \A j \in D!Kinds : D!Sampled(entry, k, current, first).val[j] = IF j = k THEN current ELSE entry.val[j]
<1> DEFINE s == D!Sampled(entry, k, current, first)
<1>1. CASE entry = NoEntry
  <2>1. s = [val |-> [j \in D!Kinds |-> IF j \in first THEN current ELSE 0], at |-> time]
    BY <1>1 DEF D!Sampled
  <2>2. [j \in D!Kinds |-> IF j \in first THEN current ELSE 0] \in D!Counts
    BY DEF D!Counts
  <2>3. s \in D!Entry /\ s.at = time
    BY <2>1, <2>2 DEF D!Entry
  <2> QED
    BY <1>1, <2>1, <2>3, RatesAssumption
<1>2. CASE entry # NoEntry /\ time = entry.at
  BY <1>2, RatesAssumption DEF D!Sampled
<1>3. CASE entry # NoEntry /\ time # entry.at
  <2>1. s = [val |-> [entry.val EXCEPT ![k] = current], at |-> time] /\ entry.val \in [D!Kinds -> Nat]
    BY <1>3 DEF D!Sampled, D!Entry, D!Counts
  <2>2. [entry.val EXCEPT ![k] = current] \in D!Counts
    BY <2>1 DEF D!Counts
  <2>3. s \in D!Entry /\ s.at = time
    BY <2>1, <2>2 DEF D!Entry
  <2> QED
    BY <1>3, <2>1, <2>3, RatesAssumption
<1> QED
  BY <1>1, <1>2, <1>3

\* A call: the entry it leaves and the bytes it credits.
LEMMA CalculateStep ==
  ASSUME D!TypeOK, NEW c \in Collectors, NEW d \in Devices, collector[c].device = d,
         NEW k \in D!Kinds, collector[c].seen[k] \in Nat, NEW first, D!Calculate(c, k, first)
  PROVE  /\ cache' \in [Devices -> D!Entry \cup {NoEntry}]
         /\ \A b \in Devices : cache'[b] # NoEntry => cache'[b].at <= time
         /\ cache'[d] = D!Sampled(cache[d], k, collector[c].seen[k], first)
         /\ \A b \in Devices : b # d => cache'[b] = cache[b]
         /\ credited' \in [Devices -> [D!ByteKinds -> Nat]]
         /\ k \notin D!ByteKinds \/ cache[d] = NoEntry => credited' = credited
         /\ k \in D!ByteKinds /\ cache[d] # NoEntry =>
              \A b \in Devices, j \in D!ByteKinds :
                credited'[b][j] = IF b = d /\ j = k
                                  THEN credited[d][k] + D!RateOf(cache[d], k, collector[c].seen[k]) * (time - cache[d].at)
                                  ELSE credited[b][j]
<1> DEFINE new == D!Sampled(cache[d], k, collector[c].seen[k], first)
           more == D!RateOf(cache[d], k, collector[c].seen[k]) * (time - cache[d].at)
<1>1. /\ cache \in [Devices -> D!Entry \cup {NoEntry}] /\ time \in Nat
      /\ \A b \in Devices : cache[b] # NoEntry => cache[b].at <= time
      /\ credited \in [Devices -> [D!ByteKinds -> Nat]]
  BY CacheAssumption DEF D!TypeOK
<1>2. new \in D!Entry /\ new.at <= time
  <2>1. cache[d] \in D!Entry \cup {NoEntry} /\ (cache[d] # NoEntry => cache[d].at <= time)
    BY <1>1
  <2>2. \A entry \in D!Entry \cup {NoEntry}, current \in Nat : (entry # NoEntry => entry.at <= time) =>
          /\ D!Sampled(entry, k, current, first) \in D!Entry
          /\ D!Sampled(entry, k, current, first).at <= time
    BY <1>1, SampledEntry
  <2> QED
    BY <2>1, <2>2
<1>3. cache[d] # NoEntry => more \in Nat
  BY <1>1, RateClaims, RatesAssumption
<1>4. /\ cache' = [cache EXCEPT ![d] = new]
      /\ credited' = IF k \notin D!ByteKinds \/ cache[d] = NoEntry THEN credited
                     ELSE [credited EXCEPT ![d][k] = @ + more]
  BY <1>1 DEF D!Calculate
<1> HIDE DEF new, more
<1>5. /\ cache' \in [Devices -> D!Entry \cup {NoEntry}]
      /\ cache'[d] = new /\ \A b \in Devices : b # d => cache'[b] = cache[b]
  BY <1>1, <1>2, <1>4
<1>6. \A b \in Devices : cache'[b] # NoEntry => cache'[b].at <= time
  BY <1>1, <1>2, <1>5
<1>7. CASE k \notin D!ByteKinds \/ cache[d] = NoEntry
  BY <1>1, <1>4, <1>5, <1>6, <1>7 DEF new
<1>8. CASE ~(k \notin D!ByteKinds \/ cache[d] = NoEntry)
  <2>1. credited[d][k] + more \in Nat
    BY <1>1, <1>3, <1>8
  <2>2. credited' = [credited EXCEPT ![d] = [credited[d] EXCEPT ![k] = credited[d][k] + more]]
    BY <1>1, <1>4, <1>8
  <2>3. [credited[d] EXCEPT ![k] = credited[d][k] + more] \in [D!ByteKinds -> Nat]
    BY <1>1, <2>1, <1>8
  <2>4. credited' \in [Devices -> [D!ByteKinds -> Nat]]
    BY <1>1, <2>2, <2>3
  <2>5. \A b \in Devices, j \in D!ByteKinds :
          credited'[b][j] = IF b = d /\ j = k THEN credited[d][k] + more ELSE credited[b][j]
    BY <1>1, <1>8, <2>2
  <2> QED
    BY <1>5, <1>6, <1>8, <2>4, <2>5 DEF new, more
<1> QED
  BY <1>7, <1>8
LEMMA RateMoved ==
  ASSUME D!TypeOK, NEW c \in Collectors, NEW p \in D!Places, collector' = [collector EXCEPT ![c] = p]
  PROVE  /\ collector' \in [Collectors -> D!Places] /\ collector'[c] = p
         /\ \A b \in Collectors : b # c => collector'[b] = collector[b]
  BY DEF D!TypeOK

\* The steps of a collection that only read: they change where it is.
LEMMA ReadOnlyType ==
  ASSUME D!TypeOK, NEW c \in Collectors, NEW p \in D!Places, collector' = [collector EXCEPT ![c] = p],
         UNCHANGED <<time, counters, resets, grown, cache, credited, stalled>>,
         overlapped' \subseteq Devices
  PROVE  D!TypeOK'
<1>1. collector' \in [Collectors -> D!Places]
  BY RateMoved
<1> QED
  BY <1>1 DEF D!TypeOK

LEMMA CallType ==
  ASSUME D!TypeOK, NEW c \in Collectors, collector[c].pc # "idle",
         NEW k \in D!Kinds, collector[c].seen[k] \in Nat, NEW first, D!Calculate(c, k, first),
         NEW p \in D!Places, collector' = [collector EXCEPT ![c] = p]
  PROVE  D!TypeOK'
<1>1. collector' \in [Collectors -> D!Places]
  BY RateMoved
<1>2. PICK d \in Devices : d = collector[c].device
  BY RatePlaces DEF D!TypeOK
<1>3. /\ cache' \in [Devices -> D!Entry \cup {NoEntry}]
      /\ \A b \in Devices : cache'[b] # NoEntry => cache'[b].at <= time
      /\ credited' \in [Devices -> [D!ByteKinds -> Nat]]
  BY <1>2, CalculateStep
<1>4. UNCHANGED <<time, counters, resets, grown, overlapped, stalled>>
  BY DEF D!Calculate, D!kernel
<1> QED
  BY <1>1, <1>3, <1>4 DEF D!TypeOK

\* A call: where the collection stands before and after, and of what it is.
IsCall(c, from, to, k, first) == D!Step(c, from, to) /\ D!Calculate(c, k, first)

LEMMA CallMoves ==
  ASSUME D!TypeOK, NEW c \in Collectors, NEW from, NEW to, D!Step(c, from, to),
         \/ from \in {"readRate", "writeRate"} /\ to \in {"writeRate", "stats"}
         \/ from \in {"readIOPS", "writeIOPS"} /\ to \in {"writeIOPS", "getStat"}
  PROVE  \E p \in D!Places :
           /\ collector' = [collector EXCEPT ![c] = p]
           /\ p.pc = to /\ p.device = collector[c].device
<1> DEFINE p == [collector[c] EXCEPT !.pc = to]
<1>1. collector[c] \in D!Places /\ collector[c].pc = from /\ collector' = [collector EXCEPT ![c] = p]
  BY DEF D!TypeOK, D!Step
<1>2. p \in D!Places /\ p.pc = to /\ p.device = collector[c].device
  BY <1>1, RatePlacesMoved
<1> HIDE DEF p
<1> QED
  BY <1>1, <1>2

LEMMA SeenTypes ==
  ASSUME D!TypeOK, NEW c \in Collectors
  PROVE  /\ collector[c] \in D!Places
         /\ collector[c].pc # "idle" => collector[c].device \in Devices
         /\ collector[c].pc \in {"readRate", "writeRate", "stats"} =>
              collector[c].seen["readBytes"] \in Nat /\ collector[c].seen["writeBytes"] \in Nat
         /\ collector[c].pc \in {"readIOPS", "writeIOPS", "getStat", "getTimestamp", "update"} =>
              /\ collector[c].seen["reads"] \in Nat /\ collector[c].seen["writes"] \in Nat
              /\ collector[c].seen["ioTime"] \in Nat
              /\ collector[c].seen \in [D!OpKinds \cup {"ioTime"} -> Nat]
         /\ collector[c].pc \in {"getTimestamp", "update"} => collector[c].prev \in Nat
<1>1. collector[c] \in D!Places
  BY DEF D!TypeOK
<1> QED
  BY <1>1, RatePlaces DEF D!ByteKinds, D!OpKinds
LEMMA RateTypeInit == D!Init => D!TypeOK
<1> SUFFICES ASSUME D!Init PROVE D!TypeOK
  OBVIOUS
<1>1. time \in 0..MaxTime /\ resets \in 0..MaxResets
  BY CacheAssumption, RatesAssumption DEF D!Init
<1>2. counters \in [Devices -> D!Counts] /\ grown \in [Devices -> D!Counts]
  <2>1. \A n \in 0..1 : [k \in D!Kinds |-> IF k \in Growing THEN n ELSE 0] \in D!Counts
    BY DEF D!Counts
  <2>2. {[k \in D!Kinds |-> IF k \in Growing THEN n ELSE 0] : n \in 0..1} \subseteq D!Counts
    BY <2>1
  <2>3. D!Zeros \in D!Counts
    BY DEF D!Zeros, D!Counts
  <2> QED
    BY <2>2, <2>3 DEF D!Init
<1>3. cache \in [Devices -> D!Entry \cup {NoEntry}] /\ \A d \in Devices : cache[d] = NoEntry
  BY DEF D!Init
<1>4. collector \in [Collectors -> D!Places]
  BY DEF D!Init, D!Places
<1>5. credited \in [Devices -> [D!ByteKinds -> Nat]] /\ overlapped = {} /\ stalled = {}
  BY DEF D!Init
<1> QED
  BY <1>1, <1>2, <1>3, <1>4, <1>5 DEF D!TypeOK

\* The kernel, the clock and the cleanup.
LEMMA WorldType ==
  ASSUME D!TypeOK,
         D!Tick \/ D!Cleanup \/ \E d \in Devices : D!Reattach(d) \/ \E k \in Growing : D!Grow(d, k)
  PROVE  D!TypeOK'
<1>1. CASE D!Tick
  <2>1. time' \in 0..MaxTime /\ \A d \in Devices : cache[d] # NoEntry => cache[d].at <= time'
    <3>1. \A d \in Devices : cache[d] # NoEntry => cache[d].at \in Nat /\ cache[d].at <= time
      BY DEF D!TypeOK, D!Entry
    <3> QED
      BY <1>1, <3>1, CacheAssumption DEF D!TypeOK, D!Tick
  <2> QED
    BY <1>1, <2>1 DEF D!TypeOK, D!Tick, D!kernel, D!ghosts
<1>2. CASE D!Cleanup
  <2>1. cache' \in [Devices -> D!Entry \cup {NoEntry}] /\ \A d \in Devices : cache'[d] \in {cache[d], NoEntry}
    BY <1>2 DEF D!TypeOK, D!Cleanup
  <2>2. stalled' \subseteq Devices
    BY <1>2 DEF D!TypeOK, D!Cleanup
  <2> QED
    BY <1>2, <2>1, <2>2 DEF D!TypeOK, D!Cleanup, D!kernel
<1>3. ASSUME NEW d \in Devices, D!Reattach(d) PROVE D!TypeOK'
  <2>1. resets' \in 0..MaxResets
    BY <1>3, RatesAssumption DEF D!TypeOK, D!Reattach
  <2>2. counters' \in [Devices -> D!Counts]
    BY <1>3 DEF D!TypeOK, D!Reattach, D!Zeros, D!Counts
  <2> QED
    BY <1>3, <2>1, <2>2 DEF D!TypeOK, D!Reattach, D!ghosts
<1>4. ASSUME NEW d \in Devices, NEW k \in Growing, D!Grow(d, k) PROVE D!TypeOK'
  <2>1. counters[d] \in [D!Kinds -> Nat] /\ grown[d] \in [D!Kinds -> Nat] /\ k \in D!Kinds
    BY RatesAssumption DEF D!TypeOK, D!Counts
  <2>2. [counters[d] EXCEPT ![k] = counters[d][k] + 1] \in D!Counts /\ [grown[d] EXCEPT ![k] = grown[d][k] + 1] \in D!Counts
    BY <2>1 DEF D!Counts
  <2>3. /\ counters' = [counters EXCEPT ![d] = [counters[d] EXCEPT ![k] = counters[d][k] + 1]]
        /\ grown' = [grown EXCEPT ![d] = [grown[d] EXCEPT ![k] = grown[d][k] + 1]]
    BY <1>4 DEF D!Grow
  <2>4. counters' \in [Devices -> D!Counts] /\ grown' \in [Devices -> D!Counts]
    BY <2>2, <2>3 DEF D!TypeOK
  <2> QED
    BY <1>4, <2>4 DEF D!TypeOK, D!Grow, D!ghosts
<1> QED
  BY <1>1, <1>2, <1>3, <1>4

LEMMA CollectingType ==
  ASSUME D!TypeOK, NEW c \in Collectors, (\E d \in Devices : D!Begin(c, d)) \/ D!Collecting(c)
  PROVE  D!TypeOK'
<1>1. ASSUME NEW d \in Devices, D!Begin(c, d) PROVE D!TypeOK'
  <2> DEFINE p == [pc |-> "readRate", device |-> d, seen |-> D!Sample(d, D!ByteKinds)]
  <2>1. D!Sample(d, D!ByteKinds) \in [D!ByteKinds -> Nat]
    BY DEF D!TypeOK, D!Counts, D!Sample, D!ByteKinds, D!Kinds
  <2>2. p \in D!Places
    BY <2>1 DEF D!Places
  <2>3. collector' = [collector EXCEPT ![c] = p] /\ overlapped' \subseteq Devices
    BY <1>1 DEF D!Begin, D!TypeOK
  <2>4. collector' \in [Collectors -> D!Places]
    <3> HIDE DEF p
    <3> QED
      BY <2>2, <2>3, RateMoved DEF D!TypeOK
  <2> QED
    BY <1>1, <2>3, <2>4 DEF D!Begin, D!TypeOK, D!kernel
<1>2. ASSUME NEW from, NEW to, NEW k \in D!Kinds, NEW first, IsCall(c, from, to, k, first), from # "idle",
             collector[c].seen[k] \in Nat,
             \/ from \in {"readRate", "writeRate"} /\ to \in {"writeRate", "stats"}
             \/ from \in {"readIOPS", "writeIOPS"} /\ to \in {"writeIOPS", "getStat"}
      PROVE  D!TypeOK'
  <2>1. PICK p \in D!Places : collector' = [collector EXCEPT ![c] = p]
    BY <1>2, CallMoves DEF IsCall
  <2> QED
    BY <1>2, <2>1, CallType DEF IsCall, D!Step
<1>3. CASE D!ReadRate(c) \/ D!WriteRate(c) \/ D!ReadIOPS(c) \/ D!WriteIOPS(c)
  <2>1. {"readBytes", "writeBytes", "reads", "writes"} \subseteq D!Kinds
    BY DEF D!Kinds
  <2> QED
    BY <1>2, <1>3, <2>1, SeenTypes DEF IsCall, D!ReadRate, D!WriteRate, D!ReadIOPS, D!WriteIOPS, D!Step
<1>4. CASE D!ReadDiskStats(c)
  <2>1. PICK d \in Devices : d = collector[c].device
    BY <1>4, SeenTypes DEF D!ReadDiskStats
  <2> DEFINE seen == D!Sample(d, D!OpKinds \cup {"ioTime"})
  <2>2. seen \in [D!OpKinds \cup {"ioTime"} -> Nat]
    BY DEF D!TypeOK, D!Counts, D!Sample, D!OpKinds, D!Kinds
  <2>3. D!Idle \in D!Places
    BY DEF D!Places
  <2>4. CASE collector' = [collector EXCEPT ![c] = D!Idle]
    <3>1. collector' \in [Collectors -> D!Places]
      BY <2>3, <2>4 DEF D!TypeOK
    <3> QED
      BY <1>4, <3>1 DEF D!TypeOK, D!ReadDiskStats, D!kernel, D!ghosts
  <2>5. CASE collector' = [collector EXCEPT ![c].pc = "readIOPS", ![c].seen = seen]
    <3>1. collector[c] \in [pc : {"stats"}, device : Devices, seen : [D!ByteKinds -> Nat]]
      BY <1>4 DEF D!TypeOK, D!Places, D!Idle, D!ReadDiskStats
    <3>2. collector' = [collector EXCEPT ![c] = [[collector[c] EXCEPT !.pc = "readIOPS"] EXCEPT !.seen = seen]]
      BY <2>5 DEF D!TypeOK
    <3>3. [[collector[c] EXCEPT !.pc = "readIOPS"] EXCEPT !.seen = seen] \in D!Places
      BY <2>2, <3>1, RatePlacesSampled
    <3>4. collector' \in [Collectors -> D!Places]
      <4> HIDE DEF seen
      <4> QED
        BY <3>2, <3>3 DEF D!TypeOK
    <3> QED
      BY <1>4, <3>4 DEF D!TypeOK, D!ReadDiskStats, D!kernel, D!ghosts
  <2> QED
    BY <1>4, <2>1, <2>4, <2>5 DEF D!ReadDiskStats
<1>5. CASE D!GetDiskStat(c) \/ D!GetDiskStatTimestamp(c) \/ D!UpdateDiskStat(c)
  <2>1. collector[c].device \in Devices /\ collector[c].seen \in [D!OpKinds \cup {"ioTime"} -> Nat]
    BY <1>5, SeenTypes DEF D!GetDiskStat, D!GetDiskStatTimestamp, D!UpdateDiskStat
  <2>2. PICK d \in Devices : d = collector[c].device
    BY <2>1
  <2>3. /\ cache[d] # NoEntry => cache[d].val["ioTime"] \in Nat /\ cache[d].at \in Nat /\ cache[d].at <= time
        /\ time \in Nat
    BY CacheAssumption DEF D!TypeOK, D!Entry, D!Counts, D!Kinds
  <2>4. CASE D!GetDiskStat(c)
    <3> DEFINE p == [pc |-> "getTimestamp", device |-> d, seen |-> collector[c].seen,
                     prev |-> IF cache[d] = NoEntry THEN 0 ELSE cache[d].val["ioTime"]]
    <3>1. p \in D!Places
      BY <2>1, <2>3 DEF D!Places
    <3>2. collector' = [collector EXCEPT ![c] = p]
      BY <2>2, <2>4 DEF D!GetDiskStat, D!TypeOK
    <3>3. collector' \in [Collectors -> D!Places]
      <4> HIDE DEF p
      <4> QED
        BY <3>1, <3>2 DEF D!TypeOK
    <3> QED
      BY <2>4, <3>3 DEF D!TypeOK, D!GetDiskStat, D!kernel, D!ghosts
  <2>5. CASE D!GetDiskStatTimestamp(c)
    <3> DEFINE p == [pc |-> "update", device |-> d, seen |-> collector[c].seen, prev |-> collector[c].prev,
                     interval |-> IF cache[d] = NoEntry THEN 0 ELSE time - cache[d].at]
    <3>1. collector[c].prev \in Nat
      BY <2>5, SeenTypes DEF D!GetDiskStatTimestamp
    <3>2. p \in D!Places
      BY <2>1, <2>3, <3>1 DEF D!Places
    <3>3. collector' = [collector EXCEPT ![c] = p]
      BY <2>2, <2>5 DEF D!GetDiskStatTimestamp, D!TypeOK
    <3>4. collector' \in [Collectors -> D!Places]
      <4> HIDE DEF p
      <4> QED
        BY <3>2, <3>3 DEF D!TypeOK
    <3> QED
      BY <2>5, <3>4 DEF D!TypeOK, D!GetDiskStatTimestamp, D!kernel, D!ghosts
  <2>6. CASE D!UpdateDiskStat(c)
    <3>1. collector[c].seen["ioTime"] \in Nat
      BY <2>6, SeenTypes DEF D!UpdateDiskStat
    <3> DEFINE new == D!Updated(cache[d], "ioTime", collector[c].seen["ioTime"])
    <3> DEFINE old == IF cache[d] = NoEntry THEN D!Zeros ELSE cache[d].val
               val == [old EXCEPT !["ioTime"] = collector[c].seen["ioTime"]]
    <3>2. new \in D!Entry /\ new.at <= time
      <4>1. old \in D!Counts
        BY DEF D!TypeOK, D!Entry, D!Zeros, D!Counts
      <4>2. val \in D!Counts
        <5> HIDE DEF old
        <5> QED
          BY <3>1, <4>1 DEF D!Counts
      <4>3. new = [val |-> val, at |-> time]
        BY DEF D!Updated
      <4> HIDE DEF val, new
      <4> QED
        BY <2>3, <4>2, <4>3 DEF D!Entry
    <3>3. cache' = [cache EXCEPT ![d] = new] /\ collector' = [collector EXCEPT ![c] = D!Idle]
      BY <2>2, <2>6 DEF D!UpdateDiskStat, D!TypeOK
    <3> HIDE DEF new
    <3>4. /\ cache' \in [Devices -> D!Entry \cup {NoEntry}]
          /\ \A b \in Devices : cache'[b] # NoEntry => cache'[b].at <= time
      BY <3>2, <3>3 DEF D!TypeOK
    <3>5. collector' \in [Collectors -> D!Places]
      BY <3>3 DEF D!TypeOK, D!Places
    <3> QED
      BY <2>6, <3>4, <3>5 DEF D!TypeOK, D!UpdateDiskStat, D!kernel, D!ghosts
  <2> QED
    BY <1>5, <2>4, <2>5, <2>6
<1> QED
  BY <1>1, <1>3, <1>4, <1>5 DEF D!Collecting
-----------------------------------------------------------------------------
(***************************************************************************)
(* The rates: no byte is reported twice.                                   *)
(***************************************************************************)
LEMMA DeviceTypes ==
  ASSUME D!TypeOK, NEW d \in Devices
  PROVE  /\ counters[d]["readBytes"] \in Nat /\ grown[d]["readBytes"] \in Nat
         /\ credited[d]["readBytes"] \in Nat /\ cache[d] \in D!Entry \cup {NoEntry}
         /\ cache[d] # NoEntry => cache[d].val["readBytes"] \in Nat
         /\ \A sample \in Nat : D!Claim(d, sample) \in Nat /\ D!Since(d, sample) \in Nat
         /\ D!TicksPerSecond \in Nat
<1>1. counters[d] \in D!Counts /\ grown[d] \in D!Counts /\ credited[d] \in [D!ByteKinds -> Nat]
      /\ cache[d] \in D!Entry \cup {NoEntry}
  BY DEF D!TypeOK
<1>2. cache[d] # NoEntry => cache[d].val["readBytes"] \in Nat
  BY <1>1 DEF D!Entry, D!Counts, D!Kinds
<1>3. counters[d]["readBytes"] \in Nat /\ grown[d]["readBytes"] \in Nat /\ credited[d]["readBytes"] \in Nat
  BY <1>1 DEF D!Counts, D!Kinds, D!ByteKinds
<1>4. ASSUME NEW sample \in Nat PROVE D!Claim(d, sample) \in Nat /\ D!Since(d, sample) \in Nat
  BY <1>2, <1>3 DEF D!Claim, D!Since
<1>5. D!TicksPerSecond \in Nat
  BY RatesAssumption DEF D!TicksPerSecond
<1> QED
  BY <1>1, <1>2, <1>3, <1>4, <1>5

LEMMA SampledBytes ==
  ASSUME D!TypeOK, NEW d \in Devices, NEW c \in D!Sampling(d)
  PROVE  collector[c].seen["readBytes"] \in Nat
  BY SeenTypes DEF D!Sampling, D!Busy

\* What covers more bytes covers fewer; more bytes read cover as many more.
LEMMA CoversLess ==
  ASSUME NEW credit \in Nat, NEW read \in Nat, NEW T \in Nat, NEW more \in Nat, NEW less \in Nat,
         credit + more * T <= read * T, less <= more
  PROVE  credit + less * T <= read * T
<1>1. less * T <= more * T /\ less * T \in Nat /\ more * T \in Nat /\ read * T \in Nat
  OBVIOUS
<1> QED
  BY <1>1

LEMMA CoversGrowth ==
  ASSUME NEW credit \in Nat, NEW read \in Nat, NEW T \in Nat, NEW bytes \in Nat, NEW more \in Nat,
         credit + bytes * T <= read * T, more <= bytes + 1
  PROVE  credit + more * T <= (read + 1) * T
<1>1. (bytes + 1) * T = bytes * T + T /\ (read + 1) * T = read * T + T
  OBVIOUS
<1>2. more * T <= (bytes + 1) * T /\ more * T \in Nat /\ bytes * T \in Nat /\ read * T \in Nat
  OBVIOUS
<1> QED
  BY <1>1, <1>2

LEMMA CoversClaim ==
  ASSUME NEW credit \in Nat, NEW read \in Nat, NEW T \in Nat, NEW claim \in Nat, NEW since \in Nat,
         NEW gain \in Nat, gain <= claim * T, credit + (claim + since) * T <= read * T
  PROVE  (credit + gain) + since * T <= read * T
<1>1. (claim + since) * T = claim * T + since * T /\ claim * T \in Nat /\ since * T \in Nat /\ read * T \in Nat
  OBVIOUS
<1> QED
  BY <1>1

\* Steps that leave what a device has read, what was claimed of it, and its
\* entry's sample as they are.
LEMMA ReadsUntouched ==
  ASSUME NEW d \in Devices, D!ReadsCovered(d),
         D!Busy(d)' \subseteq D!Busy(d), D!Sampling(d)' = D!Sampling(d),
         \A c \in D!Sampling(d) : collector'[c] = collector[c],
         cache'[d] = NoEntry <=> cache[d] = NoEntry,
         cache[d] # NoEntry => cache'[d].val["readBytes"] = cache[d].val["readBytes"],
         counters'[d]["readBytes"] = counters[d]["readBytes"],
         grown'[d]["readBytes"] = grown[d]["readBytes"],
         credited'[d]["readBytes"] = credited[d]["readBytes"]
  PROVE  D!ReadsCovered(d)'
<1>1. \A sample : D!Claim(d, sample)' = D!Claim(d, sample) /\ D!Since(d, sample)' = D!Since(d, sample)
  BY DEF D!Claim, D!Since
<1>2. \A bytes : D!Covered(d, bytes)' <=> D!Covered(d, bytes)
  BY DEF D!Covered, D!TicksPerSecond
<1>3. /\ \A c, b \in D!Busy(d)' : c = b
      /\ \A c \in D!Busy(d)' \ D!Sampling(d)' : cache'[d] # NoEntry
  BY DEF D!ReadsCovered
<1>4. ASSUME D!Sampling(d)' = {} PROVE D!Covered(d, D!Claim(d, counters[d]["readBytes"]))'
  <2>1. PICK n : n = counters[d]["readBytes"] /\ n = counters'[d]["readBytes"]
    OBVIOUS
  <2>2. PICK m : m = D!Claim(d, n)
    OBVIOUS
  <2>3. D!Covered(d, m)
    BY <1>4, <2>1, <2>2 DEF D!ReadsCovered
  <2>4. D!Covered(d, m)' /\ m = D!Claim(d, n)'
    BY <1>1, <1>2, <2>2, <2>3
  <2> QED
    BY <2>1, <2>4 DEF D!Covered, D!Claim
<1>5. ASSUME NEW c \in D!Sampling(d)
      PROVE  D!Covered(d, D!Claim(d, collector[c].seen["readBytes"]) + D!Since(d, collector[c].seen["readBytes"]))'
  <2>1. PICK n : n = collector[c].seen["readBytes"] /\ n = collector'[c].seen["readBytes"]
    OBVIOUS
  <2>2. PICK m : m = D!Claim(d, n) + D!Since(d, n)
    OBVIOUS
  <2>3. D!Covered(d, m)
    BY <2>1, <2>2 DEF D!ReadsCovered
  <2>4. D!Covered(d, m)' /\ m = (D!Claim(d, n) + D!Since(d, n))'
    BY <1>1, <1>2, <2>2, <2>3
  <2> QED
    BY <2>1, <2>4 DEF D!Covered, D!Claim, D!Since
<1> QED
  BY <1>3, <1>4, <1>5 DEF D!ReadsCovered
\* A collection that is not sampling d, and does not come to, moves.
LEMMA OthersSampling ==
  ASSUME D!TypeOK, NEW d \in Devices, NEW c \in Collectors, NEW p \in D!Places,
         collector' = [collector EXCEPT ![c] = p], c \notin D!Sampling(d),
         ~(p.pc = "readRate" /\ p.device = d),
         p.pc # "idle" /\ p.device = d => c \in D!Busy(d)
  PROVE  /\ D!Busy(d)' \subseteq D!Busy(d) /\ D!Sampling(d)' = D!Sampling(d)
         /\ \A b \in D!Sampling(d) : collector'[b] = collector[b]
<1>1. /\ collector'[c] = p
      /\ \A b \in Collectors : b # c => collector'[b] = collector[b]
  BY RateMoved
<1>2. p.pc = "readRate" => p.pc # "idle"
  OBVIOUS
<1> QED
  BY <1>1, <1>2 DEF D!Busy, D!Sampling

\* A step that leaves what a device has read, what was claimed of it, and its
\* entry's sample as they are.
ReadsKept(d) ==
  /\ D!Busy(d)' \subseteq D!Busy(d) /\ D!Sampling(d)' = D!Sampling(d)
  /\ \A c \in D!Sampling(d) : collector'[c] = collector[c]
  /\ cache'[d] = NoEntry <=> cache[d] = NoEntry
  /\ cache[d] # NoEntry => cache'[d].val["readBytes"] = cache[d].val["readBytes"]
  /\ counters'[d]["readBytes"] = counters[d]["readBytes"]
  /\ grown'[d]["readBytes"] = grown[d]["readBytes"]
  /\ credited'[d]["readBytes"] = credited[d]["readBytes"]

\* The entry of a collection that has made its first call.
EntryStays(d) == \A c \in D!Busy(d) \ D!Sampling(d) : cache[d] # NoEntry

\* Calls for the other counters.
LEMMA CallKeepsReads ==
  ASSUME D!TypeOK, NEW d \in Devices, EntryStays(d), NEW c \in Collectors,
         NEW from, NEW to, NEW k \in D!Kinds, NEW first, IsCall(c, from, to, k, first),
         k # "readBytes", collector[c].seen[k] \in Nat,
         \/ from = "writeRate" /\ to = "stats"
         \/ from \in {"readIOPS", "writeIOPS"} /\ to \in {"writeIOPS", "getStat"}
  PROVE  ReadsKept(d)
<1>1. collector[c].pc = from /\ D!Calculate(c, k, first)
  BY DEF IsCall, D!Step
<1>2. PICK p \in D!Places :
        collector' = [collector EXCEPT ![c] = p] /\ p.pc = to /\ p.device = collector[c].device
  BY CallMoves DEF IsCall
<1>3. /\ D!Busy(d)' \subseteq D!Busy(d) /\ D!Sampling(d)' = D!Sampling(d)
      /\ \A b \in D!Sampling(d) : collector'[b] = collector[b]
  <2>1. c \notin D!Sampling(d) /\ p.pc # "readRate" /\ (p.device = d => c \in D!Busy(d))
    BY <1>1, <1>2 DEF D!Sampling, D!Busy
  <2> QED
    BY <1>2, <2>1, OthersSampling
<1>4. PICK b \in Devices : b = collector[c].device
  BY <1>1, SeenTypes
<1>5. /\ cache'[b] = D!Sampled(cache[b], k, collector[c].seen[k], first)
      /\ \A e \in Devices : e # b => cache'[e] = cache[e]
      /\ credited'[d]["readBytes"] = credited[d]["readBytes"]
  <2>1. "readBytes" \in D!ByteKinds
    BY DEF D!ByteKinds
  <2> QED
    BY <1>1, <1>4, <2>1, CalculateStep
<1>6. /\ cache'[d] = NoEntry <=> cache[d] = NoEntry
      /\ cache[d] # NoEntry => cache'[d].val["readBytes"] = cache[d].val["readBytes"]
  <2>1. CASE b # d
    BY <1>5, <2>1
  <2>2. CASE b = d
    <3>1. c \in D!Busy(d) \ D!Sampling(d)
      BY <1>1, <1>4, <2>2 DEF D!Sampling, D!Busy
    <3>2. cache[d] # NoEntry /\ cache[d] \in D!Entry /\ cache[d].at <= time /\ time \in Nat
      BY <3>1, CacheAssumption DEF EntryStays, D!TypeOK
    <3>3. "readBytes" \in D!Kinds
      BY DEF D!Kinds
    <3>4. \A entry \in D!Entry, current \in Nat : entry # NoEntry /\ entry.at <= time =>
            /\ D!Sampled(entry, k, current, first) # NoEntry
            /\ D!Sampled(entry, k, current, first).val["readBytes"] = entry.val["readBytes"]
      BY <3>2, <3>3, SampledEntry
    <3> QED
      BY <1>5, <2>2, <3>2, <3>4
  <2> QED
    BY <2>1, <2>2
<1>7. UNCHANGED <<counters, grown>>
  BY <1>1 DEF D!Calculate, D!kernel
<1> QED
  BY <1>3, <1>5, <1>6, <1>7 DEF ReadsKept

\* The world: growth, resets, expiry.
LEMMA WorldCovers ==
  ASSUME D!TypeOK, NEW d \in Devices, D!ReadsCovered(d), d \notin stalled',
         D!Tick \/ D!Cleanup \/ \E b \in Devices : D!Reattach(b) \/ \E k \in Growing : D!Grow(b, k)
  PROVE  D!ReadsCovered(d)'
<1>1. CASE D!Tick
  BY <1>1, ReadsUntouched DEF D!Tick, D!kernel, D!ghosts, D!Busy, D!Sampling
<1> DEFINE T == D!TicksPerSecond
           sample == counters[d]["readBytes"]
<1>t. /\ credited[d]["readBytes"] \in Nat /\ grown[d]["readBytes"] \in Nat /\ T \in Nat /\ sample \in Nat
      /\ \A n \in Nat : D!Claim(d, n) \in Nat /\ D!Since(d, n) \in Nat
      /\ cache[d] # NoEntry => cache[d].val["readBytes"] \in Nat
  BY DeviceTypes
<1>s. \A c \in D!Sampling(d) : collector[c].seen["readBytes"] \in Nat
  BY SampledBytes
<1>2. CASE D!Cleanup
  <2>1. CASE cache'[d] = cache[d]
    BY <1>2, <2>1, ReadsUntouched DEF D!Cleanup, D!kernel, D!Busy, D!Sampling
  <2>2. CASE cache'[d] # cache[d]
    <3>1. cache'[d] = NoEntry /\ D!Busy(d) = {}
      BY <1>2, <2>2 DEF D!Cleanup
    <3>2. D!Busy(d)' = {} /\ D!Sampling(d)' = {} /\ D!Sampling(d) = {}
      BY <1>2, <3>1 DEF D!Cleanup, D!Busy, D!Sampling
    <3>3. credited[d]["readBytes"] + D!Claim(d, sample) * T <= grown[d]["readBytes"] * T
      BY <3>2 DEF D!ReadsCovered, D!Covered
    <3>4. credited[d]["readBytes"] + 0 * T <= grown[d]["readBytes"] * T
      <4> HIDE DEF T, sample
      <4> QED
        BY <1>t, <3>3, CoversLess
    <3>5. D!Covered(d, D!Claim(d, counters[d]["readBytes"]))'
      BY <1>2, <3>1, <3>4 DEF D!Cleanup, D!kernel, D!Covered, D!Claim, D!TicksPerSecond
    <3> QED
      BY <3>2, <3>5 DEF D!ReadsCovered
  <2> QED
    BY <2>1, <2>2
<1>3. ASSUME NEW b \in Devices, D!Reattach(b) PROVE D!ReadsCovered(d)'
  <2>1. CASE b # d
    <3>1. counters'[d] = counters[d]
      BY <1>3, <2>1 DEF D!Reattach, D!TypeOK
    <3> QED
      BY <1>3, <3>1, ReadsUntouched DEF D!Reattach, D!ghosts, D!Busy, D!Sampling
  <2>2. CASE b = d
    <3>1. counters'[d]["readBytes"] = 0
      BY <1>3, <2>2 DEF D!Reattach, D!TypeOK, D!Zeros, D!Kinds
    <3>2. D!Busy(d)' = D!Busy(d) /\ D!Sampling(d)' = D!Sampling(d)
      BY <1>3 DEF D!Reattach, D!Busy, D!Sampling
    <3>3. UNCHANGED <<grown, cache, collector, credited>>
      BY <1>3 DEF D!Reattach, D!ghosts
    <3>4. ASSUME D!Sampling(d)' = {} PROVE D!Covered(d, D!Claim(d, counters[d]["readBytes"]))'
      <4>1. credited[d]["readBytes"] + D!Claim(d, sample) * T <= grown[d]["readBytes"] * T
        BY <3>2, <3>4 DEF D!ReadsCovered, D!Covered
      <4>2. credited[d]["readBytes"] + 0 * T <= grown[d]["readBytes"] * T
        <5> HIDE DEF T, sample
        <5> QED
          BY <1>t, <4>1, CoversLess
      <4>3. D!Claim(d, counters[d]["readBytes"])' = 0
        BY <1>t, <3>1, <3>3 DEF D!Claim
      <4> QED
        BY <3>3, <4>2, <4>3 DEF D!Covered, D!TicksPerSecond
    <3>5. ASSUME NEW c \in D!Sampling(d)
          PROVE  D!Covered(d, D!Claim(d, collector[c].seen["readBytes"]) + D!Since(d, collector[c].seen["readBytes"]))'
      <4>1. PICK n \in Nat : n = collector[c].seen["readBytes"]
        BY <1>s
      <4>2. credited[d]["readBytes"] + (D!Claim(d, n) + D!Since(d, n)) * T <= grown[d]["readBytes"] * T
        BY <4>1 DEF D!ReadsCovered, D!Covered
      <4>3. PICK claim \in Nat : claim = D!Claim(d, n)
        BY <1>t
      <4>4. credited[d]["readBytes"] + claim * T <= grown[d]["readBytes"] * T
        <5>1. claim <= claim + D!Since(d, n) /\ claim + D!Since(d, n) \in Nat
          BY <1>t
        <5> HIDE DEF T
        <5> QED
          BY <1>t, <4>2, <4>3, <5>1, CoversLess
      <4>5. /\ D!Claim(d, collector[c].seen["readBytes"])' = claim
            /\ D!Since(d, collector[c].seen["readBytes"])' = 0
        BY <3>1, <3>3, <4>1, <4>3 DEF D!Claim, D!Since
      <4>6. (D!Claim(d, collector[c].seen["readBytes"]) + D!Since(d, collector[c].seen["readBytes"]))' = claim
        BY <4>5
      <4> QED
        BY <3>3, <4>4, <4>6 DEF D!Covered, D!TicksPerSecond
    <3> QED
      BY <3>2, <3>3, <3>4, <3>5 DEF D!ReadsCovered
  <2> QED
    BY <2>1, <2>2
<1>4. ASSUME NEW b \in Devices, NEW k \in Growing, D!Grow(b, k) PROVE D!ReadsCovered(d)'
  <2>0. counters[d] \in [D!Kinds -> Nat] /\ grown[d] \in [D!Kinds -> Nat]
    BY DEF D!TypeOK, D!Counts
  <2>1. CASE b # d \/ k # "readBytes"
    <3>1. /\ counters'[d]["readBytes"] = counters[d]["readBytes"]
          /\ grown'[d]["readBytes"] = grown[d]["readBytes"]
      BY <1>4, <2>0, <2>1 DEF D!Grow, D!TypeOK, D!Kinds
    <3> QED
      BY <1>4, <3>1, ReadsUntouched DEF D!Grow, D!ghosts, D!Busy, D!Sampling
  <2>2. CASE b = d /\ k = "readBytes"
    <3>1. counters'[d]["readBytes"] = sample + 1 /\ grown'[d]["readBytes"] = grown[d]["readBytes"] + 1
      BY <1>4, <2>0, <2>2 DEF D!Grow, D!TypeOK, D!Kinds
    <3>2. D!Busy(d)' = D!Busy(d) /\ D!Sampling(d)' = D!Sampling(d)
      BY <1>4 DEF D!Grow, D!Busy, D!Sampling
    <3>3. UNCHANGED <<cache, collector, credited>>
      BY <1>4 DEF D!Grow, D!ghosts
    <3>4. ASSUME D!Sampling(d)' = {} PROVE D!Covered(d, D!Claim(d, counters[d]["readBytes"]))'
      <4>1. PICK bytes \in Nat : bytes = D!Claim(d, sample)
        BY <1>t
      <4>2. credited[d]["readBytes"] + bytes * T <= grown[d]["readBytes"] * T
        BY <3>2, <3>4, <4>1 DEF D!ReadsCovered, D!Covered
      <4>3. PICK more : more = D!Claim(d, counters[d]["readBytes"])'
        OBVIOUS
      <4>4. more \in Nat /\ more <= bytes + 1
        BY <1>t, <3>1, <3>3, <4>1, <4>3 DEF D!Claim
      <4>5. credited[d]["readBytes"] + more * T <= (grown[d]["readBytes"] + 1) * T
        <5> HIDE DEF T, sample
        <5> QED
          BY <1>t, <4>2, <4>4, CoversGrowth
      <4> QED
        BY <3>1, <3>3, <4>3, <4>5 DEF D!Covered, D!TicksPerSecond
    <3>5. ASSUME NEW c \in D!Sampling(d)
          PROVE  D!Covered(d, D!Claim(d, collector[c].seen["readBytes"]) + D!Since(d, collector[c].seen["readBytes"]))'
      <4>1. PICK n \in Nat : n = collector[c].seen["readBytes"]
        BY <1>s
      <4>2. PICK bytes \in Nat : bytes = D!Claim(d, n) + D!Since(d, n)
        BY <1>t
      <4>3. credited[d]["readBytes"] + bytes * T <= grown[d]["readBytes"] * T
        BY <4>1, <4>2 DEF D!ReadsCovered, D!Covered
      <4>4. PICK more : more = (D!Claim(d, collector[c].seen["readBytes"]) + D!Since(d, collector[c].seen["readBytes"]))'
        OBVIOUS
      <4>5. more \in Nat /\ more <= bytes + 1
        <5>1. /\ D!Claim(d, collector[c].seen["readBytes"])' = D!Claim(d, n)
              /\ D!Since(d, collector[c].seen["readBytes"])' = IF sample + 1 < n THEN 0 ELSE (sample + 1) - n
          BY <3>1, <3>3, <4>1 DEF D!Claim, D!Since
        <5>2. D!Since(d, n) = IF sample < n THEN 0 ELSE sample - n
          BY DEF D!Since
        <5>3. more = D!Claim(d, n) + IF sample + 1 < n THEN 0 ELSE (sample + 1) - n
          BY <4>4, <5>1
        <5> HIDE DEF sample
        <5> QED
          BY <1>t, <4>2, <5>2, <5>3
      <4>6. credited[d]["readBytes"] + more * T <= (grown[d]["readBytes"] + 1) * T
        <5> HIDE DEF T, sample
        <5> QED
          BY <1>t, <4>3, <4>5, CoversGrowth
      <4> QED
        BY <3>1, <3>3, <4>4, <4>6 DEF D!Covered, D!TicksPerSecond
    <3> QED
      BY <3>2, <3>3, <3>4, <3>5 DEF D!ReadsCovered
  <2> QED
    BY <2>1, <2>2
<1> QED
  BY <1>1, <1>2, <1>3, <1>4
\* A collection takes its sample.
LEMMA BeginCovers ==
  ASSUME D!TypeOK, NEW d \in Devices, D!ReadsCovered(d), d \notin overlapped',
         NEW c \in Collectors, NEW b \in Devices, D!Begin(c, b)
  PROVE  D!ReadsCovered(d)'
<1> DEFINE p == [pc |-> "readRate", device |-> b, seen |-> D!Sample(b, D!ByteKinds)]
<1>1. /\ collector[c].pc = "idle" /\ collector' = [collector EXCEPT ![c] = p]
      /\ UNCHANGED <<counters, grown, cache, credited>>
  BY DEF D!Begin, D!kernel
<1>2. p \in D!Places
  <2>1. D!Sample(b, D!ByteKinds) \in [D!ByteKinds -> Nat]
    BY DEF D!TypeOK, D!Counts, D!Sample, D!ByteKinds, D!Kinds
  <2> QED
    BY <2>1 DEF D!Places
<1>3. p.pc = "readRate" /\ p.device = b /\ p.seen["readBytes"] = counters[b]["readBytes"]
  BY DEF D!Sample, D!ByteKinds
<1> HIDE DEF p
<1>4. CASE b # d
  <2>1. c \notin D!Sampling(d)
    BY <1>1 DEF D!Sampling, D!Busy
  <2>2. /\ D!Busy(d)' \subseteq D!Busy(d) /\ D!Sampling(d)' = D!Sampling(d)
        /\ \A a \in D!Sampling(d) : collector'[a] = collector[a]
    BY <1>1, <1>2, <1>3, <1>4, <2>1, OthersSampling
  <2> QED
    BY <1>1, <2>2, ReadsUntouched
<1>5. CASE b = d
  <2>1. D!Busy(d) = {}
    BY <1>5 DEF D!Begin
  <2>2. D!Busy(d)' = {c} /\ D!Sampling(d)' = {c} /\ collector'[c] = p
    <3>1. collector'[c] = p /\ \A a \in Collectors : a # c => collector'[a] = collector[a]
      BY <1>1, <1>2, RateMoved
    <3> QED
      BY <1>3, <1>5, <2>1, <3>1 DEF D!Busy, D!Sampling
  <2>3. PICK sample \in Nat : sample = counters[d]["readBytes"]
    BY DeviceTypes
  <2>4. D!Covered(d, D!Claim(d, sample))
    BY <2>1, <2>3 DEF D!ReadsCovered, D!Sampling
  <2>5. collector'[c].seen["readBytes"] = sample /\ counters'[d]["readBytes"] = sample
    BY <1>1, <1>3, <1>5, <2>2, <2>3
  <2>6. PICK claim \in Nat : claim = D!Claim(d, sample)
    BY DeviceTypes
  <2>7. /\ D!Claim(d, collector[c].seen["readBytes"])' = claim
        /\ D!Since(d, collector[c].seen["readBytes"])' = 0
    BY <1>1, <2>5, <2>6 DEF D!Claim, D!Since
  <2>8. (D!Claim(d, collector[c].seen["readBytes"]) + D!Since(d, collector[c].seen["readBytes"]))' = claim
    BY <2>7
  <2>9. D!Covered(d, D!Claim(d, collector[c].seen["readBytes"]) + D!Since(d, collector[c].seen["readBytes"]))'
    BY <1>1, <2>4, <2>6, <2>8 DEF D!Covered, D!TicksPerSecond
  <2> QED
    BY <2>2, <2>9 DEF D!ReadsCovered
<1> QED
  BY <1>4, <1>5

\* The call that claims bytes read.
LEMMA ReadRateCovers ==
  ASSUME D!TypeOK, D!TypeOK', NEW d \in Devices, D!ReadsCovered(d), NEW c \in Collectors, D!ReadRate(c)
  PROVE  D!ReadsCovered(d)'
<1>1. /\ collector[c].pc = "readRate" /\ D!Calculate(c, "readBytes", D!ByteKinds)
      /\ UNCHANGED <<time, counters, grown>>
  BY DEF D!ReadRate, D!Step, D!Calculate, D!kernel
<1>2. PICK p \in D!Places :
        collector' = [collector EXCEPT ![c] = p] /\ p.pc = "writeRate" /\ p.device = collector[c].device
  BY CallMoves DEF D!ReadRate
<1>3. PICK b \in Devices : b = collector[c].device
  BY <1>1, SeenTypes
<1>4. "readBytes" \in D!ByteKinds /\ "readBytes" \in D!Kinds
  BY DEF D!ByteKinds, D!Kinds
<1>5. PICK sample \in Nat : sample = collector[c].seen["readBytes"]
  BY <1>1, SeenTypes
<1>6. /\ cache'[b] = D!Sampled(cache[b], "readBytes", sample, D!ByteKinds)
      /\ \A e \in Devices : e # b => cache'[e] = cache[e]
      /\ cache[b] = NoEntry => credited'= credited
      /\ cache[b] # NoEntry =>
           \A e \in Devices, j \in D!ByteKinds :
             credited'[e][j] = IF e = b /\ j = "readBytes"
                               THEN credited[b]["readBytes"] + D!RateOf(cache[b], "readBytes", sample) * (time - cache[b].at)
                               ELSE credited[e][j]
  BY <1>1, <1>3, <1>4, <1>5, CalculateStep
<1>7. CASE b # d
  <2>1. c \notin D!Sampling(d)
    BY <1>3, <1>7 DEF D!Sampling, D!Busy
  <2>2. /\ D!Busy(d)' \subseteq D!Busy(d) /\ D!Sampling(d)' = D!Sampling(d)
        /\ \A a \in D!Sampling(d) : collector'[a] = collector[a]
    BY <1>2, <1>3, <1>7, <2>1, OthersSampling
  <2>3. cache'[d] = cache[d] /\ credited'[d]["readBytes"] = credited[d]["readBytes"]
    BY <1>4, <1>6, <1>7
  <2> QED
    BY <1>1, <2>2, <2>3, ReadsUntouched
<1>8. CASE b = d
  <2> DEFINE T == D!TicksPerSecond
             counted == counters[d]["readBytes"]
             credit == credited[d]["readBytes"]
             read == grown[d]["readBytes"]
  <2>1. c \in D!Busy(d) /\ c \in D!Sampling(d) /\ D!Busy(d) = {c}
    BY <1>1, <1>3, <1>8 DEF D!Busy, D!Sampling, D!ReadsCovered
  <2>2. D!Busy(d)' = {c} /\ D!Sampling(d)' = {}
    <3>1. collector'[c] = p /\ \A a \in Collectors : a # c => collector'[a] = collector[a]
      BY <1>2, RateMoved
    <3> QED
      BY <1>2, <1>3, <1>8, <2>1, <3>1 DEF D!Busy, D!Sampling
  <2>3. /\ credit \in Nat /\ read \in Nat /\ T \in Nat /\ counted \in Nat
        /\ cache[d] \in D!Entry \cup {NoEntry}
        /\ cache[d] # NoEntry => cache[d].val["readBytes"] \in Nat
        /\ \A n \in Nat : D!Claim(d, n) \in Nat /\ D!Since(d, n) \in Nat
    BY DeviceTypes
  <2>4. cache[d] # NoEntry => cache[d].at <= time
    BY DEF D!TypeOK
  <2>5. time \in Nat
    BY CacheAssumption DEF D!TypeOK
  <2>6. PICK claim \in Nat : claim = D!Claim(d, sample)
    BY <2>3
  <2>7. PICK since \in Nat : since = D!Since(d, sample)
    BY <2>3
  <2>8. credit + (claim + since) * T <= read * T
    BY <1>5, <2>1, <2>6, <2>7 DEF D!ReadsCovered, D!Covered
  <2>9. since = IF counted < sample THEN 0 ELSE counted - sample
    BY <2>7 DEF D!Since
  <2>10. PICK more : more = D!Claim(d, counters[d]["readBytes"])'
    OBVIOUS
  <2>11. more = IF cache'[d] = NoEntry \/ counted < cache'[d].val["readBytes"] THEN 0
                ELSE counted - cache'[d].val["readBytes"]
    BY <1>1, <2>10 DEF D!Claim
  <2>12. \A entry \in D!Entry \cup {NoEntry} : (entry # NoEntry => entry.at <= time) =>
           LET s == D!Sampled(entry, "readBytes", sample, D!ByteKinds)
           IN  /\ s # NoEntry
               /\ entry = NoEntry => s.val["readBytes"] = sample
               /\ entry # NoEntry /\ time = entry.at => s = entry
               /\ entry # NoEntry /\ time # entry.at => s.val["readBytes"] = sample
    BY <1>4, <2>5, SampledEntry
  <2>13. /\ cache'[d] # NoEntry
         /\ cache[d] = NoEntry => cache'[d].val["readBytes"] = sample
         /\ cache[d] # NoEntry /\ time = cache[d].at => cache'[d] = cache[d]
         /\ cache[d] # NoEntry /\ time # cache[d].at => cache'[d].val["readBytes"] = sample
    BY <1>6, <1>8, <2>3, <2>4, <2>12
  <2>14. \E gain \in Nat : credited'[d]["readBytes"] = credit + gain /\ (credit + gain) + more * T <= read * T
    <3>1. CASE cache[d] = NoEntry
      <4>1. credited'[d]["readBytes"] = credit + 0
        BY <1>6, <1>8, <2>3, <3>1
      <4>2. more = since /\ since <= claim + since /\ claim + since \in Nat
        BY <2>3, <2>9, <2>11, <2>13, <3>1
      <4>3. credit + since * T <= read * T
        <5> HIDE DEF T, credit, read
        <5> QED
          BY <2>3, <2>8, <4>2, CoversLess
      <4>4. (credit + 0) + more * T <= read * T
        BY <2>3, <4>2, <4>3
      <4> QED
        BY <4>1, <4>4
    <3>2. CASE cache[d] # NoEntry
      <4> DEFINE v == cache[d].val["readBytes"]
                 gain == D!RateOf(cache[d], "readBytes", sample) * (time - cache[d].at)
      <4>1. credited'[d]["readBytes"] = credit + gain
        BY <1>4, <1>6, <1>8, <3>2
      <4>2. /\ gain \in Nat
            /\ time = cache[d].at \/ sample < v => gain = 0
            /\ sample >= v => gain <= (sample - v) * T
        <5>1. \A entry \in D!Entry, n \in Nat : entry.at <= time =>
                /\ D!RateOf(entry, "readBytes", n) * (time - entry.at) \in Nat
                /\ time = entry.at \/ n < entry.val["readBytes"] =>
                     D!RateOf(entry, "readBytes", n) * (time - entry.at) = 0
                /\ n >= entry.val["readBytes"] =>
                     D!RateOf(entry, "readBytes", n) * (time - entry.at) <= (n - entry.val["readBytes"]) * T
          BY <1>4, <2>5, RateClaims, RatesAssumption
        <5> QED
          BY <2>3, <2>4, <3>2, <5>1
      <4>3. claim = IF sample < v THEN 0 ELSE sample - v
        BY <2>6, <3>2 DEF D!Claim
      <4>4. v \in Nat
        BY <2>3, <3>2
      <4> HIDE DEF gain, v, T, credit, read, counted
      <4>5. CASE time = cache[d].at
        <5>1. gain = 0 /\ cache'[d] = cache[d]
          BY <2>13, <3>2, <4>2, <4>5
        <5>2. more = IF counted < v THEN 0 ELSE counted - v
          BY <2>11, <3>2, <5>1 DEF v
        <5>3. more \in Nat /\ more <= claim + since /\ claim + since \in Nat
          BY <2>3, <2>9, <4>3, <4>4, <5>2
        <5>4. credit + more * T <= read * T
          BY <2>3, <2>8, <5>3, CoversLess
        <5>5. (credit + gain) + more * T <= read * T
          BY <2>3, <5>1, <5>4
        <5> QED
          BY <4>1, <4>2, <5>5
      <4>6. CASE time # cache[d].at
        <5>1. more = since
          BY <2>9, <2>11, <2>13, <3>2, <4>6
        <5>2. gain <= claim * T
          <6>1. CASE sample < v
            BY <2>3, <4>2, <4>3, <6>1
          <6>2. CASE ~(sample < v)
            BY <4>2, <4>3, <4>4, <6>2
          <6> QED
            BY <6>1, <6>2
        <5>3. (credit + gain) + since * T <= read * T
          BY <2>3, <2>8, <4>2, <5>2, CoversClaim
        <5> QED
          BY <4>1, <4>2, <5>1, <5>3
      <4> QED
        BY <4>5, <4>6
    <3> QED
      BY <3>1, <3>2
  <2>15. D!Covered(d, D!Claim(d, counters[d]["readBytes"]))'
    BY <1>1, <2>10, <2>14 DEF D!Covered, D!TicksPerSecond
  <2> QED
    BY <2>2, <2>13, <2>15 DEF D!ReadsCovered
<1> QED
  BY <1>7, <1>8
\* The rest of a collection.
LEMMA OtherStepsKeep ==
  ASSUME D!TypeOK, D!TypeOK', NEW d \in Devices, EntryStays(d), NEW c \in Collectors,
         D!Collecting(c), ~D!ReadRate(c)
  PROVE  ReadsKept(d)
<1>1. {"writeBytes", "reads", "writes"} \subseteq D!Kinds
  BY DEF D!Kinds
<1>2. CASE D!WriteRate(c) \/ D!ReadIOPS(c) \/ D!WriteIOPS(c)
  BY <1>1, <1>2, CallKeepsReads, SeenTypes DEF IsCall, D!WriteRate, D!ReadIOPS, D!WriteIOPS, D!Step
<1>3. ASSUME NEW p \in D!Places, collector' = [collector EXCEPT ![c] = p],
             collector[c].pc \notin {"idle", "readRate"}, p.pc # "readRate",
             p.pc # "idle" => p.device = collector[c].device
      PROVE  /\ D!Busy(d)' \subseteq D!Busy(d) /\ D!Sampling(d)' = D!Sampling(d)
             /\ \A a \in D!Sampling(d) : collector'[a] = collector[a]
  <2>1. c \notin D!Sampling(d) /\ (p.pc # "idle" /\ p.device = d => c \in D!Busy(d))
    BY <1>3 DEF D!Sampling, D!Busy
  <2> QED
    BY <1>3, <2>1, OthersSampling
<1>4. CASE D!ReadDiskStats(c) \/ D!GetDiskStat(c) \/ D!GetDiskStatTimestamp(c) \/ D!UpdateDiskStat(c)
  <2>1. PICK p \in D!Places :
          /\ collector' = [collector EXCEPT ![c] = p] /\ p.pc # "readRate"
          /\ p.pc # "idle" => p.device = collector[c].device
    <3>1. PICK p : p = collector'[c]
      OBVIOUS
    <3>2. p \in D!Places
      BY <3>1 DEF D!TypeOK
    <3>3. collector' = [collector EXCEPT ![c] = p]
      BY <1>4, <3>1 DEF D!TypeOK, D!ReadDiskStats, D!GetDiskStat, D!GetDiskStatTimestamp, D!UpdateDiskStat
    <3>4. p.pc # "readRate" /\ (p.pc # "idle" => p.device = collector[c].device)
      <4>1. D!Idle.pc = "idle"
        BY DEF D!Idle
      <4>2. CASE D!ReadDiskStats(c)
        <5>1. CASE collector' = [collector EXCEPT ![c] = D!Idle]
          BY <3>1, <4>1, <5>1 DEF D!TypeOK
        <5>2. CASE collector' = [collector EXCEPT ![c].pc = "readIOPS",
                     ![c].seen = D!Sample(collector[c].device, D!OpKinds \cup {"ioTime"})]
          <6>1. collector[c] \in [pc : {"stats"}, device : Devices, seen : [D!ByteKinds -> Nat]]
            BY <4>2, SeenTypes, StatsPlace DEF D!ReadDiskStats
          <6>2. p = [[collector[c] EXCEPT !.pc = "readIOPS"]
                       EXCEPT !.seen = D!Sample(collector[c].device, D!OpKinds \cup {"ioTime"})]
            BY <3>1, <5>2 DEF D!TypeOK
          <6>3. p.pc = "readIOPS" /\ p.device = collector[c].device
            BY <6>1, <6>2
          <6> QED
            BY <6>3
        <5> QED
          BY <4>2, <5>1, <5>2 DEF D!ReadDiskStats
      <4>3. CASE D!GetDiskStat(c) \/ D!GetDiskStatTimestamp(c) \/ D!UpdateDiskStat(c)
        BY <3>1, <4>1, <4>3 DEF D!TypeOK, D!GetDiskStat, D!GetDiskStatTimestamp, D!UpdateDiskStat
      <4> QED
        BY <1>4, <4>2, <4>3
    <3> QED
      BY <3>2, <3>3, <3>4
  <2>2. collector[c].pc \notin {"idle", "readRate"}
    BY <1>4 DEF D!ReadDiskStats, D!GetDiskStat, D!GetDiskStatTimestamp, D!UpdateDiskStat
  <2>3. /\ D!Busy(d)' \subseteq D!Busy(d) /\ D!Sampling(d)' = D!Sampling(d)
        /\ \A a \in D!Sampling(d) : collector'[a] = collector[a]
    BY <1>3, <2>1, <2>2
  <2>4. UNCHANGED <<counters, grown, credited>>
    BY <1>4 DEF D!ReadDiskStats, D!GetDiskStat, D!GetDiskStatTimestamp, D!UpdateDiskStat, D!kernel, D!ghosts
  <2>5. CASE D!ReadDiskStats(c) \/ D!GetDiskStat(c) \/ D!GetDiskStatTimestamp(c)
    <3>1. cache' = cache
      BY <2>5 DEF D!ReadDiskStats, D!GetDiskStat, D!GetDiskStatTimestamp
    <3> QED
      BY <2>3, <2>4, <3>1 DEF ReadsKept
  <2>6. CASE D!UpdateDiskStat(c)
    <3>1. PICK b \in Devices : b = collector[c].device
      BY <2>6, SeenTypes DEF D!UpdateDiskStat
    <3> DEFINE new == D!Updated(cache[b], "ioTime", collector[c].seen["ioTime"])
    <3>2. cache' = [cache EXCEPT ![b] = new]
      BY <2>6, <3>1 DEF D!UpdateDiskStat, D!TypeOK
    <3>3. cache'[b] = new /\ \A e \in Devices : e # b => cache'[e] = cache[e]
      BY <3>2 DEF D!TypeOK
    <3>4. /\ cache'[d] = NoEntry <=> cache[d] = NoEntry
          /\ cache[d] # NoEntry => cache'[d].val["readBytes"] = cache[d].val["readBytes"]
      <4>1. CASE b # d
        BY <3>3, <4>1
      <4>2. CASE b = d
        <5>1. c \in D!Busy(d) \ D!Sampling(d)
          BY <2>6, <3>1, <4>2 DEF D!UpdateDiskStat, D!Sampling, D!Busy
        <5>2. cache[d] # NoEntry /\ cache[d] \in D!Entry /\ cache'[d] \in D!Entry \cup {NoEntry}
          BY <5>1 DEF EntryStays, D!TypeOK
        <5>3. cache[d].val \in [D!Kinds -> Nat]
          BY <5>2 DEF D!Entry, D!Counts
        <5>4. new = [val |-> [cache[d].val EXCEPT !["ioTime"] = collector[c].seen["ioTime"]], at |-> time]
          BY <4>2, <5>2 DEF D!Updated
        <5>5. new.val["readBytes"] = cache[d].val["readBytes"]
          BY <5>3, <5>4 DEF D!Kinds
        <5>6. new # NoEntry
          <6>1. collector[c].seen["ioTime"] \in Nat /\ time \in Nat
            BY <2>6, SeenTypes, CacheAssumption DEF D!UpdateDiskStat, D!TypeOK
          <6>2. [cache[d].val EXCEPT !["ioTime"] = collector[c].seen["ioTime"]] \in D!Counts
            BY <5>3, <6>1 DEF D!Counts
          <6>3. new \in D!Entry
            BY <5>4, <6>1, <6>2 DEF D!Entry
          <6> QED
            BY <6>3, RatesAssumption
        <5> QED
          BY <3>3, <4>2, <5>2, <5>5, <5>6
      <4> QED
        BY <4>1, <4>2
    <3> HIDE DEF new
    <3> QED
      BY <2>3, <2>4, <3>4 DEF ReadsKept
  <2> QED
    BY <1>4, <2>5, <2>6
<1> QED
  BY <1>2, <1>4 DEF D!Collecting

LEMMA OtherStepsCover ==
  ASSUME D!TypeOK, D!TypeOK', NEW d \in Devices, D!ReadsCovered(d), NEW c \in Collectors,
         D!Collecting(c), ~D!ReadRate(c)
  PROVE  D!ReadsCovered(d)'
<1>1. EntryStays(d)
  BY DEF EntryStays, D!ReadsCovered
<1>2. ReadsKept(d)
  BY <1>1, OtherStepsKeep
<1> QED
  BY <1>2, ReadsUntouched DEF ReadsKept

LEMMA ReadsInit == D!Init => D!ReadsInv
<1> SUFFICES ASSUME D!Init, NEW d \in Devices PROVE D!ReadsCovered(d)
  BY DEF D!ReadsInv
<1>1. D!TypeOK
  BY RateTypeInit
<1>2. D!Busy(d) = {} /\ D!Sampling(d) = {}
  BY DEF D!Init, D!Idle, D!Busy, D!Sampling
<1>3. cache[d] = NoEntry /\ credited[d]["readBytes"] = 0 /\ grown[d]["readBytes"] = 0
  BY DEF D!Init, D!Zeros, D!ByteKinds, D!Kinds
<1>4. D!Claim(d, counters[d]["readBytes"]) = 0
  BY <1>3 DEF D!Claim
<1>5. D!TicksPerSecond \in Nat
  BY <1>1, DeviceTypes
<1>6. D!Covered(d, D!Claim(d, counters[d]["readBytes"]))
  BY <1>3, <1>4, <1>5 DEF D!Covered
<1> QED
  BY <1>2, <1>6 DEF D!ReadsCovered

LEMMA RatesNext ==
  ASSUME D!TypeOK, D!ReadsInv, D!Next
  PROVE  D!TypeOK' /\ D!ReadsInv'
<1>1. D!TypeOK'
  BY WorldType, CollectingType DEF D!Next
<1>2. ASSUME NEW d \in Devices, d \notin stalled', d \notin overlapped' PROVE D!ReadsCovered(d)'
  <2>1. CASE D!Tick \/ D!Cleanup \/ \E b \in Devices : D!Reattach(b) \/ \E k \in Growing : D!Grow(b, k)
    <3>1. stalled \subseteq stalled' /\ overlapped \subseteq overlapped'
      BY <2>1 DEF D!Tick, D!Cleanup, D!Reattach, D!Grow, D!ghosts
    <3>2. D!ReadsCovered(d)
      BY <1>2, <3>1 DEF D!ReadsInv
    <3> QED
      BY <1>2, <2>1, <3>2, WorldCovers
  <2>2. ASSUME NEW c \in Collectors, NEW b \in Devices, D!Begin(c, b) PROVE D!ReadsCovered(d)'
    <3>1. stalled \subseteq stalled' /\ overlapped \subseteq overlapped'
      BY <2>2 DEF D!Begin
    <3>2. D!ReadsCovered(d)
      BY <1>2, <3>1 DEF D!ReadsInv
    <3> QED
      BY <1>2, <2>2, <3>2, BeginCovers
  <2>3. ASSUME NEW c \in Collectors, D!Collecting(c) PROVE D!ReadsCovered(d)'
    <3>1. stalled = stalled' /\ overlapped = overlapped'
      BY <2>3 DEF D!Collecting, D!ReadRate, D!WriteRate, D!ReadDiskStats, D!ReadIOPS, D!WriteIOPS, D!GetDiskStat,
                  D!GetDiskStatTimestamp, D!UpdateDiskStat, D!Calculate, D!ghosts
    <3>2. D!ReadsCovered(d)
      BY <1>2, <3>1 DEF D!ReadsInv
    <3> QED
      BY <1>1, <2>3, <3>2, ReadRateCovers, OtherStepsCover
  <2> QED
    BY <2>1, <2>2, <2>3 DEF D!Next
<1> QED
  BY <1>1, <1>2 DEF D!ReadsInv

LEMMA ReadsAreConserved == D!TypeOK /\ D!ReadsInv => D!ReadsConserved
<1> SUFFICES ASSUME D!TypeOK, D!ReadsInv, overlapped = {}, NEW d \in Devices \ stalled
             PROVE  credited[d]["readBytes"] <= 1 * grown[d]["readBytes"] * D!TicksPerSecond
  BY DEF D!ReadsConserved, D!Conserved
<1> DEFINE T == D!TicksPerSecond
           credit == credited[d]["readBytes"]
           read == grown[d]["readBytes"]
<1>1. D!ReadsCovered(d)
  BY DEF D!ReadsInv
<1>2. /\ credit \in Nat /\ read \in Nat /\ T \in Nat /\ counters[d]["readBytes"] \in Nat
      /\ \A n \in Nat : D!Claim(d, n) \in Nat /\ D!Since(d, n) \in Nat
  BY DeviceTypes
<1>3. PICK bytes \in Nat : D!Covered(d, bytes)
  <2>1. CASE D!Sampling(d) = {}
    BY <1>1, <1>2, <2>1 DEF D!ReadsCovered
  <2>2. CASE D!Sampling(d) # {}
    <3>1. PICK c \in D!Sampling(d) : TRUE
      BY <2>2
    <3>2. PICK n \in Nat : n = collector[c].seen["readBytes"]
      BY SampledBytes
    <3>3. D!Covered(d, D!Claim(d, n) + D!Since(d, n)) /\ D!Claim(d, n) + D!Since(d, n) \in Nat
      BY <1>1, <1>2, <3>2 DEF D!ReadsCovered
    <3> QED
      BY <3>3
  <2> QED
    BY <2>1, <2>2
<1>4. credit + bytes * T <= read * T
  BY <1>3 DEF D!Covered
<1> HIDE DEF T, credit, read
<1>5. credit + 0 * T <= read * T
  BY <1>2, <1>4, CoversLess
<1>6. credit <= 1 * read * T
  BY <1>2, <1>5
<1> QED
  BY <1>6 DEF T, credit, read

\* A remainder, times a hundred, over a positive interval.
LEMMA QuotientIsNatural ==
  ASSUME NEW a \in Int, NEW w \in Nat \ {0}, NEW n \in Nat \ {0}
  PROVE  (((a % w) * 100) \div n) \in Nat
<1>1. a % w \in Nat
  OBVIOUS
<1> QED
  BY <1>1

LEMMA UtilizationsArePercents == D!TypeOK => D!UtilizationIsPercent
<1> SUFFICES ASSUME D!TypeOK, NEW c \in Collectors, collector[c].pc = "update"
             PROVE  D!Utilization(c) \in 0..100
  BY DEF D!UtilizationIsPercent
<1>1. PICK busy \in Nat : busy = collector[c].seen["ioTime"]
  BY SeenTypes
<1>2. PICK prev \in Nat : prev = collector[c].prev
  BY SeenTypes
<1>3. PICK ticks \in Nat : ticks = collector[c].interval
  BY RatePlaces DEF D!TypeOK
<1>4. PICK interval : interval = ticks \div TicksPerMilli
  OBVIOUS
<1>5. interval \in Nat
  BY <1>4, RatesAssumption
<1> DEFINE percent == (((busy - prev) % Word) * 100) \div interval
<1>6. D!Utilization(c) = IF prev = 0 \/ interval = 0 THEN 0 ELSE IF percent > 100 THEN 100 ELSE percent
  BY <1>1, <1>2, <1>3, <1>4 DEF D!Utilization
<1>7. interval # 0 => percent \in Nat
  BY <1>5, RatesAssumption, QuotientIsNatural
<1> HIDE DEF percent
<1> QED
  BY <1>6, <1>7

-----------------------------------------------------------------------------
\* Whatever the sizes, the intervals and the number of collections: as long as
\* one collection at a time samples a device and none is held up until its
\* entry expires, the read rates that calculateDiskIORate reports, times their
\* intervals, account for no byte twice; and a utilization is a percentage,
\* though the busy time goes back and the unsigned difference wraps.
THEOREM RatesHonest == MCSpec => []RatesAreHonest
<1> DEFINE Inv == part = "rates" => D!TypeOK /\ D!ReadsInv
<1>1. MCInit => Inv
  BY RateTypeInit, ReadsInit DEF MCInit
<1>2. Inv /\ [MCNext]_MCvars => Inv'
  <2> SUFFICES ASSUME Inv, [MCNext]_MCvars, part' = "rates" PROVE D!TypeOK' /\ D!ReadsInv'
    OBVIOUS
  <2>1. CASE part = "rates" /\ D!Next
    BY <2>1, RatesNext
  <2>2. CASE UNCHANGED MCvars
    <3>1. D!TypeOK /\ D!ReadsInv
      BY <2>2 DEF MCvars
    <3>2. UNCHANGED <<time, counters, resets, cache, collector, grown, credited, overlapped, stalled>>
      BY <2>2 DEF MCvars, rates
    <3>3. D!TypeOK'
      BY <3>1, <3>2 DEF D!TypeOK
    <3>4. D!ReadsInv'
      BY <3>1, <3>2 DEF D!ReadsInv, D!ReadsCovered, D!Busy, D!Sampling, D!Covered, D!Claim, D!Since, D!TicksPerSecond
    <3> QED
      BY <3>3, <3>4
  <2> QED
    BY <2>1, <2>2 DEF MCNext, MCvars
<1>3. Inv => RatesAreHonest
  BY ReadsAreConserved, UtilizationsArePercents DEF RatesAreHonest
<1> HIDE DEF Inv
<1> QED
  BY <1>1, <1>2, <1>3, PTL DEF MCSpec
-----------------------------------------------------------------------------
(***************************************************************************)
(* The rates: collections that overlap.                                    *)
(***************************************************************************)
LEMMA SameCardinality == ASSUME NEW S PROVE D!Cardinality(S) = Cardinality(S)
  BY DEF D!Cardinality, Cardinality

Owed(d) == Cardinality(D!Pending(d))

LEMMA IntervalSize ==
  ASSUME NEW s \in Nat, NEW g \in Nat, s <= g
  PROVE  IsFiniteSet((s + 1)..g) /\ Cardinality((s + 1)..g) = g - s
<1>1. \A a, b \in Int : IsFiniteSet(a..b) /\ Cardinality(a..b) = IF a > b THEN 0 ELSE b - a + 1
  BY FS_Interval
<1>2. s + 1 \in Int /\ g \in Int
  OBVIOUS
<1>3. IsFiniteSet((s + 1)..g) /\ Cardinality((s + 1)..g) = IF s + 1 > g THEN 0 ELSE g - (s + 1) + 1
  BY <1>1, <1>2
<1>4. CASE s + 1 > g
  <2>1. g - s = 0
    BY <1>4
  <2> QED
    BY <1>3, <1>4, <2>1
<1>5. CASE ~(s + 1 > g)
  <2>1. g - (s + 1) + 1 = g - s
    OBVIOUS
  <2> QED
    BY <1>3, <1>5, <2>1
<1> QED
  BY <1>4, <1>5

LEMMA PendingFinite ==
  ASSUME D!TypeOK, NEW d \in Devices
  PROVE  IsFiniteSet(D!Pending(d)) /\ Owed(d) \in Nat /\ D!Behind(d) = Owed(d) + D!Claim(d, counters[d]["readBytes"])
<1>1. PICK g \in Nat : g = counters[d]["readBytes"]
  BY DeviceTypes
<1>2. IsFiniteSet(1..g)
  BY FS_Interval
<1>3. IsFiniteSet(Collectors \X (1..g))
  BY <1>2, FS_Product, RatesAssumption
<1>4. D!Pending(d) \in SUBSET (Collectors \X (1..g))
  BY <1>1 DEF D!Pending
<1>5. IsFiniteSet(D!Pending(d))
  BY <1>3, <1>4, FS_Subset
<1>6. Owed(d) \in Nat
  BY <1>5, FS_CardinalityType DEF Owed
<1>7. D!Behind(d) = Owed(d) + D!Claim(d, counters[d]["readBytes"])
  BY SameCardinality DEF D!Behind, Owed
<1> QED
  BY <1>5, <1>6, <1>7

\* The same of the next state.
LEMMA PendingFiniteNext ==
  ASSUME D!TypeOK', NEW d \in Devices
  PROVE  /\ IsFiniteSet(D!Pending(d)') /\ Owed(d)' \in Nat
         /\ D!Behind(d)' = Owed(d)' + D!Claim(d, counters[d]["readBytes"])'
<1>1. PICK g \in Nat : g = counters'[d]["readBytes"]
  BY DEF D!TypeOK, D!Counts, D!Kinds
<1>2. IsFiniteSet(1..g)
  BY FS_Interval
<1>3. IsFiniteSet(Collectors \X (1..g))
  BY <1>2, FS_Product, RatesAssumption
<1>4. D!Pending(d)' \in SUBSET (Collectors \X (1..g))
  BY <1>1 DEF D!Pending
<1>5. IsFiniteSet(D!Pending(d)')
  BY <1>3, <1>4, FS_Subset
<1>6. Owed(d)' \in Nat
  BY <1>5, FS_CardinalityType DEF Owed
<1>7. D!Behind(d)' = Owed(d)' + D!Claim(d, counters[d]["readBytes"])'
  BY SameCardinality DEF D!Behind, Owed
<1> QED
  BY <1>5, <1>6, <1>7

LEMMA SamplersFinite ==
  ASSUME NEW d
  PROVE  /\ IsFiniteSet(D!Sampling(d)) /\ Cardinality(D!Sampling(d)) \in Nat /\ Cardinality(Collectors) \in Nat
         /\ Cardinality(D!Sampling(d)) <= Cardinality(Collectors)
         /\ D!Sampling(d) # Collectors => Cardinality(D!Sampling(d)) < Cardinality(Collectors)
<1>1. D!Sampling(d) \in SUBSET Collectors
  BY DEF D!Sampling, D!Busy
<1> QED
  BY <1>1, FS_Subset, FS_CardinalityType, RatesAssumption

\* A device reads one byte: every collection that has its sample owes one more.
LEMMA PendingGrows ==
  ASSUME D!TypeOK, D!TypeOK', NEW d \in Devices,
         \A c \in D!Sampling(d) : collector[c].seen["readBytes"] <= counters[d]["readBytes"],
         counters'[d]["readBytes"] = counters[d]["readBytes"] + 1, collector' = collector
  PROVE  Owed(d)' = Owed(d) + Cardinality(D!Sampling(d))
<1>1. PICK g \in Nat : g = counters[d]["readBytes"]
  BY DeviceTypes
<1> DEFINE new == D!Sampling(d) \X {g + 1}
           old == D!Pending(d)
<1>2. \A c \in D!Sampling(d) : collector[c].seen["readBytes"] \in Nat /\ c \in Collectors
  BY SampledBytes DEF D!Sampling, D!Busy
<1>3. D!Pending(d)' = old \cup new
  <2>1. D!Sampling(d)' = D!Sampling(d)
    BY DEF D!Sampling, D!Busy
  <2>2. old = {p \in Collectors \X (1..g) : p[1] \in D!Sampling(d) /\ collector[p[1]].seen["readBytes"] < p[2]}
    BY <1>1 DEF D!Pending
  <2>3. D!Pending(d)' =
          {p \in Collectors \X (1..(g + 1)) : p[1] \in D!Sampling(d) /\ collector[p[1]].seen["readBytes"] < p[2]}
    BY <1>1, <2>1 DEF D!Pending
  <2>4. \A c \in D!Sampling(d) : collector[c].seen["readBytes"] < g + 1
    BY <1>1, <1>2
  <2> HIDE DEF old
  <2>5. ASSUME NEW p, p \in D!Pending(d)' PROVE p \in old \cup new
    <3>1. p \in Collectors \X (1..(g + 1)) /\ p[1] \in D!Sampling(d) /\ collector[p[1]].seen["readBytes"] < p[2]
      BY <2>3, <2>5
    <3>2. p = <<p[1], p[2]>> /\ (p[2] \in 1..g \/ p[2] = g + 1)
      BY <1>1, <3>1
    <3> QED
      BY <2>2, <3>1, <3>2
  <2>6. ASSUME NEW p \in old \cup new PROVE p \in D!Pending(d)'
    <3>1. CASE p \in old
      BY <2>2, <2>3, <3>1
    <3>2. CASE p \in new
      <4>1. p[1] \in D!Sampling(d) /\ p[2] = g + 1 /\ p = <<p[1], p[2]>>
        BY <3>2
      <4>2. p \in Collectors \X (1..(g + 1))
        BY <1>2, <4>1
      <4> QED
        BY <2>3, <2>4, <4>1, <4>2
    <3> QED
      BY <3>1, <3>2
  <2> QED
    BY <2>5, <2>6
<1>4. old \cap new = {}
  BY <1>1 DEF D!Pending
<1>5. IsFiniteSet(old) /\ Cardinality(old) \in Nat
  BY PendingFinite DEF Owed
<1>6. IsFiniteSet(new) /\ Cardinality(new) = Cardinality(D!Sampling(d))
  <2>1. IsFiniteSet({g + 1}) /\ Cardinality({g + 1}) = 1
    BY FS_Singleton
  <2>2. IsFiniteSet(new) /\ Cardinality(new) = Cardinality(D!Sampling(d)) * 1
    BY <2>1, SamplersFinite, FS_Product
  <2> QED
    BY <2>2, SamplersFinite
<1> HIDE DEF old, new
<1>7. Cardinality(old \cup new) = Cardinality(old) + Cardinality(new)
  <2>1. Cardinality(old \cup new) = Cardinality(old) + Cardinality(new) - Cardinality({})
    BY <1>4, <1>5, <1>6, FS_Union
  <2> QED
    BY <1>5, <1>6, <2>1, FS_EmptySet, SamplersFinite
<1> QED
  BY <1>3, <1>6, <1>7 DEF Owed, old

\* A collection makes its call: it owes nothing any more.
LEMMA PendingDrops ==
  ASSUME D!TypeOK, D!TypeOK', NEW d \in Devices, NEW c \in D!Sampling(d),
         collector[c].seen["readBytes"] <= counters[d]["readBytes"],
         D!Sampling(d)' = D!Sampling(d) \ {c}, \A a \in D!Sampling(d) : a # c => collector'[a] = collector[a],
         counters' = counters
  PROVE  Owed(d) = Owed(d)' + (counters[d]["readBytes"] - collector[c].seen["readBytes"])
<1>1. PICK g \in Nat : g = counters[d]["readBytes"]
  BY DeviceTypes
<1>2. PICK s \in Nat : s = collector[c].seen["readBytes"]
  BY SampledBytes
<1> DEFINE gone == {c} \X ((s + 1)..g)
           left == D!Pending(d)'
<1>3. left = {p \in Collectors \X (1..g) : p[1] \in D!Sampling(d) \ {c} /\ collector[p[1]].seen["readBytes"] < p[2]}
  <2>1. left = {p \in Collectors \X (1..g) : p[1] \in D!Sampling(d) \ {c} /\ collector'[p[1]].seen["readBytes"] < p[2]}
    BY <1>1 DEF D!Pending
  <2> HIDE DEF left
  <2> QED
    BY <2>1
<1>4. D!Pending(d) = {p \in Collectors \X (1..g) : p[1] \in D!Sampling(d) /\ collector[p[1]].seen["readBytes"] < p[2]}
  BY <1>1 DEF D!Pending
<1>5. c \in Collectors
  BY DEF D!Sampling, D!Busy
<1>6. IsFiniteSet(left) /\ Cardinality(left) \in Nat
  BY PendingFiniteNext DEF Owed
<1> HIDE DEF left
<1>7. D!Pending(d) = left \cup gone /\ left \cap gone = {}
  <2>1. ASSUME NEW p \in D!Pending(d) PROVE p \in left \cup gone
    <3>1. p \in Collectors \X (1..g) /\ p[1] \in D!Sampling(d) /\ collector[p[1]].seen["readBytes"] < p[2]
      BY <1>4, <2>1
    <3>2. CASE p[1] # c
      BY <1>3, <3>1, <3>2
    <3>3. CASE p[1] = c
      <4>1. p = <<c, p[2]>> /\ p[2] \in (s + 1)..g
        BY <1>2, <3>1, <3>3
      <4> QED
        BY <4>1
    <3> QED
      BY <3>2, <3>3
  <2>2. ASSUME NEW p \in gone PROVE p \in D!Pending(d) /\ p \notin left
    <3>1. p[1] = c /\ p[2] \in (s + 1)..g /\ p = <<c, p[2]>>
      OBVIOUS
    <3>2. p[2] \in 1..g /\ s < p[2]
      BY <3>1
    <3>3. p \in Collectors \X (1..g)
      BY <1>5, <3>1, <3>2
    <3> QED
      BY <1>2, <1>3, <1>4, <3>1, <3>2, <3>3
  <2>3. left \subseteq D!Pending(d)
    BY <1>3, <1>4
  <2> HIDE DEF gone
  <2> QED
    BY <2>1, <2>2, <2>3
<1>8. IsFiniteSet(gone) /\ Cardinality(gone) = g - s
  <2>1. IsFiniteSet((s + 1)..g) /\ Cardinality((s + 1)..g) = g - s
    <3>1. s <= g
      BY <1>1, <1>2
    <3> QED
      BY <3>1, IntervalSize
  <2>2. IsFiniteSet({c}) /\ Cardinality({c}) = 1
    BY FS_Singleton
  <2>3. IsFiniteSet(gone) /\ Cardinality(gone) = 1 * Cardinality((s + 1)..g)
    BY <2>1, <2>2, FS_Product
  <2> QED
    BY <2>1, <2>3
<1> HIDE DEF gone
<1>9. Cardinality(left \cup gone) = Cardinality(left) + (g - s)
  <2>1. Cardinality(left \cup gone) = Cardinality(left) + Cardinality(gone) - Cardinality({})
    BY <1>6, <1>7, <1>8, FS_Union
  <2> QED
    BY <1>6, <1>8, <2>1, FS_EmptySet
<1> QED
  BY <1>1, <1>2, <1>7, <1>9 DEF Owed, left

\* Nobody owes for a sample taken now.
LEMMA PendingBegins ==
  ASSUME D!TypeOK, D!TypeOK', NEW d \in Devices, NEW c \in Collectors, c \notin D!Sampling(d),
         D!Sampling(d)' = D!Sampling(d) \cup {c}, \A a \in D!Sampling(d) : collector'[a] = collector[a],
         counters' = counters, collector'[c].seen["readBytes"] = counters[d]["readBytes"]
  PROVE  Owed(d)' = Owed(d)
<1>1. PICK g \in Nat : g = counters[d]["readBytes"]
  BY DeviceTypes
<1>2. D!Pending(d) = {p \in Collectors \X (1..g) : p[1] \in D!Sampling(d) /\ collector[p[1]].seen["readBytes"] < p[2]}
  BY <1>1 DEF D!Pending
<1>3. D!Pending(d)' =
        {p \in Collectors \X (1..g) : p[1] \in D!Sampling(d) \cup {c} /\ collector'[p[1]].seen["readBytes"] < p[2]}
  BY <1>1 DEF D!Pending
<1>4. ASSUME NEW p \in Collectors \X (1..g) PROVE p \in D!Pending(d) <=> p \in D!Pending(d)'
  <2>1. CASE p[1] = c
    <3>1. ~(collector'[c].seen["readBytes"] < p[2])
      BY <1>1
    <3> QED
      BY <1>2, <1>3, <2>1, <3>1
  <2>2. CASE p[1] # c
    BY <1>2, <1>3, <2>2
  <2> QED
    BY <2>1, <2>2
<1>5. D!Pending(d)' = D!Pending(d)
  BY <1>2, <1>3, <1>4
<1> QED
  BY <1>5 DEF Owed

\* What is covered stays so: with more to spare, when a call claims what is
\* owed no longer, and when a byte is read.
LEMMA SpareMore ==
  ASSUME NEW credit \in Nat, NEW a \in Nat, NEW T \in Nat, NEW more \in Nat, NEW less \in Nat,
         NEW spare \in Nat, NEW extra \in Nat,
         credit + more * T <= (a + spare) * T, less <= more, spare <= extra
  PROVE  credit + less * T <= (a + extra) * T
<1>1. less * T <= more * T /\ (a + spare) * T <= (a + extra) * T
  OBVIOUS
<1>2. less * T \in Nat /\ more * T \in Nat /\ (a + spare) * T \in Nat /\ (a + extra) * T \in Nat
  OBVIOUS
<1> QED
  BY <1>1, <1>2

LEMMA SpareDrops ==
  ASSUME NEW credit \in Nat, NEW gain \in Nat, NEW a \in Nat, NEW T \in Nat, NEW more \in Nat, NEW less \in Nat,
         NEW claim \in Nat, NEW spare \in Nat,
         credit + more * T <= (a + spare) * T, gain <= claim * T, less + claim + spare <= more
  PROVE  (credit + gain) + less * T <= (a + 0) * T
<1>1. (less + claim + spare) * T <= more * T
  OBVIOUS
<1>2. (less + claim + spare) * T = less * T + claim * T + spare * T /\ (a + spare) * T = a * T + spare * T
  OBVIOUS
<1>3. /\ less * T \in Nat /\ claim * T \in Nat /\ spare * T \in Nat /\ a * T \in Nat /\ more * T \in Nat
      /\ (a + 0) * T = a * T
  OBVIOUS
<1> QED
  BY <1>1, <1>2, <1>3

LEMMA SpareGrows ==
  ASSUME NEW credit \in Nat, NEW n \in Nat, NEW read \in Nat, NEW T \in Nat, NEW bytes \in Nat, NEW more \in Nat,
         NEW spare \in Nat, NEW extra \in {0, 1},
         credit + bytes * T <= (n * read + spare) * T, more <= bytes + n + extra
  PROVE  credit + more * T <= (n * (read + 1) + (spare + extra)) * T
<1>1. PICK a \in Nat : a = n * read /\ a + n = n * (read + 1)
  OBVIOUS
<1>2. more * T <= (bytes + n + extra) * T
  OBVIOUS
<1>3. /\ (bytes + n + extra) * T = bytes * T + n * T + extra * T
      /\ (a + spare) * T = a * T + spare * T
      /\ (a + n + (spare + extra)) * T = a * T + n * T + spare * T + extra * T
  OBVIOUS
<1>4. /\ bytes * T \in Nat /\ n * T \in Nat /\ extra * T \in Nat /\ a * T \in Nat /\ spare * T \in Nat
      /\ more * T \in Nat
  OBVIOUS
<1>5. credit + bytes * T <= (a + spare) * T
  BY <1>1
<1>6. credit + more * T <= (a + n + (spare + extra)) * T
  BY <1>2, <1>3, <1>4, <1>5
<1> QED
  BY <1>1, <1>6

LEMMA CoveredNow ==
  ASSUME NEW d, NEW spare
  PROVE  D!CoveredWith(d, spare) <=>
           credited[d]["readBytes"] + D!Behind(d) * D!TicksPerSecond
             <= (Cardinality(Collectors) * grown[d]["readBytes"] + spare) * D!TicksPerSecond
  BY SameCardinality DEF D!CoveredWith

LEMMA CoveredNext ==
  ASSUME NEW d, NEW CONSTANT spare
  PROVE  D!CoveredWith(d, spare)' <=>
           credited'[d]["readBytes"] + D!Behind(d)' * D!TicksPerSecond
             <= (Cardinality(Collectors) * grown'[d]["readBytes"] + spare) * D!TicksPerSecond
<1>1. D!Cardinality(Collectors)' = Cardinality(Collectors)
  BY SameCardinality
<1> QED
  BY <1>1 DEF D!CoveredWith, D!TicksPerSecond

\* Steps that touch nothing of it.
LEMMA OverlapUntouched ==
  ASSUME D!TypeOK, NEW d \in Devices, D!OverlapCovered(d), ReadsKept(d)
  PROVE  D!OverlapCovered(d)'
<1>0. /\ D!Busy(d)' \subseteq D!Busy(d) /\ D!Sampling(d)' = D!Sampling(d)
      /\ \A c \in D!Sampling(d) : collector'[c] = collector[c]
      /\ cache'[d] = NoEntry <=> cache[d] = NoEntry
      /\ cache[d] # NoEntry => cache'[d].val["readBytes"] = cache[d].val["readBytes"]
      /\ counters'[d]["readBytes"] = counters[d]["readBytes"]
      /\ grown'[d]["readBytes"] = grown[d]["readBytes"]
      /\ credited'[d]["readBytes"] = credited[d]["readBytes"]
  BY DEF ReadsKept
<1>1. D!Crowded(d)' <=> D!Crowded(d)
  BY <1>0 DEF D!Crowded
<1>2. D!Pending(d)' = D!Pending(d)
  <2>1. PICK g : g = counters[d]["readBytes"] /\ g = counters'[d]["readBytes"]
    BY <1>0
  <2>2. D!Pending(d) = {p \in Collectors \X (1..g) : p[1] \in D!Sampling(d) /\ collector[p[1]].seen["readBytes"] < p[2]}
    BY <2>1 DEF D!Pending
  <2>3. D!Pending(d)' =
          {p \in Collectors \X (1..g) : p[1] \in D!Sampling(d) /\ collector'[p[1]].seen["readBytes"] < p[2]}
    BY <1>0, <2>1 DEF D!Pending
  <2> QED
    BY <1>0, <2>2, <2>3
<1>3. D!Behind(d)' = D!Behind(d)
  <2>1. D!Claim(d, counters[d]["readBytes"])' = D!Claim(d, counters[d]["readBytes"])
    BY <1>0 DEF D!Claim
  <2>2. Cardinality(D!Pending(d))' = Cardinality(D!Pending(d))
    BY <1>2
  <2>3. D!Cardinality(D!Pending(d))' = D!Cardinality(D!Pending(d))
    BY <2>2, SameCardinality
  <2> QED
    BY <2>1, <2>3 DEF D!Behind
<1>4. ASSUME NEW CONSTANT spare, D!CoveredWith(d, spare) PROVE D!CoveredWith(d, spare)'
  BY <1>0, <1>3, <1>4, CoveredNow, CoveredNext
<1>5. ASSUME NEW c \in D!Sampling(d), D!CoveredWith(d, D!Since(d, collector[c].seen["readBytes"]))
      PROVE  D!CoveredWith(d, D!Since(d, collector[c].seen["readBytes"]))'
  <2>1. PICK spare : spare = D!Since(d, collector[c].seen["readBytes"])
    OBVIOUS
  <2>2. spare = D!Since(d, collector[c].seen["readBytes"])'
    BY <1>0, <2>1 DEF D!Since
  <2>3. D!CoveredWith(d, spare)
    BY <1>5, <2>1
  <2>4. D!CoveredWith(d, spare)'
    BY <1>4, <2>3
  <2> QED
    BY <2>2, <2>4 DEF D!CoveredWith, D!Since
<1>6. /\ \A c \in D!Busy(d)' \ D!Sampling(d)' : cache'[d] # NoEntry
      /\ cache'[d] # NoEntry => cache'[d].val["readBytes"] <= counters'[d]["readBytes"]
      /\ \A c \in D!Sampling(d)' : collector'[c].seen["readBytes"] <= counters'[d]["readBytes"]
  BY <1>0 DEF D!OverlapCovered
<1>7. D!Crowded(d)' =>
        /\ \E c \in D!Sampling(d)' : cache'[d].val["readBytes"] <= collector'[c].seen["readBytes"]
        /\ \A c \in D!Sampling(d)' : D!CoveredWith(d, D!Since(d, collector[c].seen["readBytes"]))'
  BY <1>0, <1>1, <1>5 DEF D!OverlapCovered, D!Crowded
<1>8. ~D!Crowded(d)' => D!CoveredWith(d, 0)'
  BY <1>1, <1>4 DEF D!OverlapCovered
<1> QED
  BY <1>6, <1>7, <1>8 DEF D!OverlapCovered

\* The clock, growth and expiry.
LEMMA WorldOverlaps ==
  ASSUME D!TypeOK, D!TypeOK', NEW d \in Devices, D!OverlapCovered(d), d \notin stalled',
         D!Tick \/ D!Cleanup \/ \E b \in Devices : \E k \in Growing : D!Grow(b, k)
  PROVE  D!OverlapCovered(d)'
<1>1. CASE D!Tick
  <2>1. ReadsKept(d)
    BY <1>1 DEF D!Tick, D!kernel, D!ghosts, D!Busy, D!Sampling, ReadsKept
  <2> QED
    BY <2>1, OverlapUntouched
<1> DEFINE T == D!TicksPerSecond
           N == Cardinality(Collectors)
           counted == counters[d]["readBytes"]
           credit == credited[d]["readBytes"]
           read == grown[d]["readBytes"]
           owed == Owed(d)
           claim == D!Claim(d, counters[d]["readBytes"])
<1>t. /\ credit \in Nat /\ read \in Nat /\ T \in Nat /\ counted \in Nat /\ claim \in Nat
      /\ owed \in Nat /\ N \in Nat
      /\ cache[d] # NoEntry => cache[d].val["readBytes"] \in Nat
  BY DeviceTypes, PendingFinite, SamplersFinite
<1>2. CASE D!Cleanup
  <2>1. CASE cache'[d] = cache[d]
    <3>1. ReadsKept(d)
      BY <1>2, <2>1 DEF D!Cleanup, D!kernel, D!Busy, D!Sampling, ReadsKept
    <3> QED
      BY <3>1, OverlapUntouched
  <2>2. CASE cache'[d] # cache[d]
    <3>1. cache'[d] = NoEntry /\ D!Busy(d) = {}
      BY <1>2, <2>2 DEF D!Cleanup
    <3>2. D!Busy(d)' = {} /\ D!Sampling(d)' = {} /\ D!Sampling(d) = {} /\ ~D!Crowded(d)'
      BY <1>2, <3>1 DEF D!Cleanup, D!Busy, D!Sampling, D!Crowded
    <3>3. D!CoveredWith(d, 0)
      BY <3>2 DEF D!OverlapCovered
    <3>4. D!Behind(d) = owed + claim
      BY PendingFinite
    <3>5. D!Behind(d)' = owed
      <4>1. D!Claim(d, counters[d]["readBytes"])' = 0
        BY <3>1 DEF D!Claim
      <4>2. D!Pending(d)' = D!Pending(d)
        <5>1. counters' = counters
          BY <1>2 DEF D!Cleanup, D!kernel
        <5> QED
          BY <3>2, <5>1 DEF D!Pending
      <4>3. Owed(d)' = owed
        BY <4>2 DEF Owed
      <4>4. D!Behind(d)' = Owed(d)' + D!Claim(d, counters[d]["readBytes"])'
        BY PendingFiniteNext
      <4> QED
        BY <1>t, <4>1, <4>3, <4>4
    <3>6. credit + (owed + claim) * T <= (N * read + 0) * T
      BY <3>3, <3>4, CoveredNow
    <3>7. credit + owed * T <= (N * read + 0) * T
      <4> HIDE DEF T, N, credit, read, owed, claim
      <4>1. N * read \in Nat /\ owed <= owed + claim /\ owed + claim \in Nat
        BY <1>t
      <4> QED
        BY <1>t, <3>6, <4>1, SpareMore
    <3>8. credited' = credited /\ grown' = grown
      BY <1>2 DEF D!Cleanup, D!kernel
    <3>9. D!CoveredWith(d, 0)'
      BY <3>5, <3>7, <3>8, CoveredNext
    <3> QED
      BY <3>1, <3>2, <3>9 DEF D!OverlapCovered
  <2> QED
    BY <2>1, <2>2
<1>3. ASSUME NEW b \in Devices, NEW k \in Growing, D!Grow(b, k) PROVE D!OverlapCovered(d)'
  <2>0. counters[d] \in [D!Kinds -> Nat] /\ grown[d] \in [D!Kinds -> Nat]
    BY DEF D!TypeOK, D!Counts
  <2>1. CASE b # d \/ k # "readBytes"
    <3>1. /\ counters'[d]["readBytes"] = counters[d]["readBytes"]
          /\ grown'[d]["readBytes"] = grown[d]["readBytes"]
      BY <1>3, <2>0, <2>1 DEF D!Grow, D!TypeOK, D!Kinds
    <3>2. ReadsKept(d)
      BY <1>3, <3>1 DEF D!Grow, D!ghosts, D!Busy, D!Sampling, ReadsKept
    <3> QED
      BY <3>2, OverlapUntouched
  <2>2. CASE b = d /\ k = "readBytes"
    <3>1. counters'[d]["readBytes"] = counted + 1 /\ grown'[d]["readBytes"] = read + 1
      BY <1>3, <2>0, <2>2 DEF D!Grow, D!TypeOK, D!Kinds
    <3>2. D!Busy(d)' = D!Busy(d) /\ D!Sampling(d)' = D!Sampling(d)
      BY <1>3 DEF D!Grow, D!Busy, D!Sampling
    <3>3. UNCHANGED <<cache, collector, credited>> /\ (D!Crowded(d)' <=> D!Crowded(d))
      BY <1>3, <3>2 DEF D!Grow, D!ghosts, D!Crowded
    <3>4. \A c \in D!Sampling(d) : collector[c].seen["readBytes"] \in Nat /\ collector[c].seen["readBytes"] <= counted
      BY SampledBytes DEF D!OverlapCovered
    <3>5. cache[d] # NoEntry => cache[d].val["readBytes"] <= counted
      BY DEF D!OverlapCovered
    <3> DEFINE samplers == Cardinality(D!Sampling(d))
               more == D!Behind(d)'
               extra == IF D!Crowded(d) THEN 1 ELSE 0
    <3>6. samplers \in Nat /\ samplers <= N /\ (D!Sampling(d) # Collectors => samplers < N)
      BY SamplersFinite
    <3>7. more \in Nat /\ more <= (owed + claim) + N + extra
      <4>1. Owed(d)' = owed + samplers
        BY <3>1, <3>3, <3>4, PendingGrows
      <4>2. D!Behind(d)' = Owed(d)' + D!Claim(d, counters[d]["readBytes"])'
        BY PendingFiniteNext
      <4>3. D!Claim(d, counters[d]["readBytes"])' = IF cache[d] = NoEntry THEN 0 ELSE claim + 1
        <5>1. CASE cache[d] = NoEntry
          BY <3>3, <5>1 DEF D!Claim
        <5>2. CASE cache[d] # NoEntry
          <6>1. D!Claim(d, counters[d]["readBytes"])' = (counted + 1) - cache[d].val["readBytes"]
            BY <1>t, <3>1, <3>3, <3>5, <5>2 DEF D!Claim
          <6>2. claim = counted - cache[d].val["readBytes"]
            BY <1>t, <3>5, <5>2 DEF D!Claim
          <6> QED
            BY <1>t, <5>2, <6>1, <6>2
        <5> QED
          BY <5>1, <5>2
      <4> HIDE DEF samplers, more, owed, claim, N
      <4>4. CASE cache[d] = NoEntry
        <5>1. extra = 0
          BY <4>4 DEF D!Crowded
        <5> QED
          BY <1>t, <3>6, <4>1, <4>2, <4>3, <4>4, <5>1 DEF more
      <4>5. CASE cache[d] # NoEntry
        <5>1. samplers + 1 <= N + extra /\ extra \in {0, 1}
          BY <1>t, <3>6, <4>5 DEF D!Crowded
        <5> QED
          BY <1>t, <3>6, <4>1, <4>2, <4>3, <4>5, <5>1 DEF more
      <4> QED
        BY <4>4, <4>5
    <3>8. ASSUME NEW spare \in Nat, D!CoveredWith(d, spare) PROVE D!CoveredWith(d, spare + extra)'
      <4>1. credit + (owed + claim) * T <= (N * read + spare) * T
        BY <3>8, CoveredNow, PendingFinite
      <4>2. credit + more * T <= (N * (read + 1) + (spare + extra)) * T
        <5>1. extra \in {0, 1} /\ owed + claim \in Nat
          BY <1>t
        <5> HIDE DEF T, N, credit, read, owed, claim, more, extra
        <5> QED
          BY <1>t, <3>7, <4>1, <5>1, SpareGrows
      <4>3. PICK left : left = spare + extra
        OBVIOUS
      <4>4. credit + more * T <= (N * (read + 1) + left) * T
        BY <4>2, <4>3
      <4>5. D!CoveredWith(d, left)'
        BY <3>1, <3>3, <4>4, CoveredNext
      <4> QED
        BY <3>3, <4>3, <4>5 DEF D!CoveredWith, D!Crowded
    <3>9. CASE D!Crowded(d)
      <4>1. ASSUME NEW c \in D!Sampling(d) PROVE D!CoveredWith(d, D!Since(d, collector[c].seen["readBytes"]))'
        <5>1. PICK s \in Nat : s = collector[c].seen["readBytes"] /\ s <= counted
          BY <3>4
        <5>2. PICK spare \in Nat : spare = counted - s
          BY <1>t, <5>1
        <5>3. D!Since(d, collector[c].seen["readBytes"]) = spare
          BY <1>t, <5>1, <5>2 DEF D!Since
        <5>4. D!CoveredWith(d, spare)
          BY <3>9, <5>3 DEF D!OverlapCovered
        <5>5. PICK left : left = spare + 1
          OBVIOUS
        <5>6. D!CoveredWith(d, left)'
          <6>1. D!CoveredWith(d, spare + extra)'
            BY <3>8, <5>4
          <6> QED
            BY <3>3, <3>9, <5>5, <6>1 DEF D!CoveredWith, D!Crowded
        <5>7. D!Since(d, collector[c].seen["readBytes"])' = left
          BY <1>t, <3>1, <3>3, <5>1, <5>2, <5>5 DEF D!Since
        <5> QED
          BY <5>6, <5>7 DEF D!CoveredWith, D!Since
      <4>2. \E c \in D!Sampling(d) : cache[d].val["readBytes"] <= collector[c].seen["readBytes"]
        BY <3>9 DEF D!OverlapCovered
      <4> QED
        BY <1>t, <3>1, <3>2, <3>3, <3>4, <3>5, <3>9, <4>1, <4>2 DEF D!OverlapCovered, D!Crowded
    <3>10. CASE ~D!Crowded(d)
      <4>1. D!CoveredWith(d, 0)
        BY <3>10 DEF D!OverlapCovered
      <4>2. D!CoveredWith(d, 0 + extra)'
        BY <3>8, <4>1
      <4>3. D!CoveredWith(d, 0)'
        BY <3>3, <3>10, <4>2 DEF D!CoveredWith, D!Crowded
      <4> QED
        BY <1>t, <3>1, <3>2, <3>3, <3>4, <3>5, <3>10, <4>3 DEF D!OverlapCovered
    <3> QED
      BY <3>9, <3>10
  <2> QED
    BY <2>1, <2>2
<1> QED
  BY <1>1, <1>2, <1>3

\* A collection that is not of d moves: nothing changes for d.
LEMMA OtherDevice ==
  ASSUME D!TypeOK, NEW d \in Devices, NEW c \in Collectors, NEW p \in D!Places,
         collector' = [collector EXCEPT ![c] = p], c \notin D!Sampling(d), p.device # d,
         cache'[d] = cache[d], counters' = counters, grown' = grown,
         credited'[d]["readBytes"] = credited[d]["readBytes"]
  PROVE  ReadsKept(d)
<1>1. /\ D!Busy(d)' \subseteq D!Busy(d) /\ D!Sampling(d)' = D!Sampling(d)
      /\ \A a \in D!Sampling(d) : collector'[a] = collector[a]
  BY OthersSampling
<1> QED
  BY <1>1 DEF ReadsKept

\* A collection takes its sample: it owes nothing, and may be the last.
LEMMA BeginOverlaps ==
  ASSUME D!TypeOK, D!TypeOK', NEW d \in Devices, D!OverlapCovered(d),
         NEW c \in Collectors, NEW b \in Devices, D!Begin(c, b)
  PROVE  D!OverlapCovered(d)'
<1> DEFINE p == [pc |-> "readRate", device |-> b, seen |-> D!Sample(b, D!ByteKinds)]
<1>1. /\ collector[c].pc = "idle" /\ collector' = [collector EXCEPT ![c] = p]
      /\ UNCHANGED <<counters, grown, cache, credited>>
  BY DEF D!Begin, D!kernel
<1>2. p \in D!Places
  <2>1. D!Sample(b, D!ByteKinds) \in [D!ByteKinds -> Nat]
    BY DEF D!TypeOK, D!Counts, D!Sample, D!ByteKinds, D!Kinds
  <2> QED
    BY <2>1 DEF D!Places
<1>3. p.pc = "readRate" /\ p.device = b /\ p.seen["readBytes"] = counters[b]["readBytes"]
  BY DEF D!Sample, D!ByteKinds
<1> HIDE DEF p
<1>4. c \notin D!Sampling(d) /\ c \notin D!Busy(d)
  BY <1>1 DEF D!Sampling, D!Busy
<1>5. CASE b # d
  BY <1>1, <1>2, <1>3, <1>4, <1>5, OtherDevice, OverlapUntouched
<1>6. CASE b = d
  <2>1. /\ collector'[c] = p /\ \A a \in Collectors : a # c => collector'[a] = collector[a]
    BY <1>1, <1>2, RateMoved
  <2>2. /\ D!Busy(d)' = D!Busy(d) \cup {c} /\ D!Sampling(d)' = D!Sampling(d) \cup {c}
        /\ \A a \in D!Sampling(d) : collector'[a] = collector[a]
    BY <1>3, <1>4, <1>6, <2>1 DEF D!Busy, D!Sampling
  <2>3. PICK counted \in Nat : counted = counters[d]["readBytes"]
    BY DeviceTypes
  <2>4. collector'[c].seen["readBytes"] = counted /\ counters'[d]["readBytes"] = counted
    BY <1>1, <1>3, <1>6, <2>1, <2>3
  <2>5. D!Behind(d)' = D!Behind(d) /\ D!Behind(d) \in Nat
    <3>1. Owed(d)' = Owed(d)
      BY <1>1, <1>4, <2>2, <2>3, <2>4, PendingBegins
    <3>2. D!Claim(d, counters[d]["readBytes"])' = D!Claim(d, counters[d]["readBytes"])
      BY <1>1 DEF D!Claim
    <3> QED
      BY <3>1, <3>2, PendingFinite, PendingFiniteNext, DeviceTypes
  <2>6. ASSUME NEW CONSTANT spare \in Nat PROVE D!CoveredWith(d, spare)'
    <3> DEFINE T == D!TicksPerSecond
               N == Cardinality(Collectors)
               credit == credited[d]["readBytes"]
               read == grown[d]["readBytes"]
               behind == D!Behind(d)
    <3>1. ~D!Crowded(d)
      BY <1>4 DEF D!Crowded
    <3>2. credit + behind * T <= (N * read + 0) * T
      BY <3>1, CoveredNow DEF D!OverlapCovered
    <3>3. credit + behind * T <= (N * read + spare) * T
      <4>1. credit \in Nat /\ read \in Nat /\ T \in Nat /\ N \in Nat /\ behind \in Nat
        BY <2>5, DeviceTypes, SamplersFinite
      <4> HIDE DEF T, N, credit, read, behind
      <4>2. N * read \in Nat
        BY <4>1
      <4> QED
        BY <3>2, <4>1, <4>2, SpareMore
    <3> QED
      BY <1>1, <2>5, <3>3, CoveredNext
  <2>7. \A a \in D!Sampling(d)' : collector'[a].seen["readBytes"] \in Nat /\ collector'[a].seen["readBytes"] <= counted
    <3>1. \A a \in D!Sampling(d) : collector[a].seen["readBytes"] \in Nat /\ collector[a].seen["readBytes"] <= counted
      BY <2>3, SampledBytes DEF D!OverlapCovered
    <3> QED
      BY <2>2, <2>3, <2>4, <3>1
  <2>8. ASSUME NEW a \in D!Sampling(d)' PROVE D!CoveredWith(d, D!Since(d, collector[a].seen["readBytes"]))'
    <3>1. PICK spare : spare = D!Since(d, collector[a].seen["readBytes"])'
      OBVIOUS
    <3>2. spare \in Nat
      BY <2>3, <2>4, <2>7, <3>1 DEF D!Since
    <3>3. D!CoveredWith(d, spare)'
      BY <2>6, <3>2
    <3> QED
      BY <3>1, <3>3 DEF D!CoveredWith, D!Since
  <2>9. cache[d] # NoEntry => cache[d].val["readBytes"] <= counted
    BY <2>3 DEF D!OverlapCovered
  <2>10. D!CoveredWith(d, 0)'
    BY <2>6
  <2>11. D!Crowded(d)' => \E a \in D!Sampling(d)' : cache'[d].val["readBytes"] <= collector'[a].seen["readBytes"]
    BY <1>1, <2>2, <2>4, <2>9 DEF D!Crowded
  <2>12. \A a \in D!Busy(d)' \ D!Sampling(d)' : cache'[d] # NoEntry
    BY <1>1, <2>2 DEF D!OverlapCovered
  <2> QED
    BY <1>1, <2>4, <2>7, <2>8, <2>9, <2>10, <2>11, <2>12 DEF D!OverlapCovered
<1> QED
  BY <1>5, <1>6

\* The call that claims bytes read: what it claims, it owes no longer.
LEMMA ReadRateOverlaps ==
  ASSUME D!TypeOK, D!TypeOK', NEW d \in Devices, D!OverlapCovered(d), NEW c \in Collectors, D!ReadRate(c)
  PROVE  D!OverlapCovered(d)'
<1>1. /\ collector[c].pc = "readRate" /\ D!Calculate(c, "readBytes", D!ByteKinds)
      /\ UNCHANGED <<time, counters, grown>>
  BY DEF D!ReadRate, D!Step, D!Calculate, D!kernel
<1>2. PICK p \in D!Places :
        collector' = [collector EXCEPT ![c] = p] /\ p.pc = "writeRate" /\ p.device = collector[c].device
  BY CallMoves DEF D!ReadRate
<1>3. PICK b \in Devices : b = collector[c].device
  BY <1>1, SeenTypes
<1>4. "readBytes" \in D!ByteKinds /\ "readBytes" \in D!Kinds
  BY DEF D!ByteKinds, D!Kinds
<1>5. PICK sample \in Nat : sample = collector[c].seen["readBytes"]
  BY <1>1, SeenTypes
<1>6. /\ cache'[b] = D!Sampled(cache[b], "readBytes", sample, D!ByteKinds)
      /\ \A e \in Devices : e # b => cache'[e] = cache[e]
      /\ cache[b] = NoEntry => credited' = credited
      /\ cache[b] # NoEntry =>
           \A e \in Devices, j \in D!ByteKinds :
             credited'[e][j] = IF e = b /\ j = "readBytes"
                               THEN credited[b]["readBytes"] + D!RateOf(cache[b], "readBytes", sample) * (time - cache[b].at)
                               ELSE credited[e][j]
  BY <1>1, <1>3, <1>4, <1>5, CalculateStep
<1>7. CASE b # d
  <2>1. c \notin D!Sampling(d)
    BY <1>3, <1>7 DEF D!Sampling, D!Busy
  <2>2. cache'[d] = cache[d] /\ credited'[d]["readBytes"] = credited[d]["readBytes"]
    BY <1>4, <1>6, <1>7
  <2> QED
    BY <1>1, <1>2, <1>3, <1>7, <2>1, <2>2, OtherDevice, OverlapUntouched
<1>8. CASE b = d
  <2> DEFINE T == D!TicksPerSecond
             N == Cardinality(Collectors)
             counted == counters[d]["readBytes"]
             credit == credited[d]["readBytes"]
             read == grown[d]["readBytes"]
             v == cache[d].val["readBytes"]
             lag == D!Claim(d, counters[d]["readBytes"])
             more == D!Behind(d)
             less == D!Behind(d)'
             rate == D!RateOf(cache[d], "readBytes", sample) * (time - cache[d].at)
  <2>1. /\ c \in D!Busy(d) /\ c \in D!Sampling(d)
        /\ D!Busy(d)' = D!Busy(d) /\ D!Sampling(d)' = D!Sampling(d) \ {c}
        /\ \A a \in D!Sampling(d) : a # c => collector'[a] = collector[a]
    <3>1. collector'[c] = p /\ \A a \in Collectors : a # c => collector'[a] = collector[a]
      BY <1>2, RateMoved
    <3> QED
      BY <1>1, <1>2, <1>3, <1>8, <3>1 DEF D!Busy, D!Sampling
  <2>2. /\ credit \in Nat /\ read \in Nat /\ T \in Nat /\ counted \in Nat /\ N \in Nat
        /\ cache[d] \in D!Entry \cup {NoEntry} /\ time \in Nat
        /\ cache[d] # NoEntry => v \in Nat /\ v <= counted /\ cache[d].at <= time
        /\ sample <= counted
    BY <1>5, <2>1, DeviceTypes, SamplersFinite, CacheAssumption DEF D!TypeOK, D!OverlapCovered
  <2>3. /\ cache'[d] # NoEntry
        /\ cache[d] = NoEntry => cache'[d].val["readBytes"] = sample
        /\ cache[d] # NoEntry /\ time = cache[d].at => cache'[d] = cache[d]
        /\ cache[d] # NoEntry /\ time # cache[d].at => cache'[d].val["readBytes"] = sample
    <3>1. \A entry \in D!Entry \cup {NoEntry} : (entry # NoEntry => entry.at <= time) =>
            LET s == D!Sampled(entry, "readBytes", sample, D!ByteKinds)
            IN  /\ s # NoEntry
                /\ entry = NoEntry => s.val["readBytes"] = sample
                /\ entry # NoEntry /\ time = entry.at => s = entry
                /\ entry # NoEntry /\ time # entry.at => s.val["readBytes"] = sample
      BY <1>4, <2>2, SampledEntry
    <3> QED
      BY <1>6, <1>8, <2>2, <3>1
  <2>4. /\ cache[d] = NoEntry => credited'[d]["readBytes"] = credit + 0
        /\ cache[d] # NoEntry =>
             /\ credited'[d]["readBytes"] = credit + rate
             /\ rate \in Nat
             /\ time = cache[d].at \/ sample < v => rate = 0
             /\ sample >= v => rate <= (sample - v) * T
    <3>1. \A entry \in D!Entry, n \in Nat : entry.at <= time =>
            /\ D!RateOf(entry, "readBytes", n) * (time - entry.at) \in Nat
            /\ time = entry.at \/ n < entry.val["readBytes"] =>
                 D!RateOf(entry, "readBytes", n) * (time - entry.at) = 0
            /\ n >= entry.val["readBytes"] =>
                 D!RateOf(entry, "readBytes", n) * (time - entry.at) <= (n - entry.val["readBytes"]) * T
      BY <1>4, <2>2, RateClaims, RatesAssumption
    <3>2. cache[d] # NoEntry =>
             /\ rate \in Nat
             /\ time = cache[d].at \/ sample < v => rate = 0
             /\ sample >= v => rate <= (sample - v) * T
      BY <2>2, <3>1
    <3>3. cache[d] # NoEntry => credited'[d]["readBytes"] = credit + rate
      BY <1>4, <1>6, <1>8
    <3>4. cache[d] = NoEntry => credited'[d]["readBytes"] = credit + 0
      BY <1>6, <1>8, <2>2
    <3> QED
      BY <3>2, <3>3, <3>4
  <2>5. /\ more = Owed(d) + lag /\ lag = IF cache[d] = NoEntry THEN 0 ELSE counted - v
        /\ Owed(d) = Owed(d)' + (counted - sample)
        /\ less = Owed(d)' + (counted - cache'[d].val["readBytes"])
        /\ Owed(d) \in Nat /\ Owed(d)' \in Nat
    <3>1. Owed(d) = Owed(d)' + (counted - sample)
      BY <1>1, <1>5, <2>1, <2>2, PendingDrops
    <3>2. lag = IF cache[d] = NoEntry THEN 0 ELSE counted - v
      BY <2>2 DEF D!Claim
    <3>3. D!Claim(d, counters[d]["readBytes"])' = counted - cache'[d].val["readBytes"]
      <4>1. cache'[d].val["readBytes"] \in Nat /\ cache'[d].val["readBytes"] <= counted
        BY <2>2, <2>3
      <4> QED
        BY <1>1, <2>2, <2>3, <4>1 DEF D!Claim
    <3> QED
      BY <3>1, <3>2, <3>3, PendingFinite, PendingFiniteNext
  <2>6. /\ ~D!Crowded(d) => D!CoveredWith(d, 0)
        /\ D!Crowded(d) => \A a \in D!Sampling(d) : D!CoveredWith(d, D!Since(d, collector[a].seen["readBytes"]))
        /\ D!Crowded(d) => \E a \in D!Sampling(d) : v <= collector[a].seen["readBytes"]
        /\ \A a \in D!Sampling(d) : collector[a].seen["readBytes"] \in Nat /\ collector[a].seen["readBytes"] <= counted
    BY SampledBytes DEF D!OverlapCovered
  \* Of the samples in hand, the spare of any may be used.
  <2>7. ASSUME NEW a \in D!Sampling(d), NEW most \in Nat, counted - collector[a].seen["readBytes"] <= most
        PROVE  \E spare \in Nat : spare <= most /\ D!CoveredWith(d, spare)
    <3>1. CASE ~D!Crowded(d)
      BY <2>6, <3>1
    <3>2. CASE D!Crowded(d)
      <4>1. PICK s \in Nat : s = collector[a].seen["readBytes"] /\ s <= counted
        BY <2>6
      <4>2. D!Since(d, collector[a].seen["readBytes"]) = counted - s /\ counted - s \in Nat
        BY <2>2, <4>1 DEF D!Since
      <4>3. D!CoveredWith(d, counted - s)
        BY <2>6, <3>2, <4>2
      <4> QED
        BY <2>7, <4>1, <4>2, <4>3
    <3> QED
      BY <3>1, <3>2
  <2>8. \E gain \in Nat, claim \in Nat, spare \in Nat :
          /\ credited'[d]["readBytes"] = credit + gain /\ gain <= claim * T
          /\ D!CoveredWith(d, spare) /\ less + claim + spare <= more
    <3>1. CASE cache[d] = NoEntry
      <4>1. D!CoveredWith(d, 0)
        BY <2>6, <3>1 DEF D!Crowded
      <4>2. less + 0 + 0 <= more
        <5> HIDE DEF less, more, lag, counted
        <5> QED
          BY <2>2, <2>3, <2>5, <3>1
      <4>3. 0 <= 0 * T
        BY <2>2
      <4> QED
        BY <2>4, <3>1, <4>1, <4>2, <4>3
    <3>2. CASE cache[d] # NoEntry /\ time = cache[d].at
      <4>1. PICK spare \in Nat : spare <= counted - sample /\ D!CoveredWith(d, spare)
        <5>1. counted - sample \in Nat
          BY <2>2
        <5> QED
          BY <1>5, <2>1, <2>7, <5>1
      <4>2. less + 0 + spare <= more
        <5>1. cache'[d].val["readBytes"] = v
          BY <2>3, <3>2
        <5> HIDE DEF less, more, lag, counted, v
        <5> QED
          BY <2>2, <2>5, <3>2, <4>1, <5>1
      <4>3. rate <= 0 * T /\ rate \in Nat
        BY <2>2, <2>4, <3>2
      <4> QED
        BY <2>4, <3>2, <4>1, <4>2, <4>3
    <3>3. CASE cache[d] # NoEntry /\ time # cache[d].at /\ sample >= v
      <4>1. PICK spare \in Nat : spare <= counted - sample /\ D!CoveredWith(d, spare)
        <5>1. counted - sample \in Nat
          BY <2>2
        <5> QED
          BY <1>5, <2>1, <2>7, <5>1
      <4>2. PICK claim \in Nat : claim = sample - v
        BY <2>2, <3>3
      <4>3. less + claim + spare <= more
        <5>1. cache'[d].val["readBytes"] = sample
          BY <2>3, <3>3
        <5> HIDE DEF less, more, lag, counted, v
        <5> QED
          BY <2>2, <2>5, <3>3, <4>1, <4>2, <5>1
      <4> QED
        BY <2>4, <3>3, <4>1, <4>2, <4>3
    <3>4. CASE cache[d] # NoEntry /\ time # cache[d].at /\ sample < v
      <4>1. PICK spare \in Nat : spare <= counted - v /\ D!CoveredWith(d, spare)
        <5>1. CASE D!Crowded(d)
          <6>1. PICK a \in D!Sampling(d) : v <= collector[a].seen["readBytes"]
            BY <2>6, <5>1
          <6>2. PICK s \in Nat : s = collector[a].seen["readBytes"] /\ s <= counted
            BY <2>6
          <6>3. counted - v \in Nat /\ counted - s <= counted - v
            BY <2>2, <3>4, <6>1, <6>2
          <6> QED
            BY <2>7, <6>2, <6>3
        <5>2. CASE ~D!Crowded(d)
          <6>1. 0 <= counted - v
            BY <2>2, <3>4
          <6> QED
            BY <2>6, <5>2, <6>1
        <5> QED
          BY <5>1, <5>2
      <4>2. less + 0 + spare <= more
        <5>1. cache'[d].val["readBytes"] = sample
          BY <2>3, <3>4
        <5> HIDE DEF less, more, lag, counted, v
        <5> QED
          BY <2>2, <2>5, <3>4, <4>1, <5>1
      <4>3. rate <= 0 * T /\ rate \in Nat
        BY <2>2, <2>4, <3>4
      <4> QED
        BY <2>4, <3>4, <4>1, <4>2, <4>3
    <3>5. cache[d] # NoEntry => sample >= v \/ sample < v
      BY <2>2
    <3> QED
      BY <3>1, <3>2, <3>3, <3>4, <3>5
  <2>9. D!CoveredWith(d, 0)'
    <3>1. PICK gain \in Nat, claim \in Nat, spare \in Nat :
            /\ credited'[d]["readBytes"] = credit + gain /\ gain <= claim * T
            /\ D!CoveredWith(d, spare) /\ less + claim + spare <= more
      BY <2>8
    <3>2. credit + more * T <= (N * read + spare) * T
      BY <3>1, CoveredNow
    <3>3. more \in Nat /\ less \in Nat
      <4>1. cache'[d].val["readBytes"] \in Nat /\ cache'[d].val["readBytes"] <= counted
        BY <2>2, <2>3
      <4> HIDE DEF less, more, lag, counted, v
      <4> QED
        BY <2>2, <2>5, <4>1
    <3>4. (credit + gain) + less * T <= (N * read + 0) * T
      <4> HIDE DEF T, N, credit, read, less, more
      <4>1. N * read \in Nat
        BY <2>2
      <4> QED
        BY <2>2, <3>1, <3>2, <3>3, <4>1, SpareDrops
    <3> QED
      BY <1>1, <3>1, <3>4, CoveredNext
  <2>10. ~D!Crowded(d)'
    BY <2>1 DEF D!Crowded, D!Sampling, D!Busy
  <2>11. cache'[d].val["readBytes"] <= counted
    BY <2>2, <2>3
  <2>12. \A a \in D!Sampling(d)' : collector'[a].seen["readBytes"] <= counted
    BY <2>1, <2>6
  <2> QED
    BY <1>1, <2>3, <2>9, <2>10, <2>11, <2>12 DEF D!OverlapCovered
<1> QED
  BY <1>7, <1>8

LEMMA OverlapInit == D!Init => D!OverlapInv
<1> SUFFICES ASSUME D!Init, NEW d \in Devices PROVE D!OverlapCovered(d)
  BY DEF D!OverlapInv
<1>1. D!TypeOK
  BY RateTypeInit
<1>2. D!Busy(d) = {} /\ D!Sampling(d) = {}
  BY DEF D!Init, D!Idle, D!Busy, D!Sampling
<1>3. cache[d] = NoEntry /\ credited[d]["readBytes"] = 0 /\ grown[d]["readBytes"] = 0
  BY DEF D!Init, D!Zeros, D!ByteKinds, D!Kinds
<1>4. D!Behind(d) = 0
  <2>1. D!Claim(d, counters[d]["readBytes"]) = 0
    BY <1>3 DEF D!Claim
  <2>2. D!Pending(d) = {}
    BY <1>2 DEF D!Pending
  <2>3. Owed(d) = 0
    BY <2>2, FS_EmptySet DEF Owed
  <2> QED
    BY <1>1, <2>1, <2>3, PendingFinite
<1>5. D!CoveredWith(d, 0)
  <2>1. D!TicksPerSecond \in Nat /\ Cardinality(Collectors) \in Nat
    BY <1>1, DeviceTypes, SamplersFinite
  <2>2. 0 + 0 * D!TicksPerSecond <= (Cardinality(Collectors) * 0 + 0) * D!TicksPerSecond
    BY <2>1
  <2> QED
    BY <1>3, <1>4, <2>2, CoveredNow
<1> QED
  BY <1>2, <1>3, <1>5 DEF D!OverlapCovered, D!Crowded

LEMMA OverlapNext ==
  ASSUME D!TypeOK, D!TypeOK', D!OverlapInv, D!Next
  PROVE  D!OverlapInv'
<1> SUFFICES ASSUME resets' = 0, NEW d \in Devices, d \notin stalled' PROVE D!OverlapCovered(d)'
  BY DEF D!OverlapInv
<1>1. ~\E b \in Devices : D!Reattach(b)
  BY RatesAssumption DEF D!Reattach, D!TypeOK
<1>2. CASE D!Tick \/ D!Cleanup \/ \E b \in Devices : \E k \in Growing : D!Grow(b, k)
  <2>1. stalled \subseteq stalled' /\ resets' = resets
    BY <1>2 DEF D!Tick, D!Cleanup, D!Grow, D!ghosts, D!kernel
  <2>2. D!OverlapCovered(d)
    BY <2>1 DEF D!OverlapInv
  <2> QED
    BY <1>2, <2>2, WorldOverlaps
<1>3. ASSUME NEW c \in Collectors, NEW b \in Devices, D!Begin(c, b) PROVE D!OverlapCovered(d)'
  <2>1. stalled = stalled' /\ resets' = resets
    BY <1>3 DEF D!Begin, D!kernel
  <2>2. D!OverlapCovered(d)
    BY <2>1 DEF D!OverlapInv
  <2> QED
    BY <1>3, <2>2, BeginOverlaps
<1>4. ASSUME NEW c \in Collectors, D!Collecting(c) PROVE D!OverlapCovered(d)'
  <2>1. stalled = stalled' /\ resets' = resets
    BY <1>4 DEF D!Collecting, D!ReadRate, D!WriteRate, D!ReadDiskStats, D!ReadIOPS, D!WriteIOPS, D!GetDiskStat,
                D!GetDiskStatTimestamp, D!UpdateDiskStat, D!Calculate, D!ghosts, D!kernel
  <2>2. D!OverlapCovered(d)
    BY <2>1 DEF D!OverlapInv
  <2>3. CASE D!ReadRate(c)
    BY <2>2, <2>3, ReadRateOverlaps
  <2>4. CASE ~D!ReadRate(c)
    <3>1. EntryStays(d)
      BY <2>2 DEF EntryStays, D!OverlapCovered
    <3>2. ReadsKept(d)
      BY <1>4, <2>4, <3>1, OtherStepsKeep
    <3> QED
      BY <2>2, <3>2, OverlapUntouched
  <2> QED
    BY <2>3, <2>4
<1> QED
  BY <1>1, <1>2, <1>3, <1>4 DEF D!Next

LEMMA OverlapsAreBounded == D!TypeOK /\ D!OverlapInv => D!OverlapBounded
<1> SUFFICES ASSUME D!TypeOK, D!OverlapInv, resets = 0, NEW d \in Devices \ stalled
             PROVE  credited[d]["readBytes"] <= D!Cardinality(Collectors) * grown[d]["readBytes"] * D!TicksPerSecond
  BY DEF D!OverlapBounded, D!Conserved
<1> DEFINE T == D!TicksPerSecond
           N == Cardinality(Collectors)
           credit == credited[d]["readBytes"]
           read == grown[d]["readBytes"]
           behind == D!Behind(d)
<1>1. /\ credit \in Nat /\ read \in Nat /\ T \in Nat /\ N \in Nat /\ behind \in Nat
      /\ counters[d]["readBytes"] \in Nat
  <2>1. credit \in Nat /\ read \in Nat /\ T \in Nat /\ N \in Nat /\ counters[d]["readBytes"] \in Nat
    BY DeviceTypes, SamplersFinite
  <2>2. D!Claim(d, counters[d]["readBytes"]) \in Nat
    BY <2>1, DeviceTypes
  <2>3. behind = Owed(d) + D!Claim(d, counters[d]["readBytes"]) /\ Owed(d) \in Nat
    BY PendingFinite
  <2> QED
    BY <2>1, <2>2, <2>3
<1>2. D!OverlapCovered(d)
  BY DEF D!OverlapInv
<1>3. CASE ~D!Crowded(d)
  <2>1. credit + behind * T <= (N * read + 0) * T
    BY <1>2, <1>3, CoveredNow DEF D!OverlapCovered
  <2>2. credit <= N * read * T
    <3> HIDE DEF T, N, credit, read, behind
    <3>1. N * read \in Nat /\ behind * T \in Nat
      BY <1>1
    <3>2. (N * read + 0) * T = N * read * T /\ N * read * T \in Nat
      BY <1>1, <3>1
    <3> QED
      BY <1>1, <2>1, <3>1, <3>2
  <2> QED
    BY <2>2, SameCardinality
<1>4. CASE D!Crowded(d)
  <2>1. PICK c \in D!Sampling(d) : cache[d].val["readBytes"] <= collector[c].seen["readBytes"]
    BY <1>2, <1>4 DEF D!OverlapCovered
  <2>2. PICK s \in Nat : s = collector[c].seen["readBytes"] /\ s <= counters[d]["readBytes"]
    BY <1>2, SampledBytes DEF D!OverlapCovered
  <2>3. PICK spare \in Nat : spare = counters[d]["readBytes"] - s
    BY <1>1, <2>2
  <2>4. credit + behind * T <= (N * read + spare) * T
    <3>1. D!Since(d, collector[c].seen["readBytes"]) = spare
      BY <1>1, <2>2, <2>3 DEF D!Since
    <3>2. D!CoveredWith(d, spare)
      BY <1>2, <1>4, <3>1 DEF D!OverlapCovered
    <3> QED
      BY <3>2, CoveredNow
  <2>5. spare <= behind
    <3>1. cache[d] # NoEntry /\ cache[d].val["readBytes"] \in Nat
      BY <1>4, DeviceTypes DEF D!Crowded
    <3>2. D!Claim(d, counters[d]["readBytes"]) = counters[d]["readBytes"] - cache[d].val["readBytes"]
      BY <1>1, <1>2, <3>1 DEF D!Claim, D!OverlapCovered
    <3>3. behind = Owed(d) + D!Claim(d, counters[d]["readBytes"]) /\ Owed(d) \in Nat
      BY PendingFinite
    <3> HIDE DEF behind
    <3> QED
      BY <1>1, <2>1, <2>2, <2>3, <3>1, <3>2, <3>3
  <2>6. credit <= N * read * T
    <3> HIDE DEF T, N, credit, read, behind
    <3>1. PICK a \in Nat : a = N * read
      BY <1>1
    <3>2. (credit + 0) + 0 * T <= (a + 0) * T
      <4>1. credit + behind * T <= (a + spare) * T /\ 0 <= 0 * T /\ 0 + 0 + spare <= behind
        BY <1>1, <2>4, <2>5, <3>1
      <4> QED
        BY <1>1, <4>1, SpareDrops
    <3>3. (credit + 0) + 0 * T = credit /\ (a + 0) * T = a * T
      BY <1>1
    <3> QED
      BY <3>1, <3>2, <3>3
  <2> QED
    BY <2>6, SameCardinality
<1> QED
  BY <1>3, <1>4

\* However many collections of a device overlap, overtake each other between
\* disk.IOCounters and calculateDiskIORate, and store an old sample over a newer
\* one: as long as no device is attached again and none is held up until its
\* entry expires, the read rates reported account for every byte read at most
\* once for each of the collectors.
THEOREM RepeatsAlwaysBounded == MCSpec => []OverlapBounded
<1> DEFINE Inv == part = "rates" => D!TypeOK /\ D!ReadsInv /\ D!OverlapInv
<1>1. MCInit => Inv
  BY RateTypeInit, ReadsInit, OverlapInit DEF MCInit
<1>2. Inv /\ [MCNext]_MCvars => Inv'
  <2> SUFFICES ASSUME Inv, [MCNext]_MCvars, part' = "rates" PROVE D!TypeOK' /\ D!ReadsInv' /\ D!OverlapInv'
    OBVIOUS
  <2>1. CASE part = "rates" /\ D!Next
    BY <2>1, RatesNext, OverlapNext
  <2>2. CASE UNCHANGED MCvars
    <3>1. D!TypeOK /\ D!ReadsInv /\ D!OverlapInv
      BY <2>2 DEF MCvars
    <3>2. UNCHANGED <<time, counters, resets, cache, collector, grown, credited, overlapped, stalled>>
      BY <2>2 DEF MCvars, rates
    <3>3. D!TypeOK'
      BY <3>1, <3>2 DEF D!TypeOK
    <3>4. D!ReadsInv'
      BY <3>1, <3>2 DEF D!ReadsInv, D!ReadsCovered, D!Busy, D!Sampling, D!Covered, D!Claim, D!Since, D!TicksPerSecond
    <3>5. D!OverlapInv'
      <4> SUFFICES ASSUME resets' = 0, NEW d \in Devices, d \notin stalled' PROVE D!OverlapCovered(d)'
        BY DEF D!OverlapInv
      <4>1. D!OverlapCovered(d)
        BY <3>1, <3>2 DEF D!OverlapInv
      <4>2. ReadsKept(d)
        BY <3>2 DEF ReadsKept, D!Busy, D!Sampling
      <4> QED
        BY <3>1, <4>1, <4>2, OverlapUntouched
    <3> QED
      BY <3>3, <3>4, <3>5
  <2> QED
    BY <2>1, <2>2 DEF MCNext, MCvars
<1>3. Inv => OverlapBounded
  BY OverlapsAreBounded DEF OverlapBounded
<1> HIDE DEF Inv
<1> QED
  BY <1>1, <1>2, <1>3, PTL DEF MCSpec

-----------------------------------------------------------------------------
(***************************************************************************)
(* What is read from the kernel, whatever it shows: grades of values, the  *)
(* rates of a process, pressures, and the names of processes.              *)
(***************************************************************************)
\* Use, latencies and rates are whole numbers here.
Loads == [cpu : Int, memory : Int, io : Int]

\* The severity of a pressure is the last of the grades whose threshold one of
\* its averages has reached.
LEMMA SeverityIsReached ==
  ASSUME NEW averages \in [1..3 -> Nat]
  PROVE  /\ L!SeverityRank(averages) \in 1..5
         /\ \E i \in 1..3 : averages[i] >= L!Thresholds[L!SeverityRank(averages)][i]
         /\ \A s \in 1..5, i \in 1..3 :
              s > L!SeverityRank(averages) => averages[i] < L!Thresholds[s][i]
<1> DEFINE reached == {s \in 1..5 : \E i \in 1..3 : averages[i] >= L!Thresholds[s][i]}
<1>1. 1 \in reached
  BY DEF L!Thresholds
<1>2. PICK r \in reached : \A s \in reached : s <= r
  <2>1. reached \in SUBSET (1..5) /\ reached # {}
    BY <1>1
  <2> QED
    BY <2>1, LargestOfSome
<1>3. ASSUME NEW s \in (r + 1)..5, NEW i \in 1..3 PROVE averages[i] < L!Thresholds[s][i]
  <2>1. s \in 1..5 /\ s \notin reached
    BY <1>2
  <2>2. L!Thresholds[s][i] \in Int
    BY <2>1 DEF L!Thresholds
  <2> QED
    BY <2>1, <2>2
<1>4. \E q \in 1..5 : /\ \E i \in 1..3 : averages[i] >= L!Thresholds[q][i]
                      /\ \A s \in (q + 1)..5, i \in 1..3 : averages[i] < L!Thresholds[s][i]
  BY <1>2, <1>3
<1>5. LET q == L!SeverityRank(averages)
      IN  /\ q \in 1..5
          /\ \E i \in 1..3 : averages[i] >= L!Thresholds[q][i]
          /\ \A s \in (q + 1)..5, i \in 1..3 : averages[i] < L!Thresholds[s][i]
  BY <1>4, Zenon DEF L!SeverityRank
<1> QED
  BY <1>5

LEMMA SeverityIsMonotone ==
  ASSUME NEW a \in [1..3 -> Nat], NEW b \in [1..3 -> Nat], \A i \in 1..3 : a[i] <= b[i]
  PROVE  L!SeverityRank(a) <= L!SeverityRank(b)
<1> DEFINE r == L!SeverityRank(a)
           q == L!SeverityRank(b)
<1>1. r \in 1..5 /\ q \in 1..5
  BY SeverityIsReached
<1>2. PICK i \in 1..3 : a[i] >= L!Thresholds[r][i]
  BY SeverityIsReached
<1>3. L!Thresholds[r][i] \in Int
  BY <1>1 DEF L!Thresholds
<1>4. q < r => b[i] < L!Thresholds[r][i]
  BY <1>1, SeverityIsReached
<1> QED
  BY <1>1, <1>2, <1>3, <1>4

\* DomainValues: more use never makes for a better grade, whatever the numbers:
\* the severity of a pressure, the intensity of a process, its place among the
\* processes and the level of a disk can only rise with what they depend on
\* (GradesAreMonotone, which TLC checks at the thresholds).
THEOREM GradesAlwaysMonotone ==
  /\ \A a, b \in [1..3 -> Nat] :
       (\A i \in 1..3 : a[i] <= b[i]) => L!SeverityRank(a) <= L!SeverityRank(b)
  /\ \A p, q \in Loads :
       p.cpu <= q.cpu /\ p.memory <= q.memory /\ p.io <= q.io =>
         /\ L!IntensityRank[L!GetResourceIntensity(p)] <= L!IntensityRank[L!GetResourceIntensity(q)]
         /\ L!CompareTo(p, q) <= 0 /\ L!CompareTo(q, p) >= 0
  /\ \A u, v, x, y \in Int :
       u <= v /\ x <= y =>
         L!PerformanceRank[L!GetPerformanceLevel(u, x)] <= L!PerformanceRank[L!GetPerformanceLevel(v, y)]
<1>1. ASSUME NEW p \in Loads, NEW q \in Loads, p.cpu <= q.cpu, p.memory <= q.memory, p.io <= q.io
      PROVE  /\ L!IntensityRank[L!GetResourceIntensity(p)] <= L!IntensityRank[L!GetResourceIntensity(q)]
             /\ L!CompareTo(p, q) <= 0 /\ L!CompareTo(q, p) >= 0
  <2>1. /\ p.cpu \in Int /\ p.memory \in Int /\ p.io \in Int
        /\ q.cpu \in Int /\ q.memory \in Int /\ q.io \in Int
    BY DEF Loads
  <2>2. L!IntensityRank[L!GetResourceIntensity(p)] <= L!IntensityRank[L!GetResourceIntensity(q)]
    <3>1. /\ L!IntensityRank["LOW"] = 1 /\ L!IntensityRank["MEDIUM"] = 2
          /\ L!IntensityRank["HIGH"] = 3 /\ L!IntensityRank["CRITICAL"] = 4
      BY DEF L!IntensityRank
    <3> QED
      BY <1>1, <2>1, <3>1 DEF L!GetResourceIntensity, L!IsCritical, L!IsWarning, L!IsHighIO
  <2>3. /\ L!CalculateResourceScore(p) \in Int /\ L!CalculateResourceScore(q) \in Int
        /\ L!CalculateResourceScore(p) <= L!CalculateResourceScore(q)
    BY <1>1, <2>1 DEF L!CalculateResourceScore
  <2>4. L!CompareTo(p, q) <= 0 /\ L!CompareTo(q, p) >= 0
    BY <2>3 DEF L!CompareTo
  <2> QED
    BY <2>2, <2>4
<1>2. ASSUME NEW u \in Int, NEW v \in Int, NEW x \in Int, NEW y \in Int, u <= v, x <= y
      PROVE  L!PerformanceRank[L!GetPerformanceLevel(u, x)] <= L!PerformanceRank[L!GetPerformanceLevel(v, y)]
  <2>1. /\ L!PerformanceRank["EXCELLENT"] = 1 /\ L!PerformanceRank["GOOD"] = 2
        /\ L!PerformanceRank["FAIR"] = 3 /\ L!PerformanceRank["POOR"] = 4 /\ L!PerformanceRank["CRITICAL"] = 5
    BY DEF L!PerformanceRank
  <2> QED
    BY <1>2, <2>1 DEF L!GetPerformanceLevel, L!IsCritical, L!IsWarning
<1> QED
  BY <1>1, <1>2, SeverityIsMonotone

IOKinds == {"read", "write"}
IOEntries == [val : [IOKinds -> Nat], at : Int]
IOCalls == [kind : IOKinds, bytes : Nat, at : Int]

\* By how much a is more than b.
Beyond(a, b) == IF a > b THEN a - b ELSE 0

\* The tale of a sequence of calls for one process: after each of them the
\* entry, the bytes read that were reported last, those that the read rates,
\* each times its interval, have claimed, and the growth of the counter.
TellsOf(tale, calls) ==
  /\ tale[0] = [entry |-> Unread, last |-> 0, claimed |-> 0, grown |-> 0]
  /\ \A i \in 1..Len(calls) :
       LET before == tale[i - 1]
           call   == calls[i]
           r      == L!calculateIORate(before.entry, call.kind, call.bytes, call.at)
           read   == call.kind = "read"
       IN  tale[i] =
             [entry   |-> r.entry,
              last    |-> IF read THEN call.bytes ELSE before.last,
              claimed |-> before.claimed +
                            IF read /\ before.entry # Unread
                            THEN r.rate * (call.at - before.entry.at) ELSE 0,
              grown   |-> before.grown + IF read THEN Beyond(call.bytes, before.last) ELSE 0]

\* What holds after each call: what was reported last and the entry has not
\* been told is still to be claimed.
StillToClaim(t) ==
  /\ t.entry \in IOEntries /\ t.last \in Nat /\ t.claimed \in Nat /\ t.grown \in Nat
  /\ t.claimed + Beyond(t.last, t.entry.val["read"]) <= t.grown

LEMMA BeyondAddsUp ==
  ASSUME NEW last \in Nat, NEW v \in Nat, NEW bytes \in Nat, NEW claimed \in Nat, NEW growth \in Nat,
         NEW claim \in Nat, claimed + Beyond(last, v) <= growth
  PROVE  /\ growth + Beyond(bytes, last) \in Nat /\ claimed + claim \in Nat
         /\ claimed + Beyond(bytes, v) <= growth + Beyond(bytes, last)
         /\ claim <= Beyond(bytes, v) => claimed + claim + Beyond(bytes, bytes) <= growth + Beyond(bytes, last)
  BY DEF Beyond

LEMMA NoEntryIsUnread == ASSUME NEW e \in IOEntries PROVE e # Unread
  BY ReadersAssumption DEF IOEntries, IOKinds

\* What has passed between two readings of the clock.
LEMMA LaterIsElapsed ==
  ASSUME NEW at \in Int, NEW last \in Int, at > last
  PROVE  at - last \in Nat \ {0} /\ ~(at <= last)
  OBVIOUS

\* A rate, times the interval it is over, is no more than the growth.
LEMMA RateWithinGrowth ==
  ASSUME NEW bytes \in Nat, NEW w \in Nat, NEW dt \in Nat \ {0}, NEW rate,
         rate = IF bytes < w THEN 0 ELSE (bytes - w) \div dt
  PROVE  rate * dt \in Nat /\ rate * dt <= Beyond(bytes, w)
<1>1. CASE bytes < w
  BY <1>1 DEF Beyond
<1>2. CASE ~(bytes < w)
  <2>1. bytes - w \in Nat /\ Beyond(bytes, w) = bytes - w /\ rate = (bytes - w) \div dt
    BY <1>2 DEF Beyond
  <2>2. rate \in Nat /\ dt \in Nat /\ rate * dt <= bytes - w
    BY <2>1, QuotientTimesDivisor, Zenon
  <2>3. rate * dt \in Nat
    BY <2>2
  <2> QED
    BY <2>1, <2>2, <2>3, Zenon
<1> QED
  BY <1>1, <1>2

LEMMA IOEntryOf ==
  ASSUME NEW m \in [IOKinds -> Nat], NEW at \in Int
  PROVE  [val |-> m, at |-> at] \in IOEntries
  BY DEF IOEntries

LEMMA ClaimsAfterCall ==
  ASSUME NEW tale, NEW calls \in Seq(IOCalls), TellsOf(tale, calls),
         NEW i \in 1..Len(calls), StillToClaim(tale[i - 1])
  PROVE  StillToClaim(tale[i])
<1> DEFINE b == tale[i - 1]
           call == calls[i]
           e == b.entry
           v == e.val["read"]
           r == L!calculateIORate(e, call.kind, call.bytes, call.at)
<1>1. /\ call \in IOCalls /\ call.kind \in IOKinds /\ call.bytes \in Nat /\ call.at \in Int
  <2>1. call \in IOCalls
    OBVIOUS
  <2> QED
    BY <2>1 DEF IOCalls
<1>2. /\ e \in IOEntries /\ e # Unread /\ v \in Nat /\ e.at \in Int /\ e.val \in [IOKinds -> Nat]
      /\ b.last \in Nat /\ b.claimed \in Nat /\ b.grown \in Nat
      /\ b.claimed + Beyond(b.last, v) <= b.grown
  BY NoEntryIsUnread DEF StillToClaim, IOEntries, IOKinds
<1>3. tale[i] = [entry   |-> r.entry,
                 last    |-> IF call.kind = "read" THEN call.bytes ELSE b.last,
                 claimed |-> b.claimed + IF call.kind = "read" THEN r.rate * (call.at - e.at) ELSE 0,
                 grown   |-> b.grown + IF call.kind = "read" THEN Beyond(call.bytes, b.last) ELSE 0]
  BY <1>2 DEF TellsOf
<1>4. CASE call.at <= e.at
  <2>1. r.entry = e /\ r.rate = 0
    BY <1>2, <1>4 DEF L!calculateIORate
  <2>2. 0 * (call.at - e.at) = 0
    BY <1>1, <1>2
  <2> HIDE DEF r
  <2>3. CASE call.kind = "read"
    <3>1. /\ tale[i].entry = e /\ tale[i].claimed = b.claimed /\ tale[i].last = call.bytes
          /\ tale[i].grown = b.grown + Beyond(call.bytes, b.last)
      BY <1>2, <1>3, <2>1, <2>2, <2>3
    <3>2. /\ b.grown + Beyond(call.bytes, b.last) \in Nat
          /\ b.claimed + Beyond(call.bytes, v) <= b.grown + Beyond(call.bytes, b.last)
      BY <1>1, <1>2, BeyondAddsUp
    <3> QED
      BY <1>1, <1>2, <3>1, <3>2 DEF StillToClaim
  <2>4. CASE call.kind # "read"
    <3>1. /\ tale[i].entry = e /\ tale[i].claimed = b.claimed /\ tale[i].last = b.last
          /\ tale[i].grown = b.grown
      BY <1>2, <1>3, <2>1, <2>4
    <3> QED
      BY <1>2, <3>1 DEF StillToClaim
  <2> QED
    BY <2>3, <2>4
<1>5. CASE call.at > e.at
  <2> DEFINE w == e.val[call.kind]
             dt == call.at - e.at
             delta == call.bytes - w
  <2>1. w \in Nat
    BY <1>1, <1>2
  <2>2. dt \in Nat \ {0} /\ ~(call.at <= e.at)
    BY <1>1, <1>2, <1>5, LaterIsElapsed, Zenon
  <2>3. r = [rate  |-> IF call.bytes < w THEN 0 ELSE delta \div dt,
             entry |-> [val |-> [e.val EXCEPT ![call.kind] = call.bytes], at |-> call.at]]
    BY <1>2, <2>2, Zenon DEF L!calculateIORate
  <2>4. r.entry = [val |-> [e.val EXCEPT ![call.kind] = call.bytes], at |-> call.at]
    <3> HIDE DEF r, w, dt, delta
    <3> QED
      BY <2>3
  <2>5. r.rate = IF call.bytes < w THEN 0 ELSE delta \div dt
    <3> HIDE DEF r, w, dt, delta
    <3> QED
      BY <2>3
  <2>6. r.rate * dt \in Nat /\ r.rate * dt <= Beyond(call.bytes, w)
    BY <1>1, <2>1, <2>2, <2>5, RateWithinGrowth, Zenon
  <2> HIDE DEF r
  <2>7. r.entry \in IOEntries
    <3>1. [e.val EXCEPT ![call.kind] = call.bytes] \in [IOKinds -> Nat]
      BY <1>1, <1>2
    <3> QED
      BY <1>1, <2>4, <3>1, IOEntryOf, Zenon
  <2>8. CASE call.kind = "read"
    <3>1. r.entry.val["read"] = call.bytes /\ "read" \in IOKinds
      BY <1>2, <2>4, <2>8 DEF IOKinds
    <3>2. r.rate * dt \in Nat /\ r.rate * dt <= Beyond(call.bytes, v)
      BY <2>6, <2>8, Zenon
    <3> DEFINE claim == r.rate * dt
    <3>3. /\ tale[i].entry = r.entry /\ tale[i].last = call.bytes
          /\ tale[i].claimed = b.claimed + claim
          /\ tale[i].grown = b.grown + Beyond(call.bytes, b.last)
      BY <1>3, <2>8
    <3> HIDE DEF claim
    <3>4. claim \in Nat /\ claim <= Beyond(call.bytes, v)
      BY <3>2 DEF claim
    <3>5. /\ b.grown + Beyond(call.bytes, b.last) \in Nat /\ b.claimed + claim \in Nat
          /\ b.claimed + claim + Beyond(call.bytes, call.bytes) <= b.grown + Beyond(call.bytes, b.last)
      <4>1. /\ b.last \in Nat /\ v \in Nat /\ call.bytes \in Nat /\ b.claimed \in Nat /\ b.grown \in Nat
            /\ claim \in Nat /\ b.claimed + Beyond(b.last, v) <= b.grown /\ claim <= Beyond(call.bytes, v)
        BY <1>1, <1>2, <3>4
      <4> HIDE DEF b, call, v
      <4> QED
        BY <4>1, BeyondAddsUp
    <3> QED
      BY <1>1, <2>7, <3>1, <3>3, <3>5 DEF StillToClaim
  <2>9. CASE call.kind # "read"
    <3>1. r.entry.val["read"] = v
      <4>1. "read" \in IOKinds /\ r.entry.val = [e.val EXCEPT ![call.kind] = call.bytes]
        BY <2>4 DEF IOKinds
      <4> HIDE DEF call
      <4> QED
        BY <1>2, <2>9, <4>1
    <3> QED
      BY <1>2, <1>3, <2>7, <2>9, <3>1 DEF StillToClaim
  <2> QED
    BY <2>8, <2>9
<1> QED
  BY <1>1, <1>2, <1>4, <1>5

\* LinuxReaders, calculateIORate: however a process's counters grow and restart,
\* a look that cannot read them among it, which is a restart at zero, whatever
\* the times of the calls, and however calls for reads and writes follow one
\* another after the first, which is one for reads: the read rates, each times
\* its interval, never claim more than the counter as the calls saw it has
\* grown.
THEOREM ProcessReadsAlwaysConserved ==
  ASSUME NEW calls \in Seq(IOCalls), NEW tale, TellsOf(tale, calls),
         Len(calls) > 0, calls[1].kind = "read"
  PROVE  \A i \in 1..Len(calls) : tale[i].claimed <= tale[i].grown
<1> DEFINE n == Len(calls)
           P == {i \in 0..n : i > 0 => StillToClaim(tale[i])}
<1>1. n \in Nat /\ n > 0
  OBVIOUS
<1>2. 0 \in P
  BY <1>1
<1>3. StillToClaim(tale[1])
  <2> DEFINE c == calls[1]
             r == L!calculateIORate(Unread, c.kind, c.bytes, c.at)
  <2>1. c \in IOCalls /\ c.kind = "read" /\ c.bytes \in Nat /\ c.at \in Int
    <3>1. c \in IOCalls
      BY <1>1
    <3> QED
      BY <3>1 DEF IOCalls
  <2>2. r.entry = [val |-> [k \in IOKinds |-> c.bytes], at |-> c.at]
    BY DEF L!calculateIORate, IOKinds
  <2>3. tale[0] = [entry |-> Unread, last |-> 0, claimed |-> 0, grown |-> 0] /\ 1 - 1 = 0 /\ 1 \in 1..n
    BY <1>1 DEF TellsOf
  <2>4. tale[1] = [entry   |-> r.entry, last |-> c.bytes, claimed |-> 0 + 0,
                   grown   |-> 0 + Beyond(c.bytes, 0)]
    BY <2>1, <2>3 DEF TellsOf
  <2>5. r.entry \in IOEntries /\ r.entry.val["read"] = c.bytes
    BY <2>1, <2>2 DEF IOEntries, IOKinds
  <2> HIDE DEF r
  <2> QED
    BY <2>1, <2>4, <2>5 DEF StillToClaim, Beyond
<1>4. ASSUME NEW i \in 1..n, i - 1 \in P PROVE i \in P
  <2>1. CASE i = 1
    BY <1>1, <1>3, <2>1
  <2>2. CASE i # 1
    <3>1. StillToClaim(tale[i - 1])
      BY <1>1, <1>4, <2>2
    <3> QED
      BY <1>1, <3>1, ClaimsAfterCall
  <2> QED
    BY <2>1, <2>2
<1>5. \A i \in 0..n : i \in P
  <2> HIDE DEF P, n
  <2> QED
    BY <1>1, <1>2, <1>4, InductionUpTo
<1>6. ASSUME NEW i \in 1..n PROVE tale[i].claimed <= tale[i].grown
  <2>1. StillToClaim(tale[i])
    BY <1>1, <1>5
  <2>2. tale[i].entry.val["read"] \in Nat
    BY <2>1 DEF StillToClaim, IOEntries, IOKinds
  <2> QED
    BY <2>1, <2>2 DEF StillToClaim, Beyond
<1> QED
  BY <1>6

PSIParts == Seq(STRING \X (Int \cup {Unread}))
PSILines == [head : STRING, parts : PSIParts]
PSIFiles == [opens : {"yes", "absent", "refused"}, complete : BOOLEAN, lines : Seq(PSILines)]

\* A line that says at least four things, its averages and total all numbers.
Readable(line) ==
  /\ Len(line.parts) >= 4
  /\ \A i \in DOMAIN line.parts :
       line.parts[i][1] \in L!Averages \cup {"total"} => line.parts[i][2] # Unread

\* The last of some indices of a sequence is one of them.
LEMMA LastOfSome ==
  ASSUME NEW S, NEW s \in Seq(S), NEW at \in SUBSET DOMAIN s, at # {}
  PROVE  L!Max(at) \in at /\ \A i \in at : i <= L!Max(at)
<1>1. Len(s) \in Nat /\ DOMAIN s = 1..Len(s)
  OBVIOUS
<1>2. \E x \in at : \A y \in at : y <= x
  BY <1>1, LargestOfSome
<1>3. \E x \in at : \A y \in at : x >= y
  BY <1>1, <1>2
<1>4. L!Max(at) \in at /\ \A y \in at : L!Max(at) >= y
  BY <1>3, Zenon DEF L!Max
<1> QED
  BY <1>1, <1>4

LEMMA PairIsWhole ==
  ASSUME NEW A, NEW B, NEW p \in A \X B
  PROVE  p = <<p[1], p[2]>> /\ p[1] \in A /\ p[2] \in B
OBVIOUS

\* A line is parsed when it can be read, and then tells what is on it.
LEMMA LineIsParsed ==
  ASSUME NEW line \in PSILines
  PROVE  /\ L!Succeeded(L!parsePSILine(line)) <=> Readable(line)
         /\ Readable(line) => \A k \in L!Averages :
              /\ L!parsePSILine(line).value[k] \in Int
              /\ L!parsePSILine(line).value[k] # 0 =>
                   \E i \in DOMAIN line.parts : line.parts[i] = <<k, L!parsePSILine(line).value[k]>>
<1> DEFINE parts == line.parts
<1>1. parts \in PSIParts /\ Len(parts) \in Nat /\ DOMAIN parts = 1..Len(parts)
  BY DEF PSILines, PSIParts
<1>2. /\ ~Readable(line) => L!parsePSILine(line).error = "parsing"
      /\ Readable(line) => /\ L!parsePSILine(line).error = "none"
                           /\ L!parsePSILine(line).value = [k \in L!Averages |-> L!LastWithKey(parts, k)]
  <2>1. Len(parts) < 4 <=> ~(Len(parts) >= 4)
    BY <1>1
  <2> QED
    BY <2>1 DEF L!parsePSILine, Readable, L!Failure, L!Answer
<1>3. L!Succeeded(L!parsePSILine(line)) <=> Readable(line)
  BY <1>2 DEF L!Succeeded
<1>4. ASSUME Readable(line), NEW k \in L!Averages
      PROVE  LET v == L!parsePSILine(line).value[k]
             IN  v \in Int /\ (v # 0 => \E i \in DOMAIN parts : parts[i] = <<k, v>>)
  <2> DEFINE at == {i \in DOMAIN parts : parts[i][1] = k}
  <2>1. L!parsePSILine(line).value[k] = IF at = {} THEN 0 ELSE parts[L!Max(at)][2]
    BY <1>2, <1>4 DEF L!LastWithKey
  <2>2. CASE at = {}
    BY <2>1, <2>2
  <2>3. CASE at # {}
    <3>1. L!Max(at) \in at
      BY <1>1, <2>3, LastOfSome DEF PSIParts
    <3>2. PICK i \in DOMAIN parts : i = L!Max(at) /\ parts[i][1] = k
      BY <3>1
    <3>3. parts[i] \in STRING \X (Int \cup {Unread})
      BY <1>1 DEF PSIParts
    <3>4. parts[i][2] # Unread
      BY <1>4, <3>2 DEF Readable
    <3>5. parts[i] = <<k, parts[i][2]>> /\ parts[i][2] \in Int
      <4>1. parts[i] = <<parts[i][1], parts[i][2]>> /\ parts[i][2] \in Int \cup {Unread}
        BY <3>3, PairIsWhole
      <4>2. parts[i][2] \in Int
        BY <3>4, <4>1
      <4>3. parts[i][1] = k
        BY <3>2
      <4> QED
        BY <4>1, <4>2, <4>3, Zenon
    <3>6. L!parsePSILine(line).value[k] = parts[i][2]
      BY <2>1, <2>3, <3>2
    <3> QED
      BY <3>5, <3>6
  <2> QED
    BY <2>2, <2>3
<1> QED
  BY <1>3, <1>4

\* What a file tells of an average is on one of its lines.
LEMMA LineIsFound ==
  ASSUME NEW file \in PSIFiles, NEW h \in L!Heads, NEW k \in L!Averages,
         \A i \in DOMAIN file.lines : file.lines[i].head \in L!Heads => Readable(file.lines[i])
  PROVE  LET v == L!LineOf(file.lines, h)[k]
         IN  /\ v \in Int
             /\ v # 0 => \E i \in DOMAIN file.lines :
                  /\ file.lines[i].head = h
                  /\ \E j \in DOMAIN file.lines[i].parts : file.lines[i].parts[j] = <<k, v>>
<1> DEFINE lines == file.lines
           at == {i \in DOMAIN lines : lines[i].head = h}
           v == L!LineOf(lines, h)[k]
<1>1. lines \in Seq(PSILines)
  BY DEF PSIFiles
<1>2. L!LineOf(lines, h) = IF at = {} THEN L!ZeroAverages ELSE L!parsePSILine(lines[L!Max(at)]).value
  BY DEF L!LineOf
<1>3. CASE at = {}
  BY <1>2, <1>3 DEF L!ZeroAverages
<1>4. CASE at # {}
  <2>1. L!Max(at) \in at
    BY <1>1, <1>4, LastOfSome
  <2>2. PICK i \in DOMAIN lines : i = L!Max(at) /\ lines[i].head = h
    BY <2>1
  <2>3. lines[i] \in PSILines /\ Readable(lines[i])
    <3>1. lines[i] \in PSILines
      BY <1>1
    <3>2. lines[i].head \in L!Heads
      BY <2>2
    <3> QED
      BY <3>1, <3>2, Zenon
  <2>4. v = L!parsePSILine(lines[i]).value[k]
    BY <1>2, <1>4, <2>2
  <2>5. /\ v \in Int
        /\ v # 0 => \E j \in DOMAIN lines[i].parts : lines[i].parts[j] = <<k, v>>
    BY <2>3, <2>4, LineIsParsed
  <2> QED
    BY <2>2, <2>5
<1> QED
  BY <1>3, <1>4

\* Of a whole number, Percent answers a percentage: the number or zero.
LEMMA PercentOrZero ==
  ASSUME NEW v \in Int
  PROVE  /\ L!Percent(v) \in 0..100 /\ L!Percent(v) \in {0, v}
         /\ v <= 0 => L!Percent(v) = 0
BY DEF L!Percent, L!OrZero, L!NewPercentage

\* LinuxReaders, collectIOPressure and its copies for memory and CPU: whatever
\* is in a pressure file, and however long it is, the pressure is an answer only
\* where every line of it is well formed and the file was read to its end; every
\* average is a percentage, and one other than zero is shown by the file under
\* its head (zero also stands for one that the last line with the head lacks, or
\* shows as no percentage); and the three readers answer alike.
THEOREM PressuresAlwaysWhole ==
  \A file \in PSIFiles :
    LET r == L!collectIOPressure(file)
    IN  /\ L!collectCPUPressure(file) = r /\ L!collectMemoryPressure(file) = r
        /\ L!Succeeded(r) <=>
             /\ file.opens = "yes" /\ file.complete
             /\ \A i \in DOMAIN file.lines : file.lines[i].head \in L!Heads => Readable(file.lines[i])
        /\ L!Succeeded(r) => \A h \in L!Heads, k \in L!Averages :
             /\ r.value[h][k] \in 0..100
             /\ r.value[h][k] # 0 => \E i \in DOMAIN file.lines :
                  /\ file.lines[i].head = h
                  /\ \E j \in DOMAIN file.lines[i].parts : file.lines[i].parts[j] = <<k, r.value[h][k]>>
<1> SUFFICES ASSUME NEW file \in PSIFiles
             PROVE  LET r == L!collectIOPressure(file)
                    IN  /\ L!collectCPUPressure(file) = r /\ L!collectMemoryPressure(file) = r
                        /\ L!Succeeded(r) <=>
                             /\ file.opens = "yes" /\ file.complete
                             /\ \A i \in DOMAIN file.lines : file.lines[i].head \in L!Heads => Readable(file.lines[i])
                        /\ L!Succeeded(r) => \A h \in L!Heads, k \in L!Averages :
                             /\ r.value[h][k] \in 0..100
                             /\ r.value[h][k] # 0 => \E i \in DOMAIN file.lines :
                                  /\ file.lines[i].head = h
                                  /\ \E j \in DOMAIN file.lines[i].parts :
                                       file.lines[i].parts[j] = <<k, r.value[h][k]>>
  OBVIOUS
<1> DEFINE r == L!collectIOPressure(file)
           allRead == \A i \in DOMAIN file.lines : file.lines[i].head \in L!Heads => Readable(file.lines[i])
           whole == file.opens = "yes" /\ file.complete /\ allRead
           told(h, k) == L!LineOf(file.lines, h)[k]
<1>1. /\ file.opens \in {"yes", "absent", "refused"} /\ file.complete \in BOOLEAN
      /\ \A i \in DOMAIN file.lines : file.lines[i] \in PSILines
  BY DEF PSIFiles
<1>2. allRead <=> ~\E i \in DOMAIN file.lines :
                     file.lines[i].head \in L!Heads /\ ~L!Succeeded(L!parsePSILine(file.lines[i]))
  BY <1>1, LineIsParsed
<1>3. /\ whole => /\ r.error = "none"
                  /\ r = L!Answer([h \in L!Heads |-> [k \in L!Averages |-> L!Percent(told(h, k))]])
      /\ ~whole => r.error \in {"not_supported", "io", "parsing"}
  <2> HIDE DEF allRead
  <2>1. CASE whole
    BY <1>2, <2>1 DEF L!collectIOPressure, L!Answer
  <2>2. CASE file.opens # "yes"
    BY <1>1, <2>2 DEF L!collectIOPressure, L!Failure
  <2>3. CASE file.opens = "yes" /\ ~allRead
    BY <1>2, <2>3 DEF L!collectIOPressure, L!Failure
  <2>4. CASE file.opens = "yes" /\ allRead /\ ~file.complete
    BY <1>2, <2>4 DEF L!collectIOPressure, L!Failure
  <2> QED
    BY <1>1, <2>1, <2>2, <2>3, <2>4
<1>4. L!Succeeded(r) <=> whole
  BY <1>3 DEF L!Succeeded
<1>5. whole => r.value = [h \in L!Heads |-> [k \in L!Averages |-> L!Percent(told(h, k))]]
  BY <1>3 DEF L!Answer
<1>6. ASSUME whole, NEW h \in L!Heads, NEW k \in L!Averages
      PROVE  /\ r.value[h][k] = L!Percent(told(h, k)) /\ told(h, k) \in Int
             /\ told(h, k) # 0 => \E i \in DOMAIN file.lines :
                  /\ file.lines[i].head = h
                  /\ \E j \in DOMAIN file.lines[i].parts : file.lines[i].parts[j] = <<k, told(h, k)>>
  <2>1. allRead
    BY <1>6
  <2>2. r.value[h][k] = L!Percent(told(h, k))
    <3> HIDE DEF r
    <3> QED
      BY <1>5, <1>6
  <2> QED
    BY <2>1, <2>2, LineIsFound
<1>7. whole => \A h \in L!Heads, k \in L!Averages :
        /\ r.value[h][k] \in 0..100
        /\ r.value[h][k] # 0 => \E i \in DOMAIN file.lines :
             /\ file.lines[i].head = h
             /\ \E j \in DOMAIN file.lines[i].parts : file.lines[i].parts[j] = <<k, r.value[h][k]>>
  <2> SUFFICES ASSUME whole, NEW h \in L!Heads, NEW k \in L!Averages
               PROVE  /\ r.value[h][k] \in 0..100
                      /\ r.value[h][k] # 0 => \E i \in DOMAIN file.lines :
                           /\ file.lines[i].head = h
                           /\ \E j \in DOMAIN file.lines[i].parts :
                                file.lines[i].parts[j] = <<k, r.value[h][k]>>
    OBVIOUS
  <2>1. r.value[h][k] = L!Percent(told(h, k)) /\ told(h, k) \in Int
    BY <1>6
  <2>2. r.value[h][k] \in 0..100 /\ r.value[h][k] \in {0, told(h, k)}
    BY <2>1, PercentOrZero
  <2>3. r.value[h][k] # 0 => r.value[h][k] = told(h, k)
    BY <2>2
  <2> HIDE DEF r, told
  <2> QED
    BY <1>6, <2>2, <2>3
<1>8. L!collectMemoryPressure(file) = r
  BY DEF L!collectMemoryPressure
<1>9. L!collectCPUPressure(file) = r
  <2> DEFINE full == L!LineOf(file.lines, "full")
             low == L!Succeeded(r) /\ \A k \in L!Averages : full[k] <= 0
  <2>1. L!collectCPUPressure(file) =
          IF low THEN L!Answer([r.value EXCEPT !["full"] = L!ZeroAverages]) ELSE r
    BY DEF L!collectCPUPressure
  <2>2. CASE ~low
    BY <2>1, <2>2
  <2>3. CASE low
    <3>1. whole
      BY <1>4, <2>3
    <3>2. "full" \in L!Heads
      BY DEF L!Heads
    <3>3. \A k \in L!Averages : L!Percent(told("full", k)) = 0
      BY <1>6, <2>3, <3>1, <3>2, PercentOrZero
    <3>4. [k \in L!Averages |-> L!Percent(told("full", k))] = L!ZeroAverages
      BY <3>3 DEF L!ZeroAverages
    <3>5. r.value["full"] = L!ZeroAverages
      BY <1>5, <3>1, <3>2, <3>4
    <3>6. [r.value EXCEPT !["full"] = L!ZeroAverages] = r.value
      BY <1>5, <3>1, <3>5
    <3>7. L!Answer(r.value) = r
      BY <1>3, <3>1 DEF L!Answer
    <3> QED
      BY <2>1, <2>3, <3>6, <3>7
  <2> QED
    BY <2>2, <2>3
<1> QED
  BY <1>4, <1>7, <1>8, <1>9

\* The index that comes before all the others of some is their least.
LEMMA LeastIs ==
  ASSUME NEW S \in SUBSET Int, NEW x \in S, \A y \in S : x <= y
  PROVE  L!Min(S) = x
<1>1. \E z \in S : \A y \in S : z <= y
  OBVIOUS
<1>2. L!Min(S) \in S /\ \A y \in S : L!Min(S) <= y
  BY <1>1, Zenon DEF L!Min
<1>3. L!Min(S) \in Int /\ x \in Int
  BY <1>2
<1> HIDE DEF L!Min
<1> QED
  BY <1>2, <1>3

LEMMA LargestIs ==
  ASSUME NEW S \in SUBSET Int, NEW x \in S, \A y \in S : x >= y
  PROVE  L!Max(S) = x
<1>1. \E z \in S : \A y \in S : z >= y
  OBVIOUS
<1>2. L!Max(S) \in S /\ \A y \in S : L!Max(S) >= y
  BY <1>1, Zenon DEF L!Max
<1>3. L!Max(S) \in Int /\ x \in Int
  BY <1>2
<1> HIDE DEF L!Max
<1> QED
  BY <1>2, <1>3

\* A stretch of a text, entry by entry.
LEMMA StretchIs ==
  ASSUME NEW S, NEW s \in Seq(S), NEW piece \in Seq(S), NEW from \in Nat,
         from + Len(piece) <= Len(s),
         \A i \in 1..Len(piece) : s[from + i] = piece[i]
  PROVE  SubSeq(s, from + 1, from + Len(piece)) = piece
<1> DEFINE m == Len(piece)
           sub == SubSeq(s, from + 1, from + m)
<1>1. m \in Nat /\ Len(s) \in Nat /\ from + 1 \in Int /\ from + m \in Int
  OBVIOUS
<1>2. \A i \in (from + 1)..(from + m) : s[i] \in S
  BY <1>1, ElementOfSeq
<1>3. /\ sub \in Seq(S)
      /\ Len(sub) = IF from + 1 <= from + m THEN from + m - (from + 1) + 1 ELSE 0
      /\ \A i \in 1..(from + m - (from + 1) + 1) : sub[i] = s[from + 1 + i - 1]
  BY <1>1, <1>2, SubSeqProperties
<1> HIDE DEF sub, m
<1>4. Len(sub) = m /\ \A i \in 1..m : sub[i] = s[from + i]
  <2>1. /\ from + m - (from + 1) + 1 = m
        /\ (IF from + 1 <= from + m THEN from + m - (from + 1) + 1 ELSE 0) = m
    BY <1>1
  <2>2. ASSUME NEW i \in 1..m PROVE sub[i] = s[from + i]
    <3>1. i \in 1..(from + m - (from + 1) + 1)
      BY <2>1
    <3>2. sub[i] = s[from + 1 + i - 1]
      BY <1>3, <3>1
    <3>3. from + 1 + i - 1 = from + i
      BY <1>1
    <3> QED
      BY <3>2, <3>3
  <2>3. Len(sub) = m
    BY <1>3, <2>1, Zenon
  <2> QED
    BY <2>2, <2>3
<1>5. \A i \in 1..m : sub[i] = piece[i]
  BY <1>4 DEF m
<1> QED
  BY <1>3, <1>4, <1>5, SeqEqual DEF m, sub

\* What a concatenation holds: the one behind the other.
Follows(u, s, t, S) ==
  /\ u \in Seq(S) /\ Len(u) = Len(s) + Len(t)
  /\ \A i \in 1..Len(s) : u[i] = s[i]
  /\ \A i \in 1..Len(t) : u[Len(s) + i] = t[i]

LEMMA OneBehindTheOther ==
  ASSUME NEW S, NEW s \in Seq(S), NEW t \in Seq(S)
  PROVE  Follows(s \o t, s, t, S)
<1> DEFINE u == s \o t
           m == Len(s)
           n == Len(t)
<1>1. m \in Nat /\ n \in Nat
  OBVIOUS
<1>2. /\ u \in Seq(S) /\ Len(u) = m + n
      /\ \A i \in 1..(m + n) : u[i] = IF i <= m THEN s[i] ELSE t[i - m]
  BY ConcatProperties
<1> HIDE DEF u, m, n
<1>3. ASSUME NEW i \in 1..m PROVE u[i] = s[i]
  <2>1. i \in 1..(m + n) /\ i <= m
    BY <1>1
  <2> QED
    BY <1>2, <2>1
<1>4. ASSUME NEW i \in 1..n PROVE u[m + i] = t[i]
  <2>1. PICK k : k = m + i
    OBVIOUS
  <2>2. k \in 1..(m + n) /\ ~(k <= m) /\ k - m = i
    BY <1>1, <2>1
  <2>3. u[k] = t[k - m]
    BY <1>2, <2>2
  <2> QED
    BY <2>1, <2>2, <2>3
<1> QED
  BY <1>2, <1>3, <1>4 DEF Follows, u, m, n

\* The first left mark and the last right mark enclose the name.
Enclosed(text, left, right, pid, comm) ==
  LET opening == {i \in DOMAIN text : text[i] = left}
      closing == {i \in DOMAIN text : text[i] = right}
  IN  /\ opening # {} /\ closing # {}
      /\ SubSeq(text, 1, L!Min(opening) - 2) = pid
      /\ SubSeq(text, L!Min(opening) + 1, L!Max(closing) - 1) = comm

\* Where a line puts a name between two marks, the first of the one and the last
\* of the other enclose it, whatever marks are in the name.
LEMMA MarksEnclose ==
  ASSUME NEW S, NEW blank \in S, NEW left \in S, NEW right \in S, blank # left,
         NEW pid \in Seq(S), \A i \in DOMAIN pid : pid[i] # left, NEW comm \in Seq(S)
  PROVE  Enclosed(pid \o <<blank, left>> \o comm \o <<right>>, left, right, pid, comm)
<1> DEFINE head == <<blank, left>>
           a == pid \o head
           b == a \o comm
           end == <<right>>
           text == b \o end
           p == Len(pid)
           c == Len(comm)
           opening == {i \in DOMAIN text : text[i] = left}
           closing == {i \in DOMAIN text : text[i] = right}
<1>1. p \in Nat /\ c \in Nat /\ DOMAIN pid = 1..p
  OBVIOUS
<1>2. /\ a \in Seq(S) /\ Len(a) = p + 2 /\ \A i \in 1..p : a[i] = pid[i]
      /\ a[p + 1] = blank /\ a[p + 2] = left
  <2>1. head \in Seq(S) /\ Len(head) = 2 /\ head[1] = blank /\ head[2] = left
    OBVIOUS
  <2> HIDE DEF head
  <2>2. /\ a \in Seq(S) /\ Len(a) = p + 2 /\ \A i \in 1..p : a[i] = pid[i]
        /\ \A i \in 1..2 : a[p + i] = head[i]
    <3>1. /\ a \in Seq(S) /\ Len(a) = p + Len(head)
          /\ \A i \in 1..p : a[i] = pid[i]
          /\ \A i \in 1..Len(head) : a[p + i] = head[i]
      <4>1. Follows(a, pid, head, S)
        BY <2>1, OneBehindTheOther
      <4> QED
        BY <4>1 DEF Follows
    <3> QED
      BY <2>1, <3>1
  <2>3. 1 \in 1..2 /\ 2 \in 1..2
    OBVIOUS
  <2> HIDE DEF a, p
  <2> QED
    BY <2>1, <2>2, <2>3
<1> HIDE DEF a
<1>3. /\ b \in Seq(S) /\ Len(b) = p + 2 + c /\ \A i \in 1..(p + 2) : b[i] = a[i]
      /\ \A i \in 1..c : b[p + 2 + i] = comm[i]
  <2>1. Len(a) = p + 2 /\ Len(comm) = c
    BY <1>2
  <2> HIDE DEF p, c
  <2> QED
    <3>1. /\ b \in Seq(S) /\ Len(b) = Len(a) + Len(comm)
          /\ \A i \in 1..Len(a) : b[i] = a[i]
          /\ \A i \in 1..Len(comm) : b[Len(a) + i] = comm[i]
      <4>1. Follows(b, a, comm, S)
        BY <1>2, OneBehindTheOther
      <4> QED
        BY <4>1 DEF Follows
    <3> HIDE DEF b
    <3> QED
      BY <2>1, <3>1
<1> HIDE DEF b
<1>4. /\ text \in Seq(S) /\ Len(text) = p + c + 3
      /\ \A i \in 1..(p + 2 + c) : text[i] = b[i]
      /\ text[p + c + 3] = right
  <2>1. end \in Seq(S) /\ Len(end) = 1 /\ end[1] = right
    OBVIOUS
  <2> HIDE DEF end
  <2>2. /\ text \in Seq(S) /\ Len(text) = p + 2 + c + 1
        /\ \A i \in 1..(p + 2 + c) : text[i] = b[i]
        /\ \A i \in 1..1 : text[p + 2 + c + i] = end[i]
    <3>1. /\ text \in Seq(S) /\ Len(text) = Len(b) + Len(end)
          /\ \A i \in 1..Len(b) : text[i] = b[i]
          /\ \A i \in 1..Len(end) : text[Len(b) + i] = end[i]
      <4>1. Follows(text, b, end, S)
        BY <1>3, <2>1, OneBehindTheOther
      <4> QED
        BY <4>1 DEF Follows
    <3> QED
      BY <1>3, <2>1, <3>1
  <2>3. p + 2 + c + 1 = p + c + 3 /\ 1 \in 1..1
    BY <1>1
  <2> HIDE DEF text, p, c
  <2> QED
    BY <2>1, <2>2, <2>3
<1> HIDE DEF text, p, c
<1>5. /\ \A i \in 1..p : text[i] = pid[i]
      /\ text[p + 1] = blank /\ text[p + 2] = left
      /\ \A i \in 1..c : text[p + 2 + i] = comm[i]
  <2>1. ASSUME NEW i \in 1..(p + 2) PROVE text[i] = a[i]
    <3>1. i \in 1..(p + 2 + c)
      BY <1>1
    <3> QED
      BY <1>3, <1>4, <3>1
  <2>2. ASSUME NEW i \in 1..p PROVE text[i] = pid[i]
    <3>1. i \in 1..(p + 2)
      BY <1>1
    <3> QED
      BY <1>2, <2>1, <3>1
  <2>3. p + 1 \in 1..(p + 2) /\ p + 2 \in 1..(p + 2)
    BY <1>1
  <2>4. ASSUME NEW i \in 1..c PROVE text[p + 2 + i] = comm[i]
    <3>1. p + 2 + i \in 1..(p + 2 + c)
      BY <1>1
    <3> QED
      BY <1>3, <1>4, <3>1
  <2> QED
    BY <1>2, <2>1, <2>2, <2>3, <2>4
<1>6. DOMAIN text = 1..(p + c + 3) /\ p + 2 \in DOMAIN text /\ p + c + 3 \in DOMAIN text
  BY <1>1, <1>4
<1>7. p + 2 \in opening /\ p + c + 3 \in closing
  BY <1>4, <1>5, <1>6
<1>8. L!Min(opening) = p + 2
  <2>1. ASSUME NEW i \in opening PROVE p + 2 <= i
    <3>1. i \in 1..(p + c + 3) /\ text[i] = left
      BY <1>6
    <3>2. i \notin 1..p
      BY <1>1, <1>5, <3>1
    <3>3. i # p + 1
      BY <1>5, <3>1
    <3> QED
      BY <1>1, <3>1, <3>2, <3>3
  <2>2. opening \in SUBSET Int
    BY <1>6
  <2> HIDE DEF opening
  <2> QED
    BY <1>7, <2>1, <2>2, LeastIs
<1>9. L!Max(closing) = p + c + 3
  <2>1. closing \in SUBSET Int /\ \A i \in closing : p + c + 3 >= i
    BY <1>1, <1>6
  <2> HIDE DEF closing
  <2> QED
    BY <1>7, <2>1, LargestIs
<1>10. SubSeq(text, 1, L!Min(opening) - 2) = pid
  <2>1. /\ 0 \in Nat /\ 0 + Len(pid) <= Len(text)
        /\ \A i \in 1..Len(pid) : text[0 + i] = pid[i]
    BY <1>1, <1>4, <1>5, SMTT(30) DEF p
  <2>2. SubSeq(text, 0 + 1, 0 + Len(pid)) = pid
    BY <1>4, <2>1, StretchIs
  <2>3. L!Min(opening) - 2 = 0 + Len(pid) /\ 0 + 1 = 1
    BY <1>1, <1>8 DEF p
  <2> QED
    BY <2>2, <2>3
<1>11. SubSeq(text, L!Min(opening) + 1, L!Max(closing) - 1) = comm
  <2>1. /\ p + 2 \in Nat /\ p + 2 + Len(comm) <= Len(text)
        /\ \A i \in 1..Len(comm) : text[p + 2 + i] = comm[i]
    BY <1>1, <1>4, <1>5 DEF c
  <2>2. SubSeq(text, p + 2 + 1, p + 2 + Len(comm)) = comm
    BY <1>4, <2>1, StretchIs
  <2>3. L!Max(closing) - 1 = p + 2 + Len(comm)
    BY <1>1, <1>9 DEF c
  <2> QED
    BY <1>8, <2>2, <2>3
<1> HIDE DEF opening, closing
<1>12. opening # {} /\ closing # {}
  BY <1>7
<1> QED
  BY <1>10, <1>11, <1>12, Zenon DEF Enclosed, opening, closing, text, b, a, head, end

LEMMA FewOrMany ==
  ASSUME NEW S, NEW s \in Seq(S)
  PROVE  Len(s) < 20 <=> ~(Len(s) >= 20)
<1>1. Len(s) \in Nat
  OBVIOUS
<1> QED
  BY <1>1

\* LinuxReaders, parseStat: the name and the number of a process come out of
\* its stat line as they went in, whatever parentheses and blanks are in the
\* name; the line is refused only for a lack of fields.
THEOREM NamesAlwaysSurvive ==
  ASSUME NEW Letters, " " \in Letters, "(" \in Letters, ")" \in Letters,
         NEW pid \in Seq(Letters), \A i \in DOMAIN pid : pid[i] # "(",
         NEW comm \in Seq(Letters), NEW fields \in Seq(Int)
  PROVE  LET r == L!parseStat(pid \o <<" ", "(">> \o comm \o <<")">>, fields)
         IN  /\ L!Succeeded(r) <=> Len(fields) >= 20
             /\ L!Succeeded(r) => r.value.comm = comm /\ r.value.pid = pid
<1> DEFINE text == pid \o <<" ", "(">> \o comm \o <<")">>
           opening == {i \in DOMAIN text : text[i] = "("}
           closing == {i \in DOMAIN text : text[i] = ")"}
           r == L!parseStat(text, fields)
           short == Len(fields) < 20
<1>1. " " # "("
  BY Zenon
<1>2. /\ opening # {} /\ closing # {}
      /\ SubSeq(text, 1, L!Min(opening) - 2) = pid
      /\ SubSeq(text, L!Min(opening) + 1, L!Max(closing) - 1) = comm
  <2>1. Enclosed(text, "(", ")", pid, comm)
    BY <1>1, MarksEnclose, Zenon
  <2> HIDE DEF text
  <2> QED
    BY <2>1, Zenon DEF Enclosed
<1>3. short <=> ~(Len(fields) >= 20)
  BY FewOrMany, Zenon
<1> HIDE DEF short, text
<1>4. CASE short
  <2>1. r.error = "parsing"
    BY <1>4, Zenon DEF L!parseStat, L!Failure, short
  <2>2. ~L!Succeeded(r)
    BY <2>1, Zenon DEF L!Succeeded
  <2> QED
    BY <1>3, <1>4, <2>2, Zenon DEF text
<1>5. CASE ~short
  <2>1. /\ r.error = "none"
        /\ r.value.pid = SubSeq(text, 1, L!Min(opening) - 2)
        /\ r.value.comm = SubSeq(text, L!Min(opening) + 1, L!Max(closing) - 1)
    BY <1>2, <1>5, Zenon DEF L!parseStat, L!Answer, short
  <2> QED
    BY <1>2, <1>3, <1>5, <2>1, Zenon DEF L!Succeeded, text
<1> QED
  BY <1>4, <1>5, Zenon
=============================================================================
