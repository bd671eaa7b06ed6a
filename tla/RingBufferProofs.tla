-------------------------- MODULE RingBufferProofs --------------------------
(***************************************************************************)
(* Theorems about RingBuffer for every set of items, timestamps and        *)
(* capacities: the type invariant, the agreement of the indices, the       *)
(* counting of reads, and that every step implements a step of BoundedLog. *)
(***************************************************************************)
EXTENDS RingBuffer, SubsequenceProofs

LOCAL INSTANCE SequenceTheorems

(***************************************************************************)
(* Arithmetic of a position that wraps around at most once.                *)
(***************************************************************************)
LEMMA ModRange ==
  \A c \in Nat \ {0}, a, k \in Nat : (a + k) % c \in 0..c-1
  OBVIOUS

LEMMA ModAdd ==
  \A c \in Nat \ {0} : \A a \in 0..c-1, k \in 0..c :
    (a + k) % c = IF a + k < c THEN a + k ELSE a + k - c
<1> SUFFICES ASSUME NEW c \in Nat \ {0}, NEW a \in 0..c-1, NEW k \in 0..c
             PROVE  (a + k) % c = IF a + k < c THEN a + k ELSE a + k - c
  OBVIOUS
<1>1. CASE a + k < c
  <2>1. a + k \in 0..c-1
    BY <1>1
  <2>2. \A x \in 0..c-1 : x % c = x
    OBVIOUS
  <2>. QED
    BY <1>1, <2>1, <2>2
<1>2. CASE a + k >= c
  <2>1. a + k \in c..(2*c - 1)
    BY <1>2
  <2>2. \A x \in c..(2*c - 1) : x % c = x - c
    OBVIOUS
  <2>. QED
    BY <1>2, <2>1, <2>2
<1>. QED
  BY <1>1, <1>2

\* Moving on by a whole capacity is staying.
LEMMA ModFull ==
  \A c \in Nat \ {0} : \A a \in 0..c-1 : (a + c) % c = a
  BY ModAdd

\* Moving on by j and then by k is moving on by j + k.
LEMMA ModShift ==
  \A c \in Nat \ {0} : \A a \in 0..c-1, j, k \in 0..c :
    j + k <= c => (((a + j) % c) + k) % c = (a + (j + k)) % c
<1> SUFFICES ASSUME NEW c \in Nat \ {0}, NEW a \in 0..c-1, NEW j \in 0..c,
                    NEW k \in 0..c, j + k <= c
             PROVE  (((a + j) % c) + k) % c = (a + (j + k)) % c
  OBVIOUS
<1> DEFINE b == (a + j) % c
<1>1. b = IF a + j < c THEN a + j ELSE a + j - c
  BY ModAdd
<1>2. b \in 0..c-1
  BY <1>1
<1>3. (b + k) % c = IF b + k < c THEN b + k ELSE b + k - c
  BY <1>2, ModAdd
<1>4. j + k \in 0..c
  OBVIOUS
<1>5. (a + (j + k)) % c = IF a + (j + k) < c THEN a + (j + k) ELSE a + (j + k) - c
  BY <1>4, ModAdd
<1> HIDE DEF b
<1>6. (b + k) % c = (a + (j + k)) % c
  BY <1>1, <1>2, <1>3, <1>5
<1>. QED
  BY <1>6 DEF b

\* Positions less than a capacity apart are different slots.
LEMMA ModDistinct ==
  \A c \in Nat \ {0} : \A a, i, j \in 0..c-1 :
    i # j => (a + i) % c # (a + j) % c
<1> SUFFICES ASSUME NEW c \in Nat \ {0}, NEW a \in 0..c-1, NEW i \in 0..c-1,
                    NEW j \in 0..c-1, i # j
             PROVE  (a + i) % c # (a + j) % c
  OBVIOUS
<1>0. i \in 0..c /\ j \in 0..c
  OBVIOUS
<1>1. (a + i) % c = IF a + i < c THEN a + i ELSE a + i - c
  BY <1>0, ModAdd
<1>2. (a + j) % c = IF a + j < c THEN a + j ELSE a + j - c
  BY <1>0, ModAdd
<1>. QED
  BY <1>1, <1>2

\* A position within the capacity is itself, and moving it by less than a
\* capacity leaves its slot.
LEMMA ModMoves ==
  ASSUME NEW c \in Nat \ {0}, NEW a \in 0..c-1
  PROVE  /\ a % c = a
         /\ \A i \in 1..c-1 : (a + i) % c # a /\ (a + i) % c \in 0..c-1
<1>1. a % c = a
  OBVIOUS
<1>2. ASSUME NEW i \in 1..c-1
      PROVE  (a + i) % c # a /\ (a + i) % c \in 0..c-1
  <2>1. i \in 0..c
    OBVIOUS
  <2>2. (a + i) % c = IF a + i < c THEN a + i ELSE a + i - c
    BY <2>1, ModAdd
  <2>. QED
    BY <2>2
<1>. QED
  BY <1>1, <1>2

LEMMA CapacityPositive == \A c \in Capacities : c \in Nat \ {0}
  BY RingAssumption DEF Capacities

-----------------------------------------------------------------------------
(***************************************************************************)
(* Types.                                                                  *)
(***************************************************************************)
LEMMA InitType == Init => TypeOK
<1> SUFFICES ASSUME Init PROVE TypeOK
  OBVIOUS
<1>1. capacity \in Capacities
  BY RingAssumption DEF Init, Capacities
<1>. QED
  BY <1>1, CapacityPositive DEF Init, TypeOK, Idle, NotLoaded

LEMMA NextType == TypeOK /\ [Next]_vars => TypeOK'
<1> SUFFICES ASSUME TypeOK, [Next]_vars
             PROVE  TypeOK'
  OBVIOUS
<1> USE DEF TypeOK, Busy
<1>c. capacity \in Nat \ {0}
  BY CapacityPositive
<1>t. head \in Nat /\ tail \in Nat /\ size \in Nat
  BY <1>c
<1>1. ASSUME NEW entry \in Entry, PushWithTime(entry)
      PROVE  TypeOK'
  <2>1. (head + 1) % capacity \in 0..capacity-1 /\ (tail + 1) % capacity \in 0..capacity-1
    BY <1>c, <1>t, ModRange
  <2>. QED
    BY <1>1, <1>c, <2>1 DEF PushWithTime
<1>2. CASE Pop
  <2>1. (tail + 1) % capacity \in 0..capacity-1
    BY <1>c, <1>t, ModRange
  <2>. QED
    BY <1>2, <1>c, <2>1 DEF Pop
<1>3. CASE Clear
  BY <1>3, <1>c DEF Clear
<1>4. ASSUME NEW cutoff \in Times, EvictOlderThan(cutoff)
      PROVE  TypeOK'
  <2>1. \A k \in 0..size : (tail + k) % capacity \in 0..capacity-1
    BY <1>c, <1>t, ModRange
  <2>. QED
    BY <1>4, <1>c, <2>1 DEF EvictOlderThan
<1>5. ASSUME NEW newCapacity \in Requested, Resize(newCapacity)
      PROVE  TypeOK'
  <2> DEFINE start == IF size > newCapacity THEN size - newCapacity ELSE 0
  <2>1. newCapacity \in Capacities /\ newCapacity \in Nat \ {0}
    BY <1>5, RingAssumption DEF Resize, Capacities
  <2>2. start \in 0..size /\ size - start \in 0..newCapacity
    BY <1>c, <2>1
  <2>3. (size - start) % newCapacity \in 0..newCapacity-1
    <3>1. size - start \in Nat
      BY <2>1, <2>2
    <3>2. ((size - start) + 0) % newCapacity \in 0..newCapacity-1
      BY <2>1, <3>1, ModRange
    <3>. QED
      BY <3>1, <3>2
  <2>4. \A i \in 0..newCapacity-1 :
          i < size - start => At(start + i) \in Entry \cup {Zero}
    <3> SUFFICES ASSUME NEW i \in 0..newCapacity-1, i < size - start
                 PROVE  At(start + i) \in Entry \cup {Zero}
      OBVIOUS
    <3>1. start + i \in Nat
      BY <2>1, <2>2
    <3>2. (tail + (start + i)) % capacity \in 0..capacity-1
      BY <1>c, <1>t, <3>1, ModRange
    <3>. QED
      BY <3>2 DEF At
  <2>5. slots' \in [0..newCapacity-1 -> Entry \cup {Zero}]
    BY <1>5, <2>4 DEF Resize
  <2>. QED
    BY <1>5, <2>1, <2>2, <2>3, <2>5 DEF Resize
<1>6. ASSUME NEW r \in Readers, NEW times \in Nat, NEW by \in Nat,
             BeginRead(r, times, by)
      PROVE  TypeOK'
  BY <1>6 DEF BeginRead, indices, NotLoaded
<1>7. ASSUME NEW r \in Readers, LoadReads(r)
      PROVE  TypeOK'
  <2>1. reader[r] \in Busy
    BY <1>7 DEF LoadReads, Idle
  <2>2. [reader[r] EXCEPT !.loaded = totalReads] \in Busy
    BY <2>1
  <2>3. reader' = [reader EXCEPT ![r] = [reader[r] EXCEPT !.loaded = totalReads]]
    BY <1>7 DEF LoadReads
  <2>. QED
    BY <1>7, <2>2, <2>3 DEF LoadReads, indices
<1>8. ASSUME NEW r \in Readers, StoreReads(r)
      PROVE  TypeOK'
  <2>1. reader[r] \in Busy
    BY <1>8 DEF StoreReads, Idle
  <2>2. reader[r].loaded \in Nat
    BY <1>8, <2>1 DEF StoreReads
  <2>. QED
    BY <1>8, <2>1, <2>2, SMTT(30) DEF StoreReads, indices
<1>9. CASE UNCHANGED vars
  BY <1>9 DEF vars
<1>. QED
  BY <1>1, <1>2, <1>3, <1>4, <1>5, <1>6, <1>7, <1>8, <1>9 
  DEF Next, Writing, Reading, ReadAll, ReadLatest, ReadByTimeRange

\* Whatever is written, read, evicted or resized, every slot and index of the
\* buffer stays within its type.
THEOREM TypeCorrect == Spec => []TypeOK
  BY InitType, NextType, PTL DEF Spec

-----------------------------------------------------------------------------
(***************************************************************************)
(* The indices.                                                            *)
(***************************************************************************)
LEMMA NextIndices == TypeOK /\ IndicesAgree /\ [Next]_vars => IndicesAgree'
<1> SUFFICES ASSUME TypeOK, IndicesAgree, [Next]_vars
             PROVE  IndicesAgree'
  OBVIOUS
<1>c. capacity \in Nat \ {0}
  BY CapacityPositive DEF TypeOK
<1>t. /\ head \in 0..capacity-1 /\ tail \in 0..capacity-1 /\ size \in 0..capacity
      /\ head = (tail + size) % capacity
  BY DEF TypeOK, IndicesAgree
<1>1. ASSUME NEW entry \in Entry, PushWithTime(entry)
      PROVE  IndicesAgree'
  <2>1. CASE size < capacity
    <3>1. (((tail + size) % capacity) + 1) % capacity = (tail + (size + 1)) % capacity
      BY <1>c, <1>t, <2>1, ModShift
    <3>2. /\ head' = (head + 1) % capacity
          /\ size' = size + 1 /\ tail' = tail /\ capacity' = capacity
      BY <1>1, <1>c, <1>t, <2>1 DEF PushWithTime
    <3>. QED
      BY <1>t, <3>1, <3>2 DEF IndicesAgree
  <2>2. CASE size >= capacity
    <3>1. size = capacity
      BY <1>c, <1>t, <2>2
    <3>2. head = tail
      <4>1. (tail + capacity) % capacity = tail
        BY <1>c, <1>t, ModFull
      <4>. QED
        BY <1>t, <3>1, <4>1
    <3>3. (tail + 1) % capacity \in 0..capacity-1
      BY <1>c, <1>t, ModRange
    <3>4. (((tail + 1) % capacity) + capacity) % capacity = (tail + 1) % capacity
      BY <1>c, <3>3, ModFull
    <3>. QED
      BY <1>1, <1>c, <1>t, <3>1, <3>2, <3>4 DEF PushWithTime, IndicesAgree
  <2>. QED
    BY <1>c, <1>t, <2>1, <2>2
<1>2. ASSUME NEW k \in 0..size,
             tail' = (tail + k) % capacity, size' = size - k,
             head' = head, capacity' = capacity
      PROVE  IndicesAgree'
  <2>1. (((tail + k) % capacity) + (size - k)) % capacity
           = (tail + (k + (size - k))) % capacity
    BY <1>c, <1>t, ModShift
  <2>2. k + (size - k) = size
    BY <1>c, <1>t
  <2>. QED
    BY <1>2, <1>t, <2>1, <2>2 DEF IndicesAgree
<1>3. CASE Pop
  <2>1. 1 \in 0..size
    BY <1>3, <1>c, <1>t DEF Pop
  <2>. QED
    BY <1>2, <1>3, <2>1 DEF Pop
<1>4. CASE Clear
  BY <1>4, <1>c, ModAdd DEF Clear, IndicesAgree
<1>5. ASSUME NEW cutoff \in Times, EvictOlderThan(cutoff)
      PROVE  IndicesAgree'
  BY <1>2, <1>5 DEF EvictOlderThan
<1>6. ASSUME NEW newCapacity \in Requested, Resize(newCapacity)
      PROVE  IndicesAgree'
  BY <1>6, <1>c, <1>t, RingAssumption DEF Resize, IndicesAgree
<1>7. CASE UNCHANGED indices
  BY <1>7 DEF indices, IndicesAgree
<1>. QED
  BY <1>1, <1>3, <1>4, <1>5, <1>6, <1>7
  DEF Next, Writing, Reading, ReadAll, ReadLatest, ReadByTimeRange, BeginRead,
      LoadReads, StoreReads, vars, indices

\* The buffer's three indices always agree (IndicesAgree).
THEOREM IndicesAlwaysAgree == Spec => []IndicesAgree
<1>1. Init => IndicesAgree
  <2> SUFFICES ASSUME Init PROVE IndicesAgree
    OBVIOUS
  <2>1. capacity \in Nat \ {0}
    BY InitType, CapacityPositive DEF TypeOK
  <2>2. (0 + 0) % capacity = 0
    BY <2>1, ModAdd
  <2>. QED
    BY <2>1, <2>2 DEF Init, IndicesAgree
<1>. QED
  BY <1>1, NextIndices, TypeCorrect, PTL DEF Spec

-----------------------------------------------------------------------------
(***************************************************************************)
(* The contents as a sequence.                                             *)
(***************************************************************************)
LEMMA AppendIsFunction ==
  ASSUME NEW S, NEW s \in Seq(S), NEW e \in S
  PROVE  Append(s, e) = [i \in 1..Len(s)+1 |-> IF i <= Len(s) THEN s[i] ELSE e]
<1> DEFINE f == [i \in 1..Len(s)+1 |-> IF i <= Len(s) THEN s[i] ELSE e]
<1>1. Len(s) \in Nat /\ \A i \in 1..Len(s) : s[i] \in S
  BY LenProperties, ElementOfSeq
<1>2. f \in Seq(S) /\ Len(f) = Len(s) + 1
  BY <1>1
<1>3. /\ Append(s, e) \in Seq(S)
      /\ Len(Append(s, e)) = Len(s) + 1
      /\ \A i \in 1..Len(s) : Append(s, e)[i] = s[i]
      /\ Append(s, e)[Len(s)+1] = e
  BY AppendProperties
<1>4. ASSUME NEW i \in 1..Len(s)+1
      PROVE  Append(s, e)[i] = f[i]
  <2>1. CASE i <= Len(s)
    BY <1>1, <1>3, <2>1
  <2>2. CASE ~(i <= Len(s))
    <3>1. i = Len(s) + 1
      BY <1>1, <2>2
    <3>. QED
      BY <1>1, <1>3, <3>1
  <2>. QED
    BY <2>1, <2>2
<1> HIDE DEF f
<1>. QED
  BY <1>2, <1>3, <1>4, SeqEqual DEF f

LEMMA TailIsFunction ==
  ASSUME NEW S, NEW s \in Seq(S), s # << >>
  PROVE  /\ Tail(s) = [i \in 1..Len(s)-1 |-> s[i+1]]
         /\ Tail(s) \in Seq(S)
         /\ Len(Tail(s)) = Len(s) - 1
<1> DEFINE f == [i \in 1..Len(s)-1 |-> s[i+1]]
<1>1. /\ Tail(s) \in Seq(S)
      /\ Len(Tail(s)) = Len(s) - 1
      /\ \A i \in 1..Len(Tail(s)) : Tail(s)[i] = s[i+1]
  BY HeadTailProperties
<1>2. DOMAIN Tail(s) = 1..Len(s)-1 /\ Tail(s) \in [1..Len(s)-1 -> S]
  BY <1>1, LenProperties
<1>. QED
  BY <1>1, <1>2

LEMMA ContentsType ==
  ASSUME TypeOK
  PROVE  /\ Contents \in Seq(Entry \cup {Zero})
         /\ Len(Contents) = size
         /\ \A i \in 1..size : Contents[i] = slots[(tail + (i - 1)) % capacity]
<1>1. capacity \in Nat \ {0} /\ size \in Nat /\ tail \in Nat
  BY CapacityPositive DEF TypeOK
<1>2. \A i \in 1..size : slots[(tail + (i - 1)) % capacity] \in Entry \cup {Zero}
  <2> SUFFICES ASSUME NEW i \in 1..size
               PROVE  slots[(tail + (i - 1)) % capacity] \in Entry \cup {Zero}
    OBVIOUS
  <2>1. i - 1 \in Nat
    BY <1>1
  <2>2. (tail + (i - 1)) % capacity \in 0..capacity-1
    BY <1>1, <2>1, ModRange
  <2>. QED
    BY <2>2 DEF TypeOK
<1>3. Contents = [i \in 1..size |-> slots[(tail + (i - 1)) % capacity]]
  BY DEF Contents, At
<1>. QED
  BY <1>1, <1>2, <1>3

\* GetLatest returns the newest entries (LatestIsNewest).
LEMMA LatestFromType == TypeOK => LatestIsNewest
<1> SUFFICES ASSUME TypeOK, NEW n \in 0..capacity+1
             PROVE  GetLatest(n) = Newest(Contents, n)
  BY DEF LatestIsNewest
<1>1. capacity \in Nat \ {0} /\ size \in 0..capacity /\ tail \in 0..capacity-1
  BY CapacityPositive DEF TypeOK
<1> DEFINE count == IF n > size THEN size ELSE n
<1>2. count \in 0..size
  BY <1>1
<1>3. ASSUME NEW i \in 1..count
      PROVE  slots[(((tail + size - count) % capacity) + (i - 1)) % capacity]
               = Contents[size - count + i]
  <2>1. size - count \in 0..capacity /\ i - 1 \in 0..capacity
        /\ (size - count) + (i - 1) <= capacity
    BY <1>1, <1>2
  <2>2. (((tail + (size - count)) % capacity) + (i - 1)) % capacity
          = (tail + ((size - count) + (i - 1))) % capacity
    BY <1>1, <2>1, ModShift
  <2>3. size - count + i \in 1..size
    BY <1>1, <1>2
  <2>4. Contents[size - count + i] = slots[(tail + ((size - count + i) - 1)) % capacity]
    BY <2>3, ContentsType
  <2>5. /\ tail + size - count = tail + (size - count)
        /\ (size - count + i) - 1 = (size - count) + (i - 1)
    BY <1>1, <1>2
  <2>. QED
    BY <2>2, <2>4, <2>5
<1>4. Newest(Contents, n) = [i \in 1..count |-> Contents[size - count + i]]
  <2>1. (IF n < Len(Contents) THEN n ELSE Len(Contents)) = count
    BY <1>1, ContentsType
  <2>. QED
    BY <2>1, ContentsType DEF Newest
<1>5. GetLatest(n) =
        [i \in 1..count |->
           slots[(((tail + size - count) % capacity) + (i - 1)) % capacity]]
  BY DEF GetLatest
<1>. QED
  BY <1>3, <1>4, <1>5

\* A latest-entries read never returns anything but the newest entries.
THEOREM LatestAlwaysNewest == Spec => []LatestIsNewest
  BY LatestFromType, TypeCorrect, PTL

-----------------------------------------------------------------------------
(***************************************************************************)
(* Implementation of BoundedLog: what every step does to the contents.     *)
(***************************************************************************)
LEMMA PushWrites ==
  ASSUME TypeOK, TypeOK', IndicesAgree, NEW entry \in Entry, PushWithTime(entry)
  PROVE  Log!Write(entry)
<1> DEFINE old == IF size < capacity THEN Contents ELSE Tail(Contents)
<1>1. /\ capacity \in Nat \ {0} /\ size \in 0..capacity
      /\ tail \in 0..capacity-1 /\ head \in 0..capacity-1
      /\ slots \in [0..capacity-1 -> Entry \cup {Zero}]
  BY CapacityPositive DEF TypeOK
<1>2. /\ capacity' = capacity
      /\ slots' = [slots EXCEPT ![head] = entry]
  BY DEF PushWithTime
<1>3. Contents' = [i \in 1..size' |-> slots'[(tail' + (i - 1)) % capacity]]
  BY <1>2 DEF Contents, At
<1>4. CASE size < capacity
  <2>1. size' = size + 1 /\ tail' = tail
    BY <1>1, <1>4 DEF PushWithTime
  <2>2. ASSUME NEW i \in 1..size
        PROVE  slots'[(tail + (i - 1)) % capacity] = Contents[i]
    <3>1. i - 1 \in 0..capacity-1 /\ size \in 0..capacity-1 /\ i - 1 # size
      BY <1>1, <1>4
    <3>2. (tail + (i - 1)) % capacity # head
      BY <1>1, <3>1, ModDistinct DEF IndicesAgree
    <3>3. (tail + (i - 1)) % capacity \in 0..capacity-1
      BY <1>1, <3>1, ModRange
    <3>. QED
      BY <1>1, <1>2, <3>2, <3>3, ContentsType
  <2>3. slots'[(tail + size) % capacity] = entry
    BY <1>1, <1>2 DEF IndicesAgree
  <2>4. Append(Contents, entry)
          = [i \in 1..size+1 |-> IF i <= size THEN Contents[i] ELSE entry]
    BY ContentsType, AppendIsFunction
  <2>5. Contents' = [i \in 1..size+1 |-> slots'[(tail + (i - 1)) % capacity]]
    BY <1>3, <2>1
  <2>6. \A i \in 1..size+1 : ~(i <= size) => i - 1 = size
    BY <1>1
  <2>7. \A i \in 1..size+1 : i <= size => i \in 1..size
    BY <1>1
  <2>8. Contents' = Append(Contents, entry)
    <3>1. ASSUME NEW i \in 1..size+1
          PROVE  slots'[(tail + (i - 1)) % capacity]
                   = IF i <= size THEN Contents[i] ELSE entry
      <4>1. CASE i <= size
        BY <2>2, <2>7, <4>1
      <4>2. CASE ~(i <= size)
        <5>1. i - 1 = size
          BY <2>6, <4>2
        <5>. QED
          BY <2>3, <4>2, <5>1
      <4>. QED
        BY <4>1, <4>2
    <3>. QED
      BY <2>4, <2>5, <3>1
  <2>9. Len(Contents) < capacity
    BY <1>4, ContentsType
  <2>. QED
    BY <1>2, <2>8, <2>9 DEF Log!Write, Log!Pushed
<1>5. CASE size >= capacity
  <2>1. size = capacity /\ size' = capacity /\ tail' = (tail + 1) % capacity
    BY <1>1, <1>5 DEF PushWithTime
  <2>2. head = tail
    BY <1>1, <2>1, ModFull DEF IndicesAgree
  <2>3. ASSUME NEW i \in 1..capacity
        PROVE  (tail' + (i - 1)) % capacity = (tail + i) % capacity
    <3>1. (((tail + 1) % capacity) + (i - 1)) % capacity = (tail + (1 + (i - 1))) % capacity
      BY <1>1, ModShift
    <3>. QED
      BY <2>1, <3>1
  <2>4. ASSUME NEW i \in 1..capacity-1
        PROVE  slots'[(tail + i) % capacity] = Contents[i + 1]
    <3>1. i + 1 \in 1..size /\ (i + 1) - 1 = i
      BY <1>1, <2>1
    <3>2. (tail + i) % capacity # tail /\ (tail + i) % capacity \in 0..capacity-1
      BY <1>1, ModMoves
    <3>3. Contents[i + 1] = slots[(tail + ((i + 1) - 1)) % capacity]
      BY <3>1, ContentsType
    <3>4. slots'[(tail + i) % capacity] = slots[(tail + i) % capacity]
      BY <1>1, <1>2, <2>2, <3>2
    <3>. QED
      BY <3>1, <3>3, <3>4
  <2>5. slots'[(tail + capacity) % capacity] = entry
    BY <1>1, <1>2, <2>2, ModFull
  <2>6. Contents' = [i \in 1..capacity |-> slots'[(tail + i) % capacity]]
    BY <1>3, <2>1, <2>3
  <2>7. /\ Tail(Contents) = [i \in 1..capacity-1 |-> Contents[i + 1]]
        /\ Tail(Contents) \in Seq(Entry \cup {Zero})
        /\ Len(Tail(Contents)) = capacity - 1
    <3>1. Contents # << >>
      BY <1>1, <2>1, ContentsType
    <3>. QED
      BY <2>1, <3>1, ContentsType, TailIsFunction
  <2>8. Append(Tail(Contents), entry)
          = [i \in 1..(capacity-1)+1 |->
               IF i <= capacity-1 THEN Tail(Contents)[i] ELSE entry]
    <3> DEFINE t == Tail(Contents)
    <3>1. /\ t \in Seq(Entry \cup {Zero}) /\ entry \in Entry \cup {Zero}
          /\ Len(t) = capacity - 1
      BY <2>7
    <3> HIDE DEF t
    <3>2. Append(t, entry) = [i \in 1..Len(t)+1 |-> IF i <= Len(t) THEN t[i] ELSE entry]
      BY <3>1, AppendIsFunction
    <3>. QED
      BY <3>1, <3>2, Zenon DEF t
  <2>9. Contents' = Append(Tail(Contents), entry)
    <3>1. (capacity - 1) + 1 = capacity
      BY <1>1
    <3>2. ASSUME NEW i \in 1..capacity
          PROVE  slots'[(tail + i) % capacity]
                   = IF i <= capacity-1 THEN Tail(Contents)[i] ELSE entry
      <4>1. CASE i <= capacity - 1
        BY <1>1, <2>4, <2>7, <4>1
      <4>2. CASE ~(i <= capacity - 1)
        <5>1. i = capacity
          BY <1>1, <4>2
        <5>. QED
          BY <2>5, <4>2, <5>1
      <4>. QED
        BY <4>1, <4>2
    <3>. QED
      BY <2>6, <2>8, <3>1, <3>2
  <2>10. ~(Len(Contents) < capacity)
    BY <1>1, <2>1, ContentsType
  <2>. QED
    BY <1>2, <2>9, <2>10 DEF Log!Write, Log!Pushed
<1>. QED
  BY <1>1, <1>4, <1>5

\* Moving the tail on by k forgets the k oldest entries.
LEMMA DropOldest ==
  ASSUME TypeOK, NEW k \in 0..size, slots' = slots, capacity' = capacity,
         tail' = (tail + k) % capacity, size' = size - k
  PROVE  Contents' = [i \in 1..size-k |-> Contents[k + i]]
<1>1. /\ capacity \in Nat \ {0} /\ size \in 0..capacity
      /\ tail \in 0..capacity-1
  BY CapacityPositive DEF TypeOK
<1>2. ASSUME NEW i \in 1..size-k
      PROVE  slots[(tail' + (i - 1)) % capacity] = Contents[k + i]
  <2>1. k \in 0..capacity /\ i - 1 \in 0..capacity /\ k + (i - 1) <= capacity
    BY <1>1
  <2>2. (((tail + k) % capacity) + (i - 1)) % capacity = (tail + (k + (i - 1))) % capacity
    BY <1>1, <2>1, ModShift
  <2>3. k + i \in 1..size /\ (k + i) - 1 = k + (i - 1)
    BY <1>1
  <2>. QED
    BY <2>2, <2>3, ContentsType
<1>3. Contents' = [i \in 1..size-k |-> slots[(tail' + (i - 1)) % capacity]]
  BY DEF Contents, At
<1>. QED
  BY <1>2, <1>3

LEMMA NewestIs ==
  ASSUME TypeOK, NEW n \in 0..size
  PROVE  Log!Newest(Contents, n) = [i \in 1..n |-> Contents[size - n + i]]
<1>1. size \in Nat
  BY CapacityPositive DEF TypeOK
<1>2. (IF n < Len(Contents) THEN n ELSE Len(Contents)) = n
  BY <1>1, ContentsType
<1>. QED
  BY <1>2, ContentsType DEF Log!Newest

\* Pop takes the oldest entry.
LEMMA PopTakes ==
  ASSUME TypeOK, Pop
  PROVE  Log!TakeOldest
<1>1. size \in Nat /\ size # 0 /\ 1 \in 0..size
  BY CapacityPositive DEF TypeOK, Pop
<1>2. Contents' = [i \in 1..size-1 |-> Contents[1 + i]]
  BY <1>1, DropOldest DEF Pop
<1>3. Contents # << >>
  BY <1>1, ContentsType
<1>4. Tail(Contents) = [i \in 1..size-1 |-> Contents[i + 1]]
  BY <1>3, ContentsType, TailIsFunction
<1>5. Contents' = Tail(Contents)
  BY <1>1, <1>2, <1>4
<1>. QED
  BY <1>3, <1>5 DEF Log!TakeOldest, Pop

\* EvictOlderThan and Clear forget entries from the old end.
LEMMA EvictForgets ==
  ASSUME TypeOK, NEW cutoff \in Times, EvictOlderThan(cutoff)
  PROVE  Log!ForgetOldest
<1>1. PICK k \in 0..size : tail' = (tail + k) % capacity /\ size' = size - k
  BY DEF EvictOlderThan
<1>2. size \in Nat /\ size - k \in 0..size /\ size - (size - k) = k
  BY <1>1, CapacityPositive DEF TypeOK
<1>3. Contents' = [i \in 1..size-k |-> Contents[k + i]]
  BY <1>1, DropOldest DEF EvictOlderThan
<1>4. Contents' = Log!Newest(Contents, size - k)
  BY <1>2, <1>3, NewestIs
<1>. QED
  BY <1>2, <1>4, ContentsType DEF Log!ForgetOldest, EvictOlderThan

LEMMA ClearForgets ==
  ASSUME TypeOK, Clear
  PROVE  Log!ForgetOldest
<1>1. size \in Nat /\ 0 \in 0..size
  BY CapacityPositive DEF TypeOK
<1>2. Contents' = [i \in 1..0 |-> Contents[size - 0 + i]]
  BY DEF Clear, Contents, At
<1>3. Contents' = Log!Newest(Contents, 0)
  BY <1>1, <1>2, NewestIs
<1>. QED
  BY <1>1, <1>3, ContentsType DEF Log!ForgetOldest, Clear

\* Resize keeps the newest entries that fit.
LEMMA ResizeRebounds ==
  ASSUME TypeOK, NEW newCapacity \in Requested, Resize(newCapacity)
  PROVE  newCapacity \in Capacities /\ Log!Rebound(newCapacity)
<1> DEFINE kept == IF size > newCapacity THEN newCapacity ELSE size
           start == IF size > newCapacity THEN size - newCapacity ELSE 0
<1>1. newCapacity \in Capacities /\ newCapacity \in Nat \ {0} /\ size \in Nat
  BY CapacityPositive, RingAssumption DEF TypeOK, Resize, Capacities
<1>2. /\ kept \in 0..size /\ kept \in 0..newCapacity
      /\ start = size - kept /\ size - start = kept
  BY <1>1
<1>3. /\ capacity' = newCapacity /\ tail' = 0 /\ size' = kept
      /\ slots' = [i \in 0..newCapacity-1 |-> IF i < kept THEN At(start + i) ELSE Zero]
  BY <1>2 DEF Resize
<1>4. ASSUME NEW i \in 1..kept
      PROVE  slots'[(0 + (i - 1)) % newCapacity] = Contents[size - kept + i]
  <2>1. i - 1 \in 0..newCapacity-1 /\ i - 1 < kept /\ 0 \in 0..newCapacity-1
        /\ i - 1 \in 0..newCapacity
    BY <1>1, <1>2
  <2>2. (0 + (i - 1)) % newCapacity = i - 1
    <3>1. (i - 1) % newCapacity = i - 1
      BY <1>1, <2>1, ModMoves
    <3>2. 0 + (i - 1) = i - 1
      BY <2>1
    <3>. QED
      BY <3>1, <3>2
  <2>3. slots'[i - 1] = At(start + (i - 1))
    BY <1>3, <2>1
  <2>4. size - kept + i \in 1..size /\ (size - kept + i) - 1 = start + (i - 1)
    BY <1>1, <1>2
  <2>5. Contents[size - kept + i] = At((size - kept + i) - 1)
    BY <2>4 DEF Contents
  <2>. QED
    BY <2>2, <2>3, <2>4, <2>5
<1>5. Contents' = [i \in 1..kept |-> slots'[(0 + (i - 1)) % newCapacity]]
  BY <1>3 DEF Contents, At
<1>6. Log!Newest(Contents, newCapacity) = [i \in 1..kept |-> Contents[size - kept + i]]
  <2>1. (IF newCapacity < Len(Contents) THEN newCapacity ELSE Len(Contents)) = kept
    BY <1>1, ContentsType
  <2>. QED
    BY <2>1, ContentsType DEF Log!Newest
<1>7. Contents' = Log!Newest(Contents, newCapacity)
  BY <1>4, <1>5, <1>6
<1>. QED
  BY <1>1, <1>3, <1>7 DEF Log!Rebound

-----------------------------------------------------------------------------
\* Every initial state is one of the log, every step writes, takes, forgets or
\* rebounds as the log may, and reads leave it alone (ImplementsBoundedLog).
LEMMA InitLog == Init => Log!LogInit
<1> SUFFICES ASSUME Init PROVE Log!LogInit
  OBVIOUS
<1>1. TypeOK /\ size = 0
  BY InitType DEF Init
<1>2. Contents = << >>
  BY <1>1 DEF Contents
<1>. QED
  BY <1>1, <1>2 DEF Log!LogInit, TypeOK

LEMMA StepLog ==
  TypeOK /\ TypeOK' /\ IndicesAgree /\ [Next]_vars => [Log!LogNext]_(Log!logVars)
<1> SUFFICES ASSUME TypeOK, TypeOK', IndicesAgree, [Next]_vars
             PROVE  [Log!LogNext]_(Log!logVars)
  OBVIOUS
<1> USE DEF Log!LogNext
<1>1. ASSUME NEW entry \in Entry, PushWithTime(entry)
      PROVE  Log!LogNext
  BY <1>1, PushWrites
<1>2. CASE Pop
  BY <1>2, PopTakes
<1>3. CASE Clear
  BY <1>3, ClearForgets
<1>4. ASSUME NEW cutoff \in Times, EvictOlderThan(cutoff)
      PROVE  Log!LogNext
  BY <1>4, EvictForgets
<1>5. ASSUME NEW newCapacity \in Requested, Resize(newCapacity)
      PROVE  Log!LogNext
  BY <1>5, ResizeRebounds
<1>6. ASSUME UNCHANGED <<slots, indices>>
      PROVE  UNCHANGED Log!logVars
  BY <1>6 DEF indices, Contents, At, Log!logVars
<1>. QED
  BY <1>1, <1>2, <1>3, <1>4, <1>5, <1>6
  DEF Next, Writing, Reading, ReadAll, ReadLatest, ReadByTimeRange, BeginRead,
      LoadReads, StoreReads, vars, indices

\* Every step of the circular buffer is a step of the bounded log, or none.
THEOREM Implementation == Spec => ImplementsBoundedLog
<1>1. TypeOK /\ IndicesAgree /\ [Next]_vars => TypeOK'
  BY NextType
<1>. QED
  BY <1>1, InitLog, StepLog, TypeCorrect, IndicesAlwaysAgree, PTL
  DEF Spec, ImplementsBoundedLog, Log!LogSpec

-----------------------------------------------------------------------------
(***************************************************************************)
(* Lost additions: readers under the shared lock overwrite each other's    *)
(* totalReads, but whatever one of them loaded was never ahead of the      *)
(* entries handed out by then, and what it adds it has handed out itself.  *)
(***************************************************************************)
LEMMA NextReads == TypeOK /\ ReadsNeverOvercounted /\ [Next]_vars => ReadsNeverOvercounted'
<1> SUFFICES ASSUME TypeOK, ReadsNeverOvercounted, [Next]_vars
             PROVE  ReadsNeverOvercounted'
  OBVIOUS
<1>1. /\ totalReads \in Nat /\ handedOut \in Nat
      /\ reader \in [Readers -> {Idle} \cup Busy]
      /\ totalReads <= handedOut
      /\ \A r \in Readers : reader[r].loaded <= handedOut
  BY DEF TypeOK, ReadsNeverOvercounted
<1>2. \A r \in Readers : reader[r].loaded \in Int /\ reader[r].by \in Nat
  BY <1>1 DEF Idle, Busy, NotLoaded
<1>3. CASE Pop
  BY <1>1, <1>2, <1>3 DEF Pop, ReadsNeverOvercounted
<1>4. ASSUME NEW r \in Readers, NEW times \in Int, NEW by \in Int,
             BeginRead(r, times, by)
      PROVE  ReadsNeverOvercounted'
  BY <1>1, <1>2, <1>4 DEF BeginRead, ReadsNeverOvercounted, NotLoaded
<1>5. ASSUME NEW r \in Readers, LoadReads(r)
      PROVE  ReadsNeverOvercounted'
  <2>1. \A q \in Readers : reader'[q].loaded = totalReads \/ reader'[q] = reader[q]
    BY <1>1, <1>5 DEF LoadReads, Idle, Busy
  <2>2. UNCHANGED <<totalReads, handedOut>>
    BY <1>5 DEF LoadReads
  <2>. QED
    BY <1>1, <1>2, <2>1, <2>2 DEF ReadsNeverOvercounted
<1>6. ASSUME NEW r \in Readers, StoreReads(r)
      PROVE  ReadsNeverOvercounted'
  <2>1. /\ totalReads' = reader[r].loaded + reader[r].by
        /\ handedOut' = handedOut + reader[r].by
    BY <1>6 DEF StoreReads
  <2>2. \A q \in Readers : reader'[q].loaded = NotLoaded \/ reader'[q] = reader[q]
    BY <1>1, <1>6 DEF StoreReads, Idle
  <2>. QED
    BY <1>1, <1>2, <2>1, <2>2 DEF ReadsNeverOvercounted, NotLoaded
<1>7. CASE UNCHANGED <<totalReads, handedOut, reader>>
  BY <1>1, <1>7 DEF ReadsNeverOvercounted
<1>8. size \in Nat /\ capacity \in Nat
  BY CapacityPositive DEF TypeOK
<1>. QED
  BY <1>3, <1>4, <1>5, <1>6, <1>7, <1>8
  DEF Next, Writing, Reading, ReadAll, ReadLatest, ReadByTimeRange,
      PushWithTime, Clear, EvictOlderThan, Resize, vars

\* totalReads never counts an entry that was not handed out.
THEOREM NeverOvercounted == Spec => []ReadsNeverOvercounted
<1>1. Init => ReadsNeverOvercounted
  BY DEF Init, ReadsNeverOvercounted, Idle, NotLoaded
<1>. QED
  BY <1>1, NextReads, TypeCorrect, PTL DEF Spec
-----------------------------------------------------------------------------
(***************************************************************************)
(* The binary search.                                                      *)
(***************************************************************************)
Halves(n) == [i : 0..n, j : 0..n]

\* Growing(holds, n): once TRUE, TRUE from there on.
Growing(holds, n) == \A x, y \in 0..n-1 : x <= y /\ holds[x] => holds[y]

\* What is below the range is FALSE, what is from its end on is TRUE.
Narrows(range, holds, n) ==
  /\ range \in Halves(n) /\ range.i <= range.j
  /\ \A x \in 0..n-1 : x < range.i => ~holds[x]
  /\ \A x \in 0..n-1 : x >= range.j => holds[x]

LEMMA HalfWay ==
  ASSUME NEW a \in Int, NEW b \in Int, a < b
  PROVE  LET h == (a + b) \div 2 IN h \in Int /\ a <= h /\ h < b
  OBVIOUS

LEMMA HalvedType ==
  ASSUME NEW n \in Nat, NEW range \in Halves(n), NEW holds
  PROVE  Halved(range, holds) \in Halves(n)
<1> DEFINE h == (range.i + range.j) \div 2
<1>1. range.i \in 0..n /\ range.j \in 0..n
  BY DEF Halves
<1>2. CASE range.i < range.j
  <2>1. h \in Int /\ range.i <= h /\ h < range.j
    BY <1>1, <1>2, HalfWay
  <2> HIDE DEF h
  <2>2. h \in 0..n /\ h + 1 \in 0..n
    BY <1>1, <2>1
  <2>3. [i |-> range.i, j |-> h] \in Halves(n) /\ [i |-> h + 1, j |-> range.j] \in Halves(n)
    BY <1>1, <2>2 DEF Halves
  <2>4. \/ Halved(range, holds) = [i |-> range.i, j |-> h]
        \/ Halved(range, holds) = [i |-> h + 1, j |-> range.j]
    BY <1>1, <1>2 DEF Halved, h
  <2> QED
    BY <2>3, <2>4
<1>3. CASE range.i >= range.j
  BY <1>3 DEF Halved
<1> QED
  BY <1>1, <1>2, <1>3

\* A round narrows the range by at least one while it is not empty.
LEMMA HalvedNarrows ==
  ASSUME NEW n \in Nat, NEW range, NEW holds \in [0..n-1 -> BOOLEAN], Growing(holds, n),
         Narrows(range, holds, n)
  PROVE  LET next == Halved(range, holds) IN
         /\ Narrows(next, holds, n)
         /\ next.j - next.i = 0 \/ next.j - next.i < range.j - range.i
<1> DEFINE h == (range.i + range.j) \div 2
           next == Halved(range, holds)
<1>1. range \in Halves(n) /\ range.i \in 0..n /\ range.j \in 0..n /\ range.i <= range.j
  BY DEF Halves, Narrows
<1>2. next \in Halves(n)
  BY <1>1, HalvedType
<1>3. CASE range.i >= range.j
  <2>1. next = range
    BY <1>3 DEF Halved
  <2> QED
    BY <1>1, <1>3, <2>1
<1>4. CASE range.i < range.j
  <2>1. h \in Int /\ range.i <= h /\ h < range.j
    BY <1>1, <1>4, HalfWay
  <2>2. next = IF holds[h] THEN [i |-> range.i, j |-> h] ELSE [i |-> h + 1, j |-> range.j]
    BY <1>1, <1>4 DEF Halved
  <2> HIDE DEF h, next
  <2>3. h \in 0..n-1
    BY <1>1, <2>1
  <2>4. CASE holds[h]
    <3>1. next.i = range.i /\ next.j = h
      BY <2>2, <2>4
    <3>2. \A x \in 0..n-1 : x >= h => holds[x]
      BY <2>3, <2>4 DEF Growing
    <3>3. /\ next.i <= next.j
          /\ next.j - next.i = 0 \/ next.j - next.i < range.j - range.i
      BY <1>1, <2>1, <3>1
    <3>4. \A x \in 0..n-1 : x < next.i => ~holds[x]
      BY <1>1, <2>1, <3>1 DEF Narrows
    <3>5. Narrows(next, holds, n)
      BY <1>2, <3>1, <3>2, <3>3, <3>4 DEF Narrows
    <3> QED
      BY <3>3, <3>5 DEF next
  <2>5. CASE ~holds[h]
    <3>1. next.i = h + 1 /\ next.j = range.j
      BY <2>2, <2>5
    <3>2. \A x \in 0..n-1 : x < h + 1 => ~holds[x]
      <4>1. \A x \in 0..n-1 : x < h + 1 => x <= h
        BY <2>1
      <4> QED
        BY <2>3, <2>5, <4>1 DEF Growing
    <3>3. /\ next.i <= next.j
          /\ next.j - next.i = 0 \/ next.j - next.i < range.j - range.i
      BY <1>1, <2>1, <3>1
    <3>4. \A x \in 0..n-1 : x >= next.j => holds[x]
      BY <1>1, <2>1, <3>1 DEF Narrows
    <3>5. Narrows(next, holds, n)
      BY <1>2, <3>1, <3>2, <3>3, <3>4 DEF Narrows
    <3> QED
      BY <3>3, <3>5 DEF next
  <2> QED
    BY <2>4, <2>5
<1> QED
  BY <1>1, <1>3, <1>4

LEMMA SearchRoundsAre ==
  ASSUME NEW n \in Nat, NEW holds
  PROVE  /\ SearchRounds(n, holds)[0] = [i |-> 0, j |-> n]
         /\ \A k \in 1..n : SearchRounds(n, holds)[k] = Halved(SearchRounds(n, holds)[k - 1], holds)
<1> DEFINE start == [i |-> 0, j |-> n]
           step == [p \in (1..n) \X Halves(n) |-> Halved(p[2], holds)]
           body(f) == [k \in 0..n |-> IF k = 0 THEN [i |-> 0, j |-> n] ELSE Halved(f[k - 1], holds)]
<1>1. start \in Halves(n)
  BY DEF Halves
<1>2. step \in [(1..n) \X Halves(n) -> Halves(n)]
  <2>1. ASSUME NEW p \in (1..n) \X Halves(n) PROVE Halved(p[2], holds) \in Halves(n)
    <3>1. p[2] \in Halves(n)
      OBVIOUS
    <3> QED
      BY <3>1, HalvedType
  <2> QED
    BY <2>1
<1>3. PICK f : IsRecursive(f, n, Halves(n), start, step)
  <2> HIDE DEF start, step
  <2> QED
    BY <1>1, <1>2, RecursionExists
<1>4. f = body(f)
  <2>1. f \in [0..n -> Halves(n)] /\ f[0] = start
    BY <1>3 DEF IsRecursive
  <2>2. ASSUME NEW k \in 0..n
        PROVE  f[k] = IF k = 0 THEN [i |-> 0, j |-> n] ELSE Halved(f[k - 1], holds)
    <3>1. CASE k = 0
      BY <2>1, <3>1
    <3>2. CASE k # 0
      <4>1. k \in 1..n /\ k - 1 \in 0..n
        BY <3>2
      <4>2. f[k] = step[<<k, f[k - 1]>>]
        <5> HIDE DEF step
        <5> QED
          BY <1>3, <4>1 DEF IsRecursive
      <4>3. f[k - 1] \in Halves(n)
        BY <2>1, <4>1
      <4>4. <<k, f[k - 1]>> \in (1..n) \X Halves(n)
        BY <4>1, <4>3
      <4>5. step[<<k, f[k - 1]>>] = Halved(f[k - 1], holds)
        BY <4>4
      <4> QED
        BY <3>2, <4>2, <4>5, Zenon
    <3> QED
      BY <3>1, <3>2
  <2> QED
    BY <2>1, <2>2
<1> DEFINE r == SearchRounds(n, holds)
<1>5. r = body(r)
  <2>1. r = CHOOSE g : g = body(g)
    BY DEF SearchRounds
  <2> QED
    BY <1>4, <2>1
<1>6. r[0] = start
  <2>1. r[0] = body(r)[0]
    BY <1>5, Zenon
  <2> HIDE DEF r
  <2> QED
    BY <2>1
<1>7. ASSUME NEW k \in 1..n PROVE r[k] = Halved(r[k - 1], holds)
  <2>1. r[k] = body(r)[k] /\ k \in 0..n /\ k # 0
    BY <1>5
  <2> HIDE DEF r
  <2> QED
    BY <2>1
<1> QED
  BY <1>6, <1>7

\* The search finds where a growing predicate starts to hold.
LEMMA SearchFinds ==
  ASSUME NEW n \in Nat, NEW holds \in [0..n-1 -> BOOLEAN], Growing(holds, n)
  PROVE  /\ SortSearch(n, holds) \in 0..n
         /\ \A x \in 0..n-1 : holds[x] <=> x >= SortSearch(n, holds)
<1> DEFINE r == SearchRounds(n, holds)
           P == {k \in 0..n : Narrows(r[k], holds, n) /\ r[k].j - r[k].i <= n - k}
<1>1. /\ r[0] = [i |-> 0, j |-> n]
      /\ \A k \in 1..n : r[k] = Halved(r[k - 1], holds)
  BY SearchRoundsAre
<1> HIDE DEF r
<1>2. 0 \in P
  <2>1. [i |-> 0, j |-> n] \in Halves(n)
    BY DEF Halves
  <2> QED
    BY <1>1, <2>1 DEF Narrows
<1>3. ASSUME NEW k \in 1..n, k - 1 \in P PROVE k \in P
  <2> DEFINE last == r[k - 1]
             next == Halved(last, holds)
  <2>1. Narrows(last, holds, n) /\ last.j - last.i <= n - (k - 1)
    BY <1>3
  <2>2. r[k] = next
    BY <1>1
  <2>3. /\ Narrows(next, holds, n)
        /\ next.j - next.i = 0 \/ next.j - next.i < last.j - last.i
    <3> HIDE DEF last
    <3> QED
      BY <2>1, HalvedNarrows
  <2> HIDE DEF last, next
  <2>4. last.j \in Int /\ last.i \in Int /\ next.j \in Int /\ next.i \in Int
    BY <2>1, <2>3 DEF Narrows, Halves
  <2>5. next.j - next.i <= n - k
    BY <2>1, <2>3, <2>4
  <2> QED
    BY <2>2, <2>3, <2>5
<1>4. n \in P
  <2> HIDE DEF P
  <2>1. \A k \in 0..n : k \in P
    BY <1>2, <1>3, InductionUpTo
  <2> QED
    BY <2>1
<1>5. Narrows(r[n], holds, n) /\ r[n].j - r[n].i <= 0
  BY <1>4
<1>6. r[n].i \in 0..n /\ r[n].j \in 0..n /\ r[n].i = r[n].j
  BY <1>5 DEF Narrows, Halves
<1>7. SortSearch(n, holds) = r[n].i
  BY DEF SortSearch, r
<1>8. \A x \in 0..n-1 : (x < r[n].i => ~holds[x]) /\ (x >= r[n].i => holds[x])
  BY <1>5, <1>6 DEF Narrows
<1> DEFINE m == r[n].i
<1>9. \A x \in 0..n-1 : holds[x] <=> x >= m
  <2>1. m \in Int
    BY <1>6
  <2> HIDE DEF m
  <2>2. \A x \in 0..n-1 : x < m \/ x >= m
    BY <2>1
  <2> QED
    BY <1>8, <2>2 DEF m
<1> QED
  BY <1>6, <1>7, <1>9
-----------------------------------------------------------------------------
(***************************************************************************)
(* Range reads.                                                            *)
(***************************************************************************)
\* In a log in time order a search for the first time that pre-dates no bound
\* splits the log in two.
LEMMA SplitAt ==
  ASSUME NEW S, NEW log \in Seq(S), \A e \in S : e.time \in Int, TimeOrdered(log),
         NEW holds \in [0..Len(log)-1 -> BOOLEAN],
         \A x, y \in 0..Len(log)-1 : log[x + 1].time <= log[y + 1].time /\ holds[x] => holds[y]
  PROVE  /\ SortSearch(Len(log), holds) \in 0..Len(log)
         /\ \A i \in 1..Len(log) : holds[i - 1] <=> i > SortSearch(Len(log), holds)
<1> DEFINE n == Len(log)
           m == SortSearch(n, holds)
<1>1. Growing(holds, n)
  <2> SUFFICES ASSUME NEW x \in 0..n-1, NEW y \in 0..n-1, x <= y, holds[x] PROVE holds[y]
    BY DEF Growing
  <2>1. x + 1 \in 1..n /\ y + 1 \in 1..n /\ x + 1 <= y + 1
    OBVIOUS
  <2>2. log[x + 1].time <= log[y + 1].time
    BY <2>1 DEF TimeOrdered
  <2> QED
    BY <2>2
<1>2. n \in Nat
  OBVIOUS
<1>3. m \in 0..n /\ \A x \in 0..n-1 : holds[x] <=> x >= m
  <2> HIDE DEF n
  <2> QED
    BY <1>1, <1>2, SearchFinds DEF n
<1> HIDE DEF m, n
<1>4. ASSUME NEW i \in 1..n PROVE holds[i - 1] <=> i > m
  <2>1. i - 1 \in 0..n-1 /\ (i - 1 >= m <=> i > m)
    BY <1>2, <1>3
  <2> QED
    BY <1>3, <2>1
<1> QED
  BY <1>3, <1>4 DEF n, m

LEMMA SearchedRangeIs ==
  ASSUME NEW S, NEW log \in Seq(S), \A e \in S : e.time \in Int, TimeOrdered(log),
         NEW from \in Int, NEW to \in Int, from <= to
  PROVE  LET r == SearchedRange(log, from, to) IN
         /\ r.first \in Nat /\ r.last \in Nat /\ r.first <= r.last /\ r.last <= Len(log)
         /\ \A i \in 1..Len(log) : (from <= log[i].time <=> i > r.first)
                                   /\ (log[i].time <= to <=> i <= r.last)
<1> DEFINE n == Len(log)
           late == [i \in 0..n-1 |-> log[i+1].time >= from]
           past == [i \in 0..n-1 |-> log[i+1].time > to]
           a == SortSearch(n, late)
           b == SortSearch(n, past)
<1>1. \A i \in 0..n-1 : log[i + 1].time \in Int
  OBVIOUS
<1>2. late \in [0..n-1 -> BOOLEAN] /\ past \in [0..n-1 -> BOOLEAN]
  OBVIOUS
<1>3. \A i \in 0..n-1 : (late[i] <=> log[i+1].time >= from) /\ (past[i] <=> log[i+1].time > to)
  OBVIOUS
<1> HIDE DEF late, past
<1>4. \A x, y \in 0..n-1 : log[x + 1].time <= log[y + 1].time =>
        (late[x] => late[y]) /\ (past[x] => past[y])
  <2> SUFFICES ASSUME NEW x \in 0..n-1, NEW y \in 0..n-1, log[x + 1].time <= log[y + 1].time
               PROVE  (late[x] => late[y]) /\ (past[x] => past[y])
    OBVIOUS
  <2>1. \A p, q \in Int : p <= q => (p >= from => q >= from) /\ (p > to => q > to)
    OBVIOUS
  <2>2. log[x + 1].time \in Int /\ log[y + 1].time \in Int
    BY <1>1
  <2> QED
    BY <1>3, <2>1, <2>2, Zenon
<1>5. a \in 0..n /\ \A i \in 1..n : late[i - 1] <=> i > a
  BY <1>2, <1>4, SplitAt
<1>6. b \in 0..n /\ \A i \in 1..n : past[i - 1] <=> i > b
  BY <1>2, <1>4, SplitAt
<1> HIDE DEF a, b
<1>7. ASSUME NEW i \in 1..n
      PROVE  (from <= log[i].time <=> i > a) /\ (log[i].time <= to <=> i <= b) /\ log[i].time \in Int
  <2>1. i - 1 \in 0..n-1 /\ (i - 1) + 1 = i
    OBVIOUS
  <2>2. log[i].time \in Int /\ (late[i - 1] <=> log[i].time >= from) /\ (past[i - 1] <=> log[i].time > to)
    BY <1>1, <1>3, <2>1
  <2>3. (late[i - 1] <=> i > a) /\ (past[i - 1] <=> i > b)
    BY <1>5, <1>6
  <2>4. (i > b <=> ~(i <= b)) /\ (log[i].time > to <=> ~(log[i].time <= to))
        /\ (log[i].time >= from <=> from <= log[i].time)
    BY <1>6, <2>2
  <2> QED
    BY <2>2, <2>3, <2>4
<1>8. a <= b
  <2> SUFFICES ASSUME b < a PROVE FALSE
    BY <1>5, <1>6
  <2>1. b + 1 \in 1..n /\ ~(b + 1 > a) /\ ~(b + 1 <= b)
    BY <1>5, <1>6
  <2>2. ~(from <= log[b + 1].time) /\ ~(log[b + 1].time <= to) /\ log[b + 1].time \in Int
    BY <1>7, <2>1
  <2> QED
    BY <2>2
<1>9. SearchedRange(log, from, to) = [first |-> a, last |-> b]
  BY DEF SearchedRange, a, b, late, past
<1>10. a \in Nat /\ b \in Nat /\ b <= n
  BY <1>5, <1>6
<1> HIDE DEF n
<1> QED
  BY <1>7, <1>8, <1>9, <1>10 DEF n

LEMMA RangeReadIsWithin ==
  ASSUME NEW S, NEW log \in Seq(S), \A e \in S : e.time \in Int, TimeOrdered(log),
         NEW from \in Int, NEW to \in Int, from <= to, NEW limit
  PROVE  /\ ~RangePanics(log, limit, from, to)
         /\ RangeRead(log, limit, from, to) = Within(log, from, to)
<1> DEFINE r == SearchedRange(log, from, to)
           a == r.first
           b == r.last
           I == {i \in 1..Len(log) : from <= log[i].time /\ log[i].time <= to}
<1>1. /\ a \in Nat /\ b \in Nat /\ a <= b /\ b <= Len(log)
      /\ \A i \in 1..Len(log) : (from <= log[i].time <=> i > a) /\ (log[i].time <= to <=> i <= b)
  BY SearchedRangeIs
<1>. HIDE DEF r
<1>2. ~RangePanics(log, limit, from, to)
  BY <1>1 DEF RangePanics, r
<1>3. \A i \in 1..Len(log) : i \in I <=> a < i /\ i <= b
  <2>1. \A i \in 1..Len(log) : i > a <=> a < i
    BY <1>1
  <2> QED
    BY <1>1, <2>1
<1> HIDE DEF a, b, I
<1> DEFINE kept == Kept(log, I)
<1>4. kept \in Seq(S) /\ Len(kept) = b - a /\ \A j \in 1..b - a : kept[j] = log[a + j]
  <2>1. Between(I, Len(log), a, b)
    BY <1>3 DEF Between
  <2>2. kept \in Seq(S) /\ Stretch(kept, log, a, b)
    BY <1>1, <2>1, KeptBetween
  <2> QED
    BY <2>2 DEF Stretch
<1>5. Within(log, from, to) = kept
  BY DEF Within, I
<1> HIDE DEF kept
<1>6. kept = [j \in 1..b - a |-> log[a + j]]
  <2>1. kept = [j \in 1..Len(kept) |-> kept[j]]
    BY <1>4
  <2> QED
    BY <1>4, <2>1
<1>7. CASE Len(log) < limit
  BY <1>2, <1>7, Zenon DEF RangeRead
<1>8. CASE ~(Len(log) < limit) /\ (a >= Len(log) \/ b <= a)
  <2>1. RangeRead(log, limit, from, to) = << >>
    BY <1>8 DEF RangeRead, a, b, r
  <2>2. Len(kept) = 0
    BY <1>1, <1>4, <1>8
  <2>3. kept = << >>
    BY <1>4, <2>2
  <2> QED
    BY <1>2, <1>5, <2>1, <2>3
<1>9. CASE ~(Len(log) < limit) /\ ~(a >= Len(log) \/ b <= a)
  <2>1. RangeRead(log, limit, from, to) = SubSeq(log, a + 1, b)
    BY <1>9 DEF RangeRead, a, b, r
  <2>2. SubSeq(log, a + 1, b) = [j \in 1..b - a |-> log[a + j]]
    <3> DEFINE q == SubSeq(log, a + 1, b)
    <3>1. a \in 0..Len(log) /\ b \in 0..Len(log) /\ a < b
      BY <1>1, <1>9
    <3>2. q \in Seq(S) /\ Len(q) = b - a /\ \A j \in 1..b - a : q[j] = log[a + j]
      BY <3>1
    <3> HIDE DEF q
    <3>3. q = [j \in 1..Len(q) |-> q[j]]
      BY <3>2
    <3> QED
      BY <3>2, <3>3 DEF q
  <2> QED
    BY <1>2, <1>5, <1>6, <2>1, <2>2
<1> QED
  BY <1>2, <1>7, <1>8, <1>9, Zenon

LEMMA EntryTimes == \A e \in Entry \cup {Zero} : e.time \in Int
<1>1. \A e \in Entry : e.time \in Times
  BY DEF Entry
<1>2. Zero.time \in Int
  BY DEF Zero
<1>3. \A e \in Entry : e.time \in Int
  BY <1>1, RingAssumption
<1> QED
  BY <1>2, <1>3

LEMMA RangesFromType == TypeOK => RangeReadExact
<1> SUFFICES ASSUME TypeOK, TimeOrdered(Contents), NEW from \in Times, NEW to \in Times, from <= to
             PROVE  /\ ~RangePanics(Contents, LinearLimit, from, to)
                    /\ RangeRead(Contents, LinearLimit, from, to) = Within(Contents, from, to)
  BY DEF RangeReadExact
<1> DEFINE S == Entry \cup {Zero}
           log == Contents
<1>1. log \in Seq(S) /\ (\A e \in S : e.time \in Int) /\ TimeOrdered(log) /\ from \in Int /\ to \in Int
  BY ContentsType, EntryTimes, RingAssumption
<1> HIDE DEF S, log
<1>2. /\ ~RangePanics(log, LinearLimit, from, to)
      /\ RangeRead(log, LinearLimit, from, to) = Within(log, from, to)
  BY <1>1, RangeReadIsWithin
<1> QED
  BY <1>2 DEF log

\* A range read of entries in time order never panics and returns exactly the
\* entries of the range, scanned or searched (RangeReadExact).
THEOREM RangeReadsExact == Spec => []RangeReadExact
  BY RangesFromType, TypeCorrect, PTL
-----------------------------------------------------------------------------
(***************************************************************************)
(* Evictions.                                                              *)
(***************************************************************************)
LEMMA ForgottenWereOld ==
  ASSUME NEW S, NEW log \in Seq(S), \A e \in S : e.time \in Int, NEW cutoff \in Int,
         NEW k \in 0..Len(log), \A j \in 1..k : log[j].time < cutoff,
         k < Len(log) => log[k + 1].time >= cutoff,
         NEW rest, rest = [i \in 1..Len(log) - k |-> log[k + i]]
  PROVE  /\ Young(rest, cutoff) = Young(log, cutoff)
         /\ TimeOrdered(log) => rest = Young(log, cutoff)
<1> DEFINE I == {i \in 1..Len(log) : log[i].time >= cutoff}
           J == {i \in 1..Len(rest) : rest[i].time >= cutoff}
           gone == SubSeq(log, 1, k)
           young == Kept(log, I)
           left == Kept(rest, J)
           none == Kept(gone, I)
<1>1. /\ rest \in Seq(S) /\ Len(rest) = Len(log) - k
      /\ gone \in Seq(S) /\ Len(gone) = k /\ \A i \in 1..k : gone[i] = log[i]
      /\ \A i \in 1..Len(rest) : rest[i] = log[k + i] /\ k + i \in 1..Len(log)
  <2>1. \A i \in 1..Len(log) - k : k + i \in 1..Len(log)
    OBVIOUS
  <2>2. \A i \in 1..Len(log) - k : log[k + i] \in S
    BY <2>1
  <2>3. rest \in Seq(S) /\ Len(rest) = Len(log) - k
    <3> DEFINE n == Len(log) - k
    <3>1. n \in Nat /\ rest = [i \in 1..n |-> log[k + i]] /\ \A i \in 1..n : log[k + i] \in S
      BY <2>2
    <3> HIDE DEF n
    <3>2. rest \in Seq(S) /\ Len(rest) = n
      BY <3>1
    <3> QED
      BY <3>2 DEF n
  <2> QED
    BY <2>1, <2>3
<1>2. \A i \in 1..Len(log) : log[i].time \in Int
  OBVIOUS
<1>3. \A i \in 1..Len(rest) : i \in J <=> k + i \in I
  BY <1>1
<1>4. \A i \in 1..Len(gone) : i \notin I
  <2>1. \A i \in 1..k : i \in 1..Len(log) /\ log[i].time < cutoff
    OBVIOUS
  <2>2. \A i \in 1..k : ~(log[i].time >= cutoff)
    BY <1>2, <2>1
  <2> QED
    BY <1>1, <2>2
<1>5. ASSUME TimeOrdered(log), NEW i \in 1..Len(rest) PROVE i \in J
  <2>1. /\ k < Len(log) /\ k + 1 \in 1..Len(log) /\ k + i \in 1..Len(log) /\ k + 1 <= k + i
        /\ log[k + 1].time \in Int /\ log[k + i].time \in Int
    <3>1. k < Len(log) /\ k + 1 \in 1..Len(log) /\ k + i \in 1..Len(log) /\ k + 1 <= k + i
      BY <1>1
    <3> QED
      BY <1>2, <3>1
  <2>2. log[k + 1].time <= log[k + i].time
    BY <1>5, <2>1 DEF TimeOrdered
  <2> QED
    BY <1>1, <2>1, <2>2
<1> HIDE DEF I, J, gone
<1>6. Joined(young, none, left)
  <2>1. Shifted(J, I, Len(rest), k)
    BY <1>3 DEF Shifted
  <2>2. Joined(Kept(log, I), Kept(SubSeq(log, 1, k), I), Kept(rest, J))
    BY <2>1, KeptOfRest
  <2> QED
    BY <2>2 DEF gone
<1>7. none = << >>
  BY <1>1, <1>4, KeptNone
<1>8. young \in Seq(S) /\ left \in Seq(S)
  BY <1>1, KeptEnumerates
<1>9. (\A i \in 1..Len(rest) : i \in J) => left = rest
  BY <1>1, KeptAll
<1>10. Young(log, cutoff) = young /\ Young(rest, cutoff) = left
  BY DEF Young, I, J
<1> HIDE DEF young, left, none
<1>11. young = left
  <2>1. Len(young) = Len(left) /\ \A i \in 1..Len(left) : young[i] = left[i]
    BY <1>6, <1>7, <1>8 DEF Joined
  <2>2. young = [i \in 1..Len(young) |-> young[i]] /\ left = [i \in 1..Len(left) |-> left[i]]
    BY <1>8
  <2> QED
    BY <2>1, <2>2
<1> QED
  BY <1>5, <1>9, <1>10, <1>11

LEMMA EvictionKeeps ==
  ASSUME TypeOK, NEW cutoff \in Times, EvictOlderThan(cutoff)
  PROVE  /\ Young(Contents', cutoff) = Young(Contents, cutoff)
         /\ TimeOrdered(Contents) => Contents' = Young(Contents, cutoff)
<1> DEFINE S == Entry \cup {Zero}
           log == Contents
<1>1. PICK k \in 0..size :
        /\ \A j \in 0..k-1 : At(j).time < cutoff
        /\ k < size => At(k).time >= cutoff
        /\ tail' = (tail + k) % capacity
        /\ size' = size - k
  BY DEF EvictOlderThan
<1>2. /\ size \in Nat /\ log \in Seq(S) /\ Len(log) = size
      /\ \A i \in 1..size : log[i] = At(i - 1)
  BY CapacityPositive, ContentsType DEF TypeOK, Contents
<1>3. Contents' = [i \in 1..size-k |-> log[k + i]]
  BY <1>1, DropOldest DEF EvictOlderThan
<1>4. (\A e \in S : e.time \in Int) /\ cutoff \in Int
  BY EntryTimes, RingAssumption
<1> HIDE DEF S, log
<1>5. \A j \in 1..k : log[j].time < cutoff
  <2> SUFFICES ASSUME NEW j \in 1..k PROVE log[j].time < cutoff
    OBVIOUS
  <2>1. j \in 1..size /\ j - 1 \in 0..k-1
    BY <1>2
  <2> QED
    BY <1>1, <1>2, <2>1
<1>6. k < size => log[k + 1].time >= cutoff
  <2>1. k < size => k + 1 \in 1..size /\ (k + 1) - 1 = k
    BY <1>2
  <2> QED
    BY <1>1, <1>2, <2>1
<1> DEFINE rest == Contents'
<1>7. rest = [i \in 1..Len(log)-k |-> log[k + i]] /\ k \in 0..Len(log)
  BY <1>2, <1>3
<1> HIDE DEF rest
<1>8. /\ Young(rest, cutoff) = Young(log, cutoff)
      /\ TimeOrdered(log) => rest = Young(log, cutoff)
  BY <1>2, <1>4, <1>5, <1>6, <1>7, ForgottenWereOld
<1> QED
  BY <1>8 DEF rest, log

\* An eviction never drops an entry that is young enough, and of entries in
\* time order it leaves exactly those (EvictionKeepsTheYoung).
THEOREM EvictionsKeepTheYoung == Spec => EvictionKeepsTheYoung
<1>1. TypeOK /\ [Next]_vars =>
        [\A cutoff \in Times : EvictOlderThan(cutoff) =>
           /\ Young(Contents', cutoff) = Young(Contents, cutoff)
           /\ TimeOrdered(Contents) => Contents' = Young(Contents, cutoff)]_vars
  BY EvictionKeeps
<1> QED
  BY <1>1, TypeCorrect, PTL DEF Spec, EvictionKeepsTheYoung
=============================================================================
