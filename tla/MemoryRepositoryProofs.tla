----------------------- MODULE MemoryRepositoryProofs -----------------------
(***************************************************************************)
(* Proofs about MemoryRepository: RepositoryInv is inductive, and with it  *)
(* the index stays tidy and a call of GetLatestProcessMetrics may read a   *)
(* buffer the index has given up.  Then about ExportMetrics, which asks a  *)
(* repository while it changes: ExportsInv is inductive.  Last about what  *)
(* RepositoryQueries answers from a history of any length.                 *)
(***************************************************************************)
EXTENDS MCMemoryRepository, SubsequenceProofs, FiniteSetTheorems, SequenceTheorems, TLAPS

(***************************************************************************)
(* What the operations of TimeSeries return.                               *)
(***************************************************************************)
\* The newest entries of a log are a log of the same kind of entries.
LEMMA NewestLog ==
  ASSUME NEW S, NEW log \in Seq(S), NEW n \in Nat
  PROVE  Newest(log, n) \in Seq(S)
<1> DEFINE kept == IF n < Len(log) THEN n ELSE Len(log)
<1>1. kept \in Nat /\ kept <= Len(log)
  OBVIOUS
<1>2. Newest(log, n) = [i \in 1..kept |-> log[Len(log) - kept + i]]
  BY DEF Newest
<1> HIDE DEF kept
<1>3. ASSUME NEW i \in 1..kept
      PROVE  log[Len(log) - kept + i] \in S
  <2>1. Len(log) - kept + i \in 1..Len(log)
    BY <1>1
  <2> QED
    BY <2>1
<1> QED
  BY <1>1, <1>2, <1>3

\* A write leaves a log within its bound, and not empty.
LEMMA PushedLog ==
  ASSUME NEW S, NEW log \in Seq(S), NEW e \in S, NEW bound \in Nat \ {0},
         Len(log) <= bound
  PROVE  /\ Pushed(log, bound, e) \in Seq(S) \ {<< >>}
         /\ Len(Pushed(log, bound, e)) <= bound
<1>1. CASE Len(log) < bound
  <2>1. Pushed(log, bound, e) = Append(log, e)
    BY <1>1 DEF Pushed
  <2> QED
    BY <1>1, <2>1
<1>2. CASE ~(Len(log) < bound)
  <2>1. Pushed(log, bound, e) = Append(Tail(log), e)
    BY <1>2 DEF Pushed
  <2>2. log # << >>
    BY <1>2
  <2>3. Tail(log) \in Seq(S) /\ Len(Tail(log)) = Len(log) - 1
    BY <2>2
  <2> QED
    BY <1>2, <2>1, <2>3
<1> QED
  BY <1>1, <1>2

\* An eviction leaves a part of the log.
LEMMA EvictedLog ==
  ASSUME NEW S, NEW log \in Seq(S), NEW cutoff
  PROVE  Evicted(log, cutoff) \in Seq(S) /\ Len(Evicted(log, cutoff)) <= Len(log)
<1> DEFINE old == {i \in 1..Len(log) : \A j \in 1..i : log[j].time < cutoff}
           n == Cardinality(old)
<1>1. n \in 0..Len(log)
  <2>1. IsFiniteSet(1..Len(log)) /\ Cardinality(1..Len(log)) = Len(log)
    <3>1. Len(log) \in Nat
      OBVIOUS
    <3> QED
      BY <3>1, FS_Interval, SMTT(30)
  <2>2. old \subseteq 1..Len(log)
    OBVIOUS
  <2>3. IsFiniteSet(old) /\ n <= Len(log)
    BY <2>1, <2>2, FS_Subset
  <2> QED
    BY <2>3, FS_CardinalityType
<1>2. Evicted(log, cutoff) = SubSeq(log, n + 1, Len(log))
  BY DEF Evicted
<1>3. SubSeq(log, n + 1, Len(log)) \in Seq(S) /\ Len(SubSeq(log, n + 1, Len(log))) <= Len(log)
  <2> HIDE DEF n
  <2>1. \A i \in (n + 1)..Len(log) : log[i] \in S
    BY <1>1
  <2> QED
    BY <1>1, <2>1, SubSeqProperties
<1> QED
  BY <1>2, <1>3

\* The newest entries of nothing are nothing.
LEMMA NewestOfNothing == Newest(<< >>, 1) = << >>
<1>1. Newest(<< >>, 1) = [i \in 1..0 |-> << >>[Len(<< >>) - 0 + i]]
  BY DEF Newest
<1> QED
  BY <1>1

-----------------------------------------------------------------------------
(***************************************************************************)
(* The inductive invariant in terms of the sequences it is about: an index *)
(* buffer is a non-empty sequence of samples of its key.                   *)
(***************************************************************************)
Of(k) == {e \in Sample : e.key = k}

\* Tidiness is that the buffer of k is a sequence over Of(k).
LEMMA TidyIsOf ==
  ASSUME NEW k, NEW log \in Seq(Sample)
  PROVE  (\A i \in DOMAIN log : log[i].key = k) <=> log \in Seq(Of(k))
<1>1. ASSUME \A i \in DOMAIN log : log[i].key = k
      PROVE  log \in Seq(Of(k))
  <2>1. \A i \in 1..Len(log) : log[i] \in Of(k)
    BY <1>1 DEF Of
  <2> QED
    BY <2>1
<1>2. ASSUME log \in Seq(Of(k))
      PROVE  \A i \in DOMAIN log : log[i].key = k
  <2>1. \A i \in 1..Len(log) : log[i] \in Of(k)
    BY <1>2
  <2> QED
    BY <2>1 DEF Of
<1> QED
  BY <1>1, <1>2

\* No two keys share a buffer.
LEMMA OwnBuffers ==
  ASSUME RepositoryInv, NEW k \in Keys, NEW l \in Keys, Indexed(k),
         processIndex[k] = processIndex[l]
  PROVE  k = l
<1> DEFINE log == heap[processIndex[k]]
<1>1. log # << >> /\ log \in Seq(Sample) /\ (\A i \in DOMAIN log : log[i].key = k)
  BY DEF RepositoryInv, TypeOK, IndexIsTidy, Indexed
<1>2. \A i \in DOMAIN log : log[i].key = l
  BY DEF RepositoryInv, TypeOK, IndexIsTidy, Indexed
<1>3. 1 \in DOMAIN log
  <2> HIDE DEF log
  <2> QED
    BY <1>1
<1> QED
  BY <1>1, <1>2, <1>3

\* The calls in progress survive a step that keeps every buffer given up as it
\* is, and gives up a buffer only as it was or as the index now answers.
LEMMA CallsGoOn ==
  ASSUME RepositoryInv, Witnessed,
         heap' \in Seq(Seq(Sample)),
         processIndex' \in [Keys -> {None} \cup DOMAIN heap'],
         DOMAIN heap \subseteq DOMAIN heap',
         \A b \in DOMAIN heap \ Range(processIndex) : b # None =>
           heap'[b] = heap[b] /\ b \notin Range(processIndex'),
         \A k \in Keys : Indexed(k) =>
           \/ processIndex'[k] = processIndex[k]
           \/ /\ processIndex[k] \notin Range(processIndex')
              /\ Newest(heap'[processIndex[k]], 1) \in
                   {LatestIn(heap, processIndex, k), LatestIn(heap', processIndex', k)}
  PROVE  /\ reader' \in [Readers -> {None} \cup Call]
         /\ LatestLinearizable'
         /\ \A r \in Readers : reader'[r] # None =>
              /\ reader'[r].buffer \in DOMAIN heap' /\ reader'[r].buffer # None
              /\ processIndex'[reader'[r].key] = reader'[r].buffer
                   \/ reader'[r].buffer \notin Range(processIndex')
<1>1. ASSUME NEW k \in Keys
      PROVE  LatestIn(heap', processIndex', k) \in Seq(Sample)
  <2>1. processIndex'[k] # None => heap'[processIndex'[k]] \in Seq(Sample)
    OBVIOUS
  <2> QED
    BY <2>1, NewestLog DEF LatestIn
<1>2. ASSUME NEW r \in Readers, reader'[r] # None
      PROVE  /\ reader[r] \in Call
             /\ reader'[r] = [key |-> reader[r].key, buffer |-> reader[r].buffer,
                              answers |-> reader[r].answers
                                \cup {LatestIn(heap', processIndex', reader[r].key)}]
             /\ reader[r] # None
  <2>1. reader'[r] = IF reader[r] = None THEN None
                     ELSE [reader[r] EXCEPT !.answers =
                             @ \cup {LatestIn(heap', processIndex', reader[r].key)}]
    BY DEF Witnessed
  <2>2. reader[r] \in {None} \cup Call
    BY DEF RepositoryInv, TypeOK
  <2>3. reader[r] # None
    BY <1>2, <2>1
  <2> QED
    BY <2>1, <2>2, <2>3 DEF Call
<1>3. ASSUME NEW r \in Readers
      PROVE  reader'[r] \in {None} \cup Call
  <2>1. CASE reader'[r] # None
    <3> DEFINE now1 == LatestIn(heap', processIndex', reader[r].key)
    <3>1. reader[r] \in Call /\ reader[r].key \in Keys /\ reader[r].answers \in SUBSET Seq(Sample)
      BY <1>2, <2>1 DEF Call
    <3>2. now1 \in Seq(Sample)
      BY <1>1, <3>1
    <3>3. reader'[r] = [key |-> reader[r].key, buffer |-> reader[r].buffer,
                        answers |-> reader[r].answers \cup {now1}]
      BY <1>2, <2>1
    <3> HIDE DEF now1
    <3> QED
      BY <3>1, <3>2, <3>3 DEF Call
  <2> QED
    BY <2>1
<1>4. reader' \in [Readers -> {None} \cup Call]
  BY <1>3 DEF Witnessed
<1>5. ASSUME NEW r \in Readers, reader'[r] # None
      PROVE  /\ reader'[r].buffer \in DOMAIN heap' /\ reader'[r].buffer # None
             /\ processIndex'[reader'[r].key] = reader'[r].buffer
                  \/ reader'[r].buffer \notin Range(processIndex')
             /\ Newest(heap'[reader'[r].buffer], 1) \in reader'[r].answers
  <2> DEFINE k == reader[r].key
             b == reader[r].buffer
             found == Newest(heap'[b], 1)
  <2>1. /\ k \in Keys /\ b \in DOMAIN heap /\ b # None
        /\ processIndex[k] = b \/ b \notin Range(processIndex)
        /\ Newest(heap[b], 1) \in reader[r].answers
    BY <1>2, <1>5 DEF RepositoryInv, LatestLinearizable, Answer, Call
  <2>2. /\ reader'[r].key = k /\ reader'[r].buffer = b
        /\ reader'[r].answers = reader[r].answers \cup {LatestIn(heap', processIndex', k)}
    <3> DEFINE now1 == LatestIn(heap', processIndex', k)
    <3>1. reader'[r] = [key |-> k, buffer |-> b, answers |-> reader[r].answers \cup {now1}]
      BY <1>2, <1>5
    <3> QED
      BY <3>1
  <2>3. CASE b \notin Range(processIndex)
    BY <2>1, <2>2, <2>3
  <2>4. CASE processIndex[k] = b /\ processIndex'[k] = b
    <3>1. LatestIn(heap', processIndex', k) = found
      BY <2>1, <2>4 DEF LatestIn
    <3> QED
      BY <2>1, <2>2, <2>4, <3>1
  <2>5. CASE processIndex[k] = b /\ processIndex'[k] # b
    <3>1. LatestIn(heap, processIndex, k) = Newest(heap[b], 1)
      BY <2>1, <2>5 DEF LatestIn
    <3>2. b \notin Range(processIndex') /\ found \in {Newest(heap[b], 1), LatestIn(heap', processIndex', k)}
      BY <2>1, <2>5, <3>1 DEF Indexed
    <3> QED
      BY <2>1, <2>2, <3>2
  <2> QED
    BY <2>1, <2>3, <2>4, <2>5
<1>6. LatestLinearizable'
  BY <1>5 DEF LatestLinearizable, Answer
<1> QED
  BY <1>4, <1>5, <1>6

LEMMA InitRepository == Init => RepositoryInv
<1> SUFFICES ASSUME Init PROVE RepositoryInv
  OBVIOUS
<1>1. TypeOK
  BY RepositoryAssumption DEF Init, TypeOK
<1>2. IndexIsTidy /\ LatestLinearizable
  BY DEF Init, IndexIsTidy, Indexed, LatestLinearizable
<1> QED
  BY <1>1, <1>2 DEF Init, RepositoryInv

\* Steps that leave the index buffers and the calls alone.
LEMMA OtherSteps ==
  ASSUME RepositoryInv, TypeOK', UNCHANGED <<heap, processIndex, reader>>
  PROVE  RepositoryInv'
BY DEF RepositoryInv, IndexIsTidy, Indexed, LatestLinearizable, Answer

\* The main buffers, which are logs of samples within the capacity, stay so.
LEMMA MainBuffers ==
  ASSUME RepositoryInv
  PROVE  /\ \A s \in Savers : saver[s] # None =>
              LET pushed(log) == Pushed(log, Capacity, saver[s])
              IN  /\ pushed(systemMetrics) \in Seq(Sample) /\ Len(pushed(systemMetrics)) <= Capacity
                  /\ pushed(processMetrics) \in Seq(Sample) /\ Len(pushed(processMetrics)) <= Capacity
         /\ \A before :
              /\ Evicted(systemMetrics, before) \in Seq(Sample)
              /\ Len(Evicted(systemMetrics, before)) <= Capacity
              /\ Evicted(processMetrics, before) \in Seq(Sample)
              /\ Len(Evicted(processMetrics, before)) <= Capacity
<1>1. /\ systemMetrics \in Seq(Sample) /\ Len(systemMetrics) <= Capacity
      /\ processMetrics \in Seq(Sample) /\ Len(processMetrics) <= Capacity
      /\ Capacity \in Nat \ {0}
  BY RepositoryAssumption DEF RepositoryInv, TypeOK
<1>2. \A s \in Savers : saver[s] # None => saver[s] \in Sample
  BY DEF RepositoryInv, TypeOK
<1>3. ASSUME NEW before
      PROVE  /\ Evicted(systemMetrics, before) \in Seq(Sample)
             /\ Len(Evicted(systemMetrics, before)) <= Capacity
             /\ Evicted(processMetrics, before) \in Seq(Sample)
             /\ Len(Evicted(processMetrics, before)) <= Capacity
  <2>1. /\ Evicted(systemMetrics, before) \in Seq(Sample)
        /\ Len(Evicted(systemMetrics, before)) <= Len(systemMetrics)
    BY <1>1, EvictedLog
  <2>2. /\ Evicted(processMetrics, before) \in Seq(Sample)
        /\ Len(Evicted(processMetrics, before)) <= Len(processMetrics)
    BY <1>1, EvictedLog
  <2> QED
    BY <1>1, <2>1, <2>2
<1> QED
  BY <1>1, <1>2, <1>3, PushedLog

\* A save: at most one index buffer changes or is added, that of its key.
LEMMA SaveStep ==
  ASSUME RepositoryInv, NEW s \in Savers, SaveProcessMetrics(s)
  PROVE  RepositoryInv'
<1> DEFINE e == saver[s]
           k == saver[s].key
<1>1. /\ e \in Sample /\ k \in Keys /\ e.key = k /\ e \in Of(k)
      /\ heap \in Seq(Seq(Sample))
      /\ processIndex \in [Keys -> {None} \cup DOMAIN heap]
  BY DEF SaveProcessMetrics, RepositoryInv, TypeOK, Of
<1>2. /\ Index(e) /\ Witnessed /\ saver' = [saver EXCEPT ![s] = None]
      /\ processMetrics' = Pushed(processMetrics, Capacity, e)
      /\ UNCHANGED <<now, systemMetrics, collected>>
  BY DEF SaveProcessMetrics
<1>3. CASE Indexed(k)
  <2> DEFINE b == processIndex[k]
             log == Pushed(heap[b], IndexCapacity, e)
  <2>1. heap' = [heap EXCEPT ![b] = log] /\ processIndex' = processIndex
    BY <1>1, <1>2, <1>3 DEF Index
  <2>2. b \in DOMAIN heap /\ heap[b] \in Seq(Of(k)) /\ heap[b] \in Seq(Sample)
    <3>1. b \in DOMAIN heap /\ heap[b] \in Seq(Sample)
      BY <1>1, <1>3 DEF Indexed
    <3>2. \A i \in DOMAIN heap[b] : heap[b][i].key = k
      BY <1>1, <1>3 DEF RepositoryInv, IndexIsTidy
    <3> QED
      BY <3>1, <3>2, TidyIsOf
  <2>3. log \in Seq(Of(k)) \ {<< >>} /\ log \in Seq(Sample) /\ Len(log) <= IndexCapacity
    BY <1>1, <2>2, PushedLog, RepositoryAssumption DEF RepositoryInv, TypeOK
  <2> HIDE DEF log, b
  <2>4. /\ heap' \in Seq(Seq(Sample)) /\ DOMAIN heap' = DOMAIN heap
        /\ heap'[b] = log /\ \A c \in DOMAIN heap \ {b} : heap'[c] = heap[c]
    BY <1>1, <2>1, <2>2, <2>3
  <2>5. \A l \in Keys : processIndex[l] = b => l = k
    BY <1>1, <1>3, OwnBuffers DEF b
  <2>6. IndexIsTidy'
    <3>1. ASSUME NEW l \in Keys, processIndex[l] # None, l # k
          PROVE  processIndex[l] \in DOMAIN heap \ {b}
      BY <1>1, <2>5, <3>1
    <3>2. (\A i \in DOMAIN log : log[i].key = k) /\ log # << >>
      BY <2>3, TidyIsOf
    <3> QED
      BY <2>1, <2>4, <3>1, <3>2 DEF b, RepositoryInv, IndexIsTidy, Indexed
  <2>7. /\ reader' \in [Readers -> {None} \cup Call]
        /\ LatestLinearizable'
        /\ \A r \in Readers : reader'[r] # None =>
             /\ reader'[r].buffer \in DOMAIN heap' /\ reader'[r].buffer # None
             /\ processIndex'[reader'[r].key] = reader'[r].buffer
                  \/ reader'[r].buffer \notin Range(processIndex')
    <3>1. b \in Range(processIndex)
      BY <1>1 DEF b, Range
    <3> QED
      BY <1>1, <1>2, <2>1, <2>4, <3>1, CallsGoOn
  <2>8. TypeOK'
    <3>1. \A c \in DOMAIN heap' : Len(heap'[c]) <= IndexCapacity
      BY <2>3, <2>4 DEF RepositoryInv, TypeOK
    <3>2. processMetrics' \in Seq(Sample) /\ Len(processMetrics') <= Capacity
      BY <1>1, <1>2, MainBuffers DEF SaveProcessMetrics
    <3> QED
      BY <1>1, <1>2, <2>1, <2>4, <2>7, <3>1, <3>2 DEF RepositoryInv, TypeOK
  <2> QED
    BY <2>6, <2>7, <2>8 DEF RepositoryInv
<1>4. CASE ~Indexed(k)
  <2> DEFINE b == Len(heap) + 1
  <2>1. heap' = Append(heap, <<e>>) /\ processIndex' = [processIndex EXCEPT ![k] = b]
    BY <1>1, <1>2, <1>4 DEF Index, FreshBuffer
  <2>2. /\ heap' \in Seq(Seq(Sample)) /\ DOMAIN heap' = DOMAIN heap \cup {b}
        /\ b \notin DOMAIN heap
        /\ heap'[b] = <<e>> /\ \A c \in DOMAIN heap : heap'[c] = heap[c]
    BY <1>1, <2>1
  <2> HIDE DEF b
  <2>3. /\ processIndex' \in [Keys -> {None} \cup DOMAIN heap']
        /\ processIndex'[k] = b /\ \A l \in Keys \ {k} : processIndex'[l] = processIndex[l]
    BY <1>1, <2>1, <2>2
  <2>4. IndexIsTidy'
    <3>1. ASSUME NEW l \in Keys \ {k}, processIndex[l] # None
          PROVE  /\ heap'[processIndex'[l]] = heap[processIndex[l]]
                 /\ heap[processIndex[l]] # << >>
                 /\ \A i \in DOMAIN heap[processIndex[l]] : heap[processIndex[l]][i].key = l
      BY <1>1, <2>2, <2>3, <3>1 DEF RepositoryInv, IndexIsTidy, Indexed
    <3>2. <<e>> # << >> /\ \A i \in DOMAIN <<e>> : <<e>>[i].key = k
      BY <1>1
    <3>3. ASSUME NEW l \in Keys, processIndex'[l] # None
          PROVE  /\ heap'[processIndex'[l]] # << >>
                 /\ \A i \in DOMAIN heap'[processIndex'[l]] :
                      heap'[processIndex'[l]][i].key = l
      <4>1. CASE l = k
        BY <2>2, <2>3, <3>2, <4>1
      <4>2. CASE l # k
        BY <2>3, <3>1, <3>3, <4>2
      <4> QED
        BY <4>1, <4>2
    <3> QED
      BY <3>3 DEF IndexIsTidy, Indexed
  <2>5. /\ reader' \in [Readers -> {None} \cup Call]
        /\ LatestLinearizable'
        /\ \A r \in Readers : reader'[r] # None =>
             /\ reader'[r].buffer \in DOMAIN heap' /\ reader'[r].buffer # None
             /\ processIndex'[reader'[r].key] = reader'[r].buffer
                  \/ reader'[r].buffer \notin Range(processIndex')
    <3>1. \A c \in DOMAIN heap \ Range(processIndex) : c \notin Range(processIndex')
      BY <1>1, <2>2, <2>3 DEF Range
    <3>2. \A l \in Keys : Indexed(l) =>
            \/ processIndex'[l] = processIndex[l]
            \/ /\ processIndex[l] \notin Range(processIndex')
               /\ Newest(heap'[processIndex[l]], 1) \in
                    {LatestIn(heap, processIndex, l), LatestIn(heap', processIndex', l)}
      BY <1>4, <2>3 DEF Indexed
    <3>3. DOMAIN heap \subseteq DOMAIN heap'
      BY <2>2
    <3>4. \A c \in DOMAIN heap \ Range(processIndex) : c # None =>
            heap'[c] = heap[c] /\ c \notin Range(processIndex')
      BY <2>2, <3>1
    <3>5. /\ heap' \in Seq(Seq(Sample)) /\ Witnessed
          /\ processIndex' \in [Keys -> {None} \cup DOMAIN heap']
      BY <1>2, <2>2, <2>3
    <3> QED
      BY <3>2, <3>3, <3>4, <3>5, CallsGoOn
  <2>6. TypeOK'
    <3>1. \A c \in DOMAIN heap' : Len(heap'[c]) <= IndexCapacity
      <4>1. Len(<<e>>) = 1 /\ 1 <= IndexCapacity
        BY RepositoryAssumption
      <4>2. \A c \in DOMAIN heap : Len(heap'[c]) <= IndexCapacity
        BY <2>2 DEF RepositoryInv, TypeOK
      <4> QED
        BY <2>2, <4>1, <4>2
    <3>2. processMetrics' \in Seq(Sample) /\ Len(processMetrics') <= Capacity
      BY <1>1, <1>2, MainBuffers DEF SaveProcessMetrics
    <3> QED
      BY <1>1, <1>2, <2>2, <2>3, <2>5, <3>1, <3>2 DEF RepositoryInv, TypeOK
  <2> QED
    BY <2>4, <2>5, <2>6 DEF RepositoryInv
<1> QED
  BY <1>3, <1>4

\* A deletion evicts every index buffer and drops the empty ones.
LEMMA DeleteStep ==
  ASSUME RepositoryInv, NEW before, DeleteOldMetrics(before)
  PROVE  RepositoryInv'
<1>1. /\ heap \in Seq(Seq(Sample))
      /\ processIndex \in [Keys -> {None} \cup DOMAIN heap]
      /\ \A c \in DOMAIN heap : Len(heap[c]) <= IndexCapacity /\ heap[c] \in Seq(Sample)
      /\ IndexCapacity \in Nat
  BY RepositoryAssumption DEF RepositoryInv, TypeOK
<1>2. /\ heap' = [b \in DOMAIN heap |-> IF b \in Range(processIndex)
                                        THEN Evicted(heap[b], before) ELSE heap[b]]
      /\ processIndex' = [k \in Keys |->
           IF Indexed(k) /\ heap'[processIndex[k]] # << >> THEN processIndex[k] ELSE None]
      /\ Witnessed
  BY DEF DeleteOldMetrics
<1>3. /\ DOMAIN heap' = DOMAIN heap
      /\ \A c \in DOMAIN heap : heap'[c] \in Seq(Sample) /\ Len(heap'[c]) <= IndexCapacity
      /\ \A c \in DOMAIN heap \ Range(processIndex) : heap'[c] = heap[c]
      /\ \A c \in DOMAIN heap \cap Range(processIndex) : heap'[c] = Evicted(heap[c], before)
  <2>1. ASSUME NEW c \in DOMAIN heap
        PROVE  /\ Evicted(heap[c], before) \in Seq(Sample)
               /\ Len(Evicted(heap[c], before)) <= IndexCapacity
    <3>1. /\ Evicted(heap[c], before) \in Seq(Sample)
          /\ Len(Evicted(heap[c], before)) <= Len(heap[c])
      BY <1>1, EvictedLog
    <3> QED
      BY <1>1, <3>1
  <2> QED
    BY <1>1, <1>2, <2>1
<1>4. heap' \in Seq(Seq(Sample))
  <2>1. DOMAIN heap = 1..Len(heap) /\ Len(heap) \in Nat
    BY <1>1
  <2>2. heap' = [c \in 1..Len(heap) |-> heap'[c]]
    BY <1>2, <2>1
  <2> QED
    BY <1>3, <2>1, <2>2
<1>5. /\ processIndex' \in [Keys -> {None} \cup DOMAIN heap']
      /\ \A k \in Keys : processIndex'[k] # None =>
           processIndex'[k] = processIndex[k] /\ Indexed(k) /\ heap'[processIndex[k]] # << >>
      /\ \A k \in Keys : Indexed(k) /\ processIndex'[k] # processIndex[k] =>
           processIndex'[k] = None /\ heap'[processIndex[k]] = << >>
  BY <1>1, <1>2, <1>3
<1>6. IndexIsTidy'
  <2>1. ASSUME NEW k \in Keys, processIndex'[k] # None
        PROVE  /\ heap'[processIndex'[k]] # << >>
               /\ \A i \in DOMAIN heap'[processIndex'[k]] : heap'[processIndex'[k]][i].key = k
    <3> DEFINE b == processIndex[k]
    <3>1. /\ b \in DOMAIN heap /\ b \in Range(processIndex) /\ Indexed(k)
          /\ processIndex'[k] = b /\ heap'[b] # << >>
      BY <1>1, <1>5, <2>1 DEF Indexed, Range
    <3>2. \A i \in DOMAIN heap[b] : heap[b][i].key = k
      BY <3>1 DEF RepositoryInv, IndexIsTidy
    <3>3. heap[b] \in Seq(Sample) /\ heap'[b] = Evicted(heap[b], before)
      BY <1>1, <1>3, <3>1
    <3> HIDE DEF b
    <3>4. heap[b] \in Seq(Of(k))
      BY <3>2, <3>3, TidyIsOf
    <3>5. Evicted(heap[b], before) \in Seq(Of(k)) /\ Evicted(heap[b], before) \in Seq(Sample)
      BY <3>3, <3>4, EvictedLog
    <3>6. \A i \in DOMAIN heap'[b] : heap'[b][i].key = k
      BY <3>3, <3>5, TidyIsOf
    <3> QED
      BY <3>1, <3>6
  <2> QED
    BY <2>1 DEF IndexIsTidy, Indexed
<1>7. /\ reader' \in [Readers -> {None} \cup Call]
      /\ LatestLinearizable'
      /\ \A r \in Readers : reader'[r] # None =>
           /\ reader'[r].buffer \in DOMAIN heap' /\ reader'[r].buffer # None
           /\ processIndex'[reader'[r].key] = reader'[r].buffer
                \/ reader'[r].buffer \notin Range(processIndex')
  <2>1. ASSUME NEW c \in DOMAIN heap \ Range(processIndex), c # None
        PROVE  c \notin Range(processIndex')
    BY <1>1, <1>5, <2>1 DEF Range
  <2>2. ASSUME NEW k \in Keys, Indexed(k), processIndex'[k] # processIndex[k]
        PROVE  /\ processIndex[k] \notin Range(processIndex')
               /\ Newest(heap'[processIndex[k]], 1) = LatestIn(heap', processIndex', k)
    <3>1. processIndex'[k] = None /\ heap'[processIndex[k]] = << >>
      BY <1>5, <2>2
    <3>2. LatestIn(heap', processIndex', k) = << >>
      BY <3>1 DEF LatestIn
    <3>3. ASSUME NEW l \in Keys, processIndex'[l] = processIndex[k]
          PROVE  FALSE
      <4>1. processIndex[l] = processIndex[k] /\ heap'[processIndex[l]] # << >>
        BY <1>5, <2>2, <3>3 DEF Indexed
      <4> QED
        BY <3>1, <4>1
    <3>4. processIndex[k] \notin Range(processIndex')
      BY <1>5, <3>3 DEF Range
    <3> QED
      BY <3>1, <3>2, <3>4, NewestOfNothing
  <2> QED
    <3>1. \A c \in DOMAIN heap \ Range(processIndex) : c # None =>
            heap'[c] = heap[c] /\ c \notin Range(processIndex')
      BY <1>3, <2>1
    <3>2. \A k \in Keys : Indexed(k) =>
            \/ processIndex'[k] = processIndex[k]
            \/ /\ processIndex[k] \notin Range(processIndex')
               /\ Newest(heap'[processIndex[k]], 1) \in
                    {LatestIn(heap, processIndex, k), LatestIn(heap', processIndex', k)}
      BY <2>2
    <3>3. /\ Witnessed /\ heap' \in Seq(Seq(Sample)) /\ DOMAIN heap \subseteq DOMAIN heap'
          /\ processIndex' \in [Keys -> {None} \cup DOMAIN heap']
      BY <1>2, <1>3, <1>4, <1>5
    <3> QED
      BY <3>1, <3>2, <3>3, CallsGoOn
<1>8. TypeOK'
  <2>1. UNCHANGED <<now, saver, collected>>
    BY DEF DeleteOldMetrics
  <2>2. /\ systemMetrics' \in Seq(Sample) /\ Len(systemMetrics') <= Capacity
        /\ processMetrics' \in Seq(Sample) /\ Len(processMetrics') <= Capacity
    BY MainBuffers DEF DeleteOldMetrics
  <2> QED
    BY <1>3, <1>4, <1>5, <1>7, <2>1, <2>2 DEF RepositoryInv, TypeOK
<1> QED
  BY <1>6, <1>7, <1>8 DEF RepositoryInv

\* Close forgets the index buffers as they are.
LEMMA CloseStep ==
  ASSUME RepositoryInv, Close
  PROVE  RepositoryInv'
<1>1. /\ heap' = heap /\ processIndex' = [k \in Keys |-> None] /\ Witnessed
      /\ systemMetrics' = << >> /\ processMetrics' = << >>
      /\ UNCHANGED <<now, saver, collected>>
  BY DEF Close
<1>2. /\ heap' \in Seq(Seq(Sample)) /\ DOMAIN heap \subseteq DOMAIN heap'
      /\ processIndex' \in [Keys -> {None} \cup DOMAIN heap']
  BY <1>1 DEF RepositoryInv, TypeOK
<1>3. \A b : b # None => b \notin Range(processIndex')
  BY <1>1 DEF Range
<1>4. \A b \in DOMAIN heap \ Range(processIndex) : b # None =>
        heap'[b] = heap[b] /\ b \notin Range(processIndex')
  BY <1>1, <1>3
<1>5. \A k \in Keys : Indexed(k) =>
        \/ processIndex'[k] = processIndex[k]
        \/ /\ processIndex[k] \notin Range(processIndex')
           /\ Newest(heap'[processIndex[k]], 1) \in
                {LatestIn(heap, processIndex, k), LatestIn(heap', processIndex', k)}
  BY <1>1, <1>3 DEF Indexed, LatestIn
<1>6. /\ reader' \in [Readers -> {None} \cup Call]
      /\ LatestLinearizable'
      /\ \A r \in Readers : reader'[r] # None =>
           /\ reader'[r].buffer \in DOMAIN heap' /\ reader'[r].buffer # None
           /\ processIndex'[reader'[r].key] = reader'[r].buffer
                \/ reader'[r].buffer \notin Range(processIndex')
  BY <1>1, <1>2, <1>4, <1>5, CallsGoOn
<1>7. IndexIsTidy'
  BY <1>1 DEF IndexIsTidy, Indexed
<1>8. TypeOK'
  BY <1>1, <1>2, <1>6, RepositoryAssumption DEF RepositoryInv, TypeOK
<1> QED
  BY <1>6, <1>7, <1>8 DEF RepositoryInv

\* A call begins with the buffer the index has, and what is in it.
LEMMA LookupStep ==
  ASSUME RepositoryInv, NEW r \in Readers, NEW k \in Keys, LookupLatest(r, k)
  PROVE  RepositoryInv'
<1> DEFINE b == processIndex[k]
           call == [key |-> k, buffer |-> b, answers |-> {LatestIn(heap, processIndex, k)}]
<1>1. /\ reader' = [reader EXCEPT ![r] = call] /\ b # None
      /\ UNCHANGED <<now, systemMetrics, processMetrics, heap, processIndex, saver, collected>>
  BY DEF LookupLatest, buffers, Indexed
<1>2. b \in DOMAIN heap /\ b \in Nat /\ heap[b] \in Seq(Sample)
  BY <1>1 DEF RepositoryInv, TypeOK
<1>3. LatestIn(heap, processIndex, k) = Newest(heap[b], 1)
  BY <1>1 DEF LatestIn
<1>4. call \in Call
  BY <1>2, <1>3, NewestLog DEF Call
<1>5. /\ reader'[r] = call /\ \A q \in Readers \ {r} : reader'[q] = reader[q]
      /\ reader' \in [Readers -> {None} \cup Call]
  BY <1>1, <1>4 DEF RepositoryInv, TypeOK
<1>6. call.key = k /\ call.buffer = b /\ call.answers = {LatestIn(heap, processIndex, k)}
  OBVIOUS
<1> HIDE DEF call
<1>7. LatestLinearizable'
  <2>1. ASSUME NEW q \in Readers, reader'[q] # None
        PROVE  Newest(heap[reader'[q].buffer], 1) \in reader'[q].answers
    <3>1. CASE q = r
      BY <1>3, <1>5, <1>6, <3>1
    <3>2. CASE q # r
      BY <1>5, <2>1, <3>2 DEF RepositoryInv, LatestLinearizable, Answer
    <3> QED
      BY <3>1, <3>2
  <2> QED
    BY <1>1, <2>1 DEF LatestLinearizable, Answer
<1>8. ASSUME NEW q \in Readers, reader'[q] # None
      PROVE  /\ reader'[q].buffer \in DOMAIN heap /\ reader'[q].buffer # None
             /\ processIndex[reader'[q].key] = reader'[q].buffer
                  \/ reader'[q].buffer \notin Range(processIndex)
  <2>1. CASE q = r
    BY <1>1, <1>2, <1>5, <1>6, <2>1
  <2>2. CASE q # r
    BY <1>5, <1>8, <2>2 DEF RepositoryInv
  <2> QED
    BY <2>1, <2>2
<1>9. TypeOK' /\ IndexIsTidy'
  BY <1>1, <1>5 DEF RepositoryInv, TypeOK, IndexIsTidy, Indexed
<1> QED
  BY <1>1, <1>7, <1>8, <1>9 DEF RepositoryInv

\* A call ends.
LEMMA ReadStep ==
  ASSUME RepositoryInv, NEW r \in Readers, ReadLatest(r)
  PROVE  RepositoryInv'
<1>1. /\ UNCHANGED <<now, systemMetrics, processMetrics, heap, processIndex, saver, collected>>
      /\ reader' = [reader EXCEPT ![r] = None]
  BY DEF ReadLatest, buffers
<1>2. /\ \A q \in Readers : reader'[q] # None => reader'[q] = reader[q]
      /\ reader' \in [Readers -> {None} \cup Call]
  BY <1>1 DEF RepositoryInv, TypeOK
<1>3. TypeOK' /\ IndexIsTidy'
  BY <1>1, <1>2 DEF RepositoryInv, TypeOK, IndexIsTidy, Indexed
<1>4. LatestLinearizable'
  BY <1>1, <1>2 DEF RepositoryInv, LatestLinearizable, Answer
<1> QED
  BY <1>1, <1>2, <1>3, <1>4 DEF RepositoryInv

LEMMA RepositoryStep == RepositoryInv /\ [Next]_vars => RepositoryInv'
<1> SUFFICES ASSUME RepositoryInv, [Next]_vars PROVE RepositoryInv'
  OBVIOUS
<1>1. CASE Tick
  <2>1. now' \in 0..MaxTime
    BY <1>1, RepositoryAssumption DEF Tick, RepositoryInv, TypeOK
  <2> QED
    BY <1>1, <2>1, OtherSteps DEF Tick, buffers, RepositoryInv, TypeOK
<1>2. ASSUME NEW s \in Savers, NEW k \in Keys \cup {System}, Collect(s, k)
      PROVE  RepositoryInv'
  <2>1. [time |-> now, key |-> k] \in Sample /\ collected' \in 0..MaxSaves
    BY <1>2, RepositoryAssumption DEF Collect, RepositoryInv, TypeOK, Sample
  <2>2. saver' \in [Savers -> {None} \cup Sample]
    BY <1>2, <2>1 DEF Collect, RepositoryInv, TypeOK
  <2> QED
    BY <1>2, <2>1, <2>2, OtherSteps DEF Collect, buffers, RepositoryInv, TypeOK
<1>3. ASSUME NEW s \in Savers, SaveSystemMetrics(s)
      PROVE  RepositoryInv'
  <2>1. systemMetrics' \in Seq(Sample) /\ Len(systemMetrics') <= Capacity
    BY <1>3, MainBuffers DEF SaveSystemMetrics
  <2>2. saver' \in [Savers -> {None} \cup Sample]
    BY <1>3 DEF SaveSystemMetrics, RepositoryInv, TypeOK
  <2> QED
    BY <1>3, <2>1, <2>2, OtherSteps DEF SaveSystemMetrics, RepositoryInv, TypeOK
<1>4. ASSUME NEW s \in Savers, SaveProcessMetrics(s)
      PROVE  RepositoryInv'
  BY <1>4, SaveStep
<1>5. ASSUME NEW before \in 1..now, DeleteOldMetrics(before)
      PROVE  RepositoryInv'
  BY <1>5, DeleteStep
<1>6. CASE Close
  BY <1>6, CloseStep
<1>7. ASSUME NEW r \in Readers, ReadLatest(r)
      PROVE  RepositoryInv'
  BY <1>7, ReadStep
<1>8. ASSUME NEW r \in Readers, NEW k \in Keys, LookupLatest(r, k)
      PROVE  RepositoryInv'
  BY <1>8, LookupStep
<1>9. CASE UNCHANGED vars
  <2>1. TypeOK'
    BY <1>9 DEF vars, buffers, RepositoryInv, TypeOK
  <2> QED
    BY <1>9, <2>1, OtherSteps DEF vars, buffers
<1> QED
  BY <1>1, <1>2, <1>3, <1>4, <1>5, <1>6, <1>7, <1>8, <1>9 DEF Next

\* RepositoryInv holds in every behaviour of the repository.
THEOREM RepositoryInvariance == Spec => []RepositoryInv
BY InitRepository, RepositoryStep, PTL DEF Spec

\* The buffers stay within their capacities, and everything has its type.
THEOREM RepositoryTypes == Spec => []TypeOK
<1>1. RepositoryInv => TypeOK
  BY DEF RepositoryInv
<1> QED
  BY <1>1, RepositoryInvariance, PTL

\* Whatever is saved and deleted, the index has a buffer for a key only while
\* there are samples in it, and never samples of another key.
THEOREM AlwaysTidy == Spec => []IndexIsTidy
<1>1. RepositoryInv => IndexIsTidy
  BY DEF RepositoryInv
<1> QED
  BY <1>1, RepositoryInvariance, PTL

\* The unlocked read of GetLatestProcessMetrics is linearizable.
THEOREM AlwaysLinearizable == Spec => []LatestLinearizable
<1>1. RepositoryInv => LatestLinearizable
  BY DEF RepositoryInv
<1> QED
  BY <1>1, RepositoryInvariance, PTL
-----------------------------------------------------------------------------
(***************************************************************************)
(* Two logs that tell one history: counted from their ends, they agree as  *)
(* far as both go.                                                         *)
(***************************************************************************)
Alike(a, b) ==
  \A i \in Nat : i < Len(a) /\ i < Len(b) => a[Len(a) - i] = b[Len(b) - i]

\* t is what is left of s when some of its oldest are gone.
Ends(t, s) ==
  /\ Len(t) <= Len(s)
  /\ \A i \in Nat : i < Len(t) => t[Len(t) - i] = s[Len(s) - i]

LEMMA AlikeNewest ==
  ASSUME NEW S, NEW a \in Seq(S), NEW b \in Seq(S), Alike(a, b)
  PROVE  Newest(a, Len(b)) = Newest(b, Len(a))
<1> DEFINE m == IF Len(b) < Len(a) THEN Len(b) ELSE Len(a)
<1>1. /\ Len(a) \in Nat /\ Len(b) \in Nat /\ m \in Nat /\ m <= Len(a) /\ m <= Len(b)
      /\ (IF Len(a) < Len(b) THEN Len(a) ELSE Len(b)) = m
  OBVIOUS
<1>2. /\ Newest(a, Len(b)) = [i \in 1..m |-> a[Len(a) - m + i]]
      /\ Newest(b, Len(a)) = [i \in 1..m |-> b[Len(b) - m + i]]
  BY <1>1 DEF Newest
<1> HIDE DEF m
<1>3. ASSUME NEW i \in 1..m
      PROVE  a[Len(a) - m + i] = b[Len(b) - m + i]
  <2> DEFINE d == m - i
  <2>1. /\ d \in Nat /\ d < Len(a) /\ d < Len(b)
        /\ Len(a) - m + i = Len(a) - d /\ Len(b) - m + i = Len(b) - d
    BY <1>1
  <2>2. a[Len(a) - d] = b[Len(b) - d]
    BY <2>1 DEF Alike
  <2> QED
    BY <2>1, <2>2
<1> QED
  BY <1>2, <1>3

LEMMA AlikeShorter ==
  ASSUME NEW S, NEW a \in Seq(S), NEW b \in Seq(S), NEW c \in Seq(S), NEW d \in Seq(S),
         Alike(a, b), Ends(c, a), Ends(d, b)
  PROVE  Alike(c, d)
<1> SUFFICES ASSUME NEW i \in Nat, i < Len(c), i < Len(d) PROVE c[Len(c) - i] = d[Len(d) - i]
  BY DEF Alike
<1>1. i < Len(a) /\ i < Len(b)
  <2>1. Len(a) \in Nat /\ Len(b) \in Nat /\ Len(c) \in Nat /\ Len(d) \in Nat
    OBVIOUS
  <2>2. Len(c) <= Len(a) /\ Len(d) <= Len(b)
    BY DEF Ends
  <2> QED
    BY <2>1, <2>2
<1>2. a[Len(a) - i] = b[Len(b) - i]
  BY <1>1 DEF Alike
<1> QED
  BY <1>2 DEF Ends

LEMMA AlikeLonger ==
  ASSUME NEW S, NEW a \in Seq(S), NEW b \in Seq(S), NEW e \in S, Alike(a, b)
  PROVE  Alike(Append(a, e), Append(b, e))
<1> DEFINE c == Append(a, e)
           d == Append(b, e)
<1>1. /\ Len(a) \in Nat /\ Len(c) = Len(a) + 1 /\ c[Len(a) + 1] = e
      /\ \A i \in 1..Len(a) : c[i] = a[i]
  OBVIOUS
<1>2. /\ Len(b) \in Nat /\ Len(d) = Len(b) + 1 /\ d[Len(b) + 1] = e
      /\ \A i \in 1..Len(b) : d[i] = b[i]
  OBVIOUS
<1> HIDE DEF c, d
<1>3. ASSUME NEW i \in Nat, i < Len(c), i < Len(d) PROVE c[Len(c) - i] = d[Len(d) - i]
  <2>1. CASE i = 0
    BY <1>1, <1>2, <2>1
  <2>2. CASE i # 0
    <3> DEFINE j == i - 1
    <3>1. /\ j \in Nat /\ j < Len(a) /\ j < Len(b)
          /\ Len(c) - i = Len(a) - j /\ Len(d) - i = Len(b) - j
          /\ Len(a) - j \in 1..Len(a) /\ Len(b) - j \in 1..Len(b)
      BY <1>1, <1>2, <1>3, <2>2
    <3>2. a[Len(a) - j] = b[Len(b) - j]
      BY <3>1 DEF Alike
    <3> QED
      BY <1>1, <1>2, <3>1, <3>2
  <2> QED
    BY <2>1, <2>2
<1>4. Alike(c, d)
  BY <1>3 DEF Alike
<1> QED
  BY <1>4 DEF c, d

LEMMA EndsSelf ==
  ASSUME NEW S, NEW s \in Seq(S)
  PROVE  Ends(s, s)
BY DEF Ends

\* The operations of a log keep an end of it.
LEMMA RestEnds ==
  ASSUME NEW S, NEW s \in Seq(S), NEW t \in Seq(S), NEW k \in 0..Len(s), Len(t) = Len(s) - k,
         \A i \in 1..Len(t) : t[i] = s[k + i]
  PROVE  Ends(t, s)
<1>1. Len(s) \in Nat /\ Len(t) \in Nat /\ Len(t) <= Len(s)
  OBVIOUS
<1>2. ASSUME NEW i \in Nat, i < Len(t) PROVE t[Len(t) - i] = s[Len(s) - i]
  <2> DEFINE j == Len(t) - i
  <2>1. j \in 1..Len(t) /\ k + j = Len(s) - i
    BY <1>1, <1>2
  <2>2. t[j] = s[k + j]
    BY <2>1
  <2> QED
    BY <2>1, <2>2
<1> QED
  BY <1>1, <1>2 DEF Ends

GrownBy(u, t, e) == u = Append(t, e)

LEMMA PushedEnd ==
  ASSUME NEW S, NEW s \in Seq(S), NEW e \in S, NEW bound \in Nat \ {0}
  PROVE  \E t \in Seq(S) : Ends(t, s) /\ GrownBy(Pushed(s, bound, e), t, e)
<1>1. CASE Len(s) < bound
  <2>1. Pushed(s, bound, e) = Append(s, e)
    BY <1>1 DEF Pushed
  <2> QED
    BY <2>1, EndsSelf DEF GrownBy
<1>2. CASE ~(Len(s) < bound)
  <2> DEFINE t == Tail(s)
  <2>1. Pushed(s, bound, e) = Append(t, e)
    BY <1>2 DEF Pushed
  <2>2. s # << >> /\ 1 \in 0..Len(s)
    BY <1>2
  <2>3. t \in Seq(S) /\ Len(t) = Len(s) - 1 /\ \A i \in 1..Len(t) : t[i] = s[1 + i]
    BY <2>2
  <2> HIDE DEF t
  <2>4. Ends(t, s)
    BY <2>2, <2>3, RestEnds
  <2> QED
    BY <2>1, <2>3, <2>4 DEF GrownBy
<1> QED
  BY <1>1, <1>2

\* An eviction stops at the first entry that is not older than the cutoff.
LEMMA EvictedFrom ==
  ASSUME NEW S, NEW log \in Seq(S), NEW cutoff
  PROVE  \E m \in 0..Len(log) :
           /\ Len(Evicted(log, cutoff)) = Len(log) - m
           /\ \A i \in 1..Len(log) - m : Evicted(log, cutoff)[i] = log[m + i]
           /\ \A i \in 1..m : log[i].time < cutoff
           /\ m < Len(log) => ~(log[m + 1].time < cutoff)
<1> DEFINE old == {i \in 1..Len(log) : \A j \in 1..i : log[j].time < cutoff}
           young == {i \in 1..Len(log) : ~(log[i].time < cutoff)}
<1>1. PICK m \in 0..Len(log) : old = 1..m /\ (m < Len(log) => ~(log[m + 1].time < cutoff))
  <2>1. CASE young = {}
    <3>1. old = 1..Len(log) /\ Len(log) \in 0..Len(log)
      BY <2>1
    <3> QED
      BY <3>1
  <2>2. CASE young # {}
    <3>1. young \subseteq Nat
      OBVIOUS
    <3>2. PICK x \in young : \A y \in young : x <= y
      BY <2>2, <3>1, LeastNumber
    <3>3. x \in 1..Len(log) /\ ~(log[x].time < cutoff) /\ \A y \in 1..Len(log) : y < x => log[y].time < cutoff
      BY <3>2
    <3>4. old = 1..x - 1
      BY <3>3
    <3>5. x - 1 \in 0..Len(log) /\ (x - 1) + 1 = x
      BY <3>3
    <3> QED
      BY <3>3, <3>4, <3>5
  <2> QED
    BY <2>1, <2>2
<1>2. \A i \in 1..m : log[i].time < cutoff
  <2>1. \A i \in old : log[i].time < cutoff
    OBVIOUS
  <2> HIDE DEF old
  <2> QED
    BY <1>1, <2>1
<1>3. Cardinality(old) = m
  <2> HIDE DEF old
  <2>1. m \in Nat /\ Cardinality(1..m) = m
    <3>1. m \in Nat
      OBVIOUS
    <3> QED
      BY <3>1, FS_Interval
  <2> QED
    BY <1>1, <2>1
<1>4. Evicted(log, cutoff) = SubSeq(log, m + 1, Len(log))
  BY <1>3 DEF Evicted
<1> DEFINE q == SubSeq(log, m + 1, Len(log))
<1>5. Len(q) = Len(log) - m /\ \A i \in 1..Len(log) - m : q[i] = log[m + i]
  <2> DEFINE n == Len(log)
  <2>1. m \in Nat /\ n \in Nat /\ m <= n /\ \A i \in m + 1..n : log[i] \in S
    OBVIOUS
  <2>2. /\ Len(q) = IF m + 1 <= n THEN n - (m + 1) + 1 ELSE 0
        /\ \A i \in 1..n - (m + 1) + 1 : q[i] = log[(m + 1) + i - 1]
    BY <2>1, SubSeqProperties
  <2> HIDE DEF q, n
  <2>3. \A i \in 1..n - m : (m + 1) + i - 1 = m + i /\ i \in 1..n - (m + 1) + 1
    BY <2>1
  <2>4. Len(q) = n - m
    BY <2>1, <2>2
  <2>5. \A i \in 1..n - m : q[i] = log[m + i]
    BY <2>2, <2>3
  <2> QED
    BY <2>4, <2>5 DEF n
<1> HIDE DEF q
<1> QED
  BY <1>1, <1>2, <1>4, <1>5 DEF q

LEMMA EvictedEnds ==
  ASSUME NEW S, NEW log \in Seq(S), NEW cutoff
  PROVE  Evicted(log, cutoff) \in Seq(S) /\ Ends(Evicted(log, cutoff), log)
<1> DEFINE t == Evicted(log, cutoff)
<1>1. t \in Seq(S)
  BY EvictedLog
<1>2. PICK m \in 0..Len(log) :
        Len(t) = Len(log) - m /\ \A i \in 1..Len(log) - m : t[i] = log[m + i]
  BY EvictedFrom
<1> HIDE DEF t
<1>3. Ends(t, log)
  BY <1>1, <1>2, RestEnds
<1> QED
  BY <1>1, <1>3 DEF t
-----------------------------------------------------------------------------
(***************************************************************************)
(* The samples of one key in a log.                                        *)
(***************************************************************************)
OfKey(log, k) == Kept(log, {i \in 1..Len(log) : log[i].key = k})

LEMMA OfKeyType ==
  ASSUME NEW S, NEW log \in Seq(S), NEW k
  PROVE  OfKey(log, k) \in Seq(S)
BY KeptEnumerates DEF OfKey

\* Of an end of a log they are an end of those in the log.
LEMMA OfKeyEnds ==
  ASSUME NEW S, NEW s \in Seq(S), NEW t \in Seq(S), NEW k, Ends(t, s)
  PROVE  Ends(OfKey(t, k), OfKey(s, k))
<1> DEFINE d == Len(s) - Len(t)
           I == {i \in 1..Len(s) : s[i].key = k}
           J == {i \in 1..Len(t) : t[i].key = k}
           gone == Kept(SubSeq(s, 1, d), I)
           all == Kept(s, I)
           left == Kept(t, J)
<1>1. /\ Len(s) \in Nat /\ Len(t) \in Nat /\ Len(t) <= Len(s)
      /\ \A i \in Nat : i < Len(t) => t[Len(t) - i] = s[Len(s) - i]
  BY DEF Ends
<1>2. d \in 0..Len(s) /\ Len(s) - d = Len(t)
  BY <1>1
<1>3. ASSUME NEW i \in 1..Len(t) PROVE t[i] = s[d + i] /\ d + i \in 1..Len(s)
  <2> DEFINE j == Len(t) - i
  <2>1. j \in Nat /\ j < Len(t) /\ Len(t) - j = i /\ Len(s) - j = d + i
    BY <1>1
  <2>2. t[Len(t) - j] = s[Len(s) - j]
    BY <1>1, <2>1
  <2> QED
    BY <1>1, <2>1, <2>2
<1>4. Shifted(J, I, Len(t), d)
  BY <1>3 DEF Shifted
<1>5. t = [i \in 1..Len(s) - d |-> s[d + i]]
  <2>1. t = [i \in 1..Len(t) |-> t[i]]
    OBVIOUS
  <2> HIDE DEF d
  <2> QED
    BY <1>2, <1>3, <2>1
<1> HIDE DEF d, I, J
<1>6. Joined(all, gone, left)
  BY <1>2, <1>4, <1>5, KeptOfRest
<1>7. all \in Seq(S) /\ left \in Seq(S) /\ Len(gone) \in Nat
  <2>1. SubSeq(s, 1, d) \in Seq(S)
    BY <1>2
  <2>2. gone \in Seq(S)
    BY <2>1, KeptEnumerates
  <2>3. all \in Seq(S) /\ left \in Seq(S)
    BY KeptEnumerates
  <2> HIDE DEF gone
  <2> QED
    BY <2>2, <2>3
<1> HIDE DEF all, left, gone
<1>8. /\ Len(all) = Len(gone) + Len(left)
      /\ \A i \in 1..Len(left) : left[i] = all[Len(gone) + i]
  BY <1>6 DEF Joined
<1>9. Ends(left, all)
  <2>1. Len(gone) \in 0..Len(all) /\ Len(left) = Len(all) - Len(gone)
    BY <1>7, <1>8
  <2> QED
    BY <1>7, <1>8, <2>1, RestEnds
<1> QED
  BY <1>9 DEF OfKey, all, left, I, J

\* A sample of the key comes last, one of another key is not among them.
LEMMA OfKeyAppend ==
  ASSUME NEW S, NEW log \in Seq(S), NEW e \in S, NEW k
  PROVE  OfKey(Append(log, e), k) = IF e.key = k THEN Append(OfKey(log, k), e) ELSE OfKey(log, k)
<1> DEFINE n == Len(log)
           u == Append(log, e)
           I == {i \in 1..Len(u) : u[i].key = k}
           J == {i \in 1..n : log[i].key = k}
<1>1. /\ n \in Nat /\ u \in Seq(S) /\ Len(u) = n + 1 /\ u[n + 1] = e
      /\ \A i \in 1..n : u[i] = log[i]
  OBVIOUS
<1>2. \A i \in 1..n : u[i] = log[i] /\ (i \in I <=> i \in J)
  BY <1>1
<1>3. n + 1 \in I <=> e.key = k
  BY <1>1
<1> HIDE DEF u, I, J
<1>4. KeptUpTo(u, I)[n] = KeptUpTo(log, J)[n]
  <2>1. n <= Len(u) /\ n <= Len(log)
    BY <1>1
  <2> QED
    BY <1>1, <1>2, <2>1, KeptAgrees, SMTT(30)
<1>5. KeptUpTo(u, I)[n + 1] =
        IF n + 1 \in I THEN Append(KeptUpTo(u, I)[n], e) ELSE KeptUpTo(u, I)[n]
  <2>1. n + 1 \in 1..Len(u) /\ (n + 1) - 1 = n
    BY <1>1
  <2>2. KeptUpTo(u, I)[n + 1] =
          IF n + 1 \in I THEN Append(KeptUpTo(u, I)[(n + 1) - 1], u[n + 1]) ELSE KeptUpTo(u, I)[(n + 1) - 1]
    BY <1>1, <2>1, KeptRounds
  <2> QED
    BY <1>1, <2>1, <2>2, Zenon
<1>6. OfKey(u, k) = KeptUpTo(u, I)[n + 1] /\ OfKey(log, k) = KeptUpTo(log, J)[n]
  BY <1>1 DEF OfKey, Kept, I, J
<1>7. OfKey(u, k) = IF e.key = k THEN Append(OfKey(log, k), e) ELSE OfKey(log, k)
  BY <1>3, <1>4, <1>5, <1>6, Zenon
<1> QED
  BY <1>7 DEF u

-----------------------------------------------------------------------------
(***************************************************************************)
(* One history.                                                            *)
(***************************************************************************)
HistoryInv ==
  \A k \in Keys : Indexed(k) => Alike(OfKey(processMetrics, k), heap[processIndex[k]])

LEMMA HistoryIsOne ==
  ASSUME RepositoryInv, HistoryInv
  PROVE  OneHistory
<1> SUFFICES ASSUME NEW k \in Keys, Indexed(k)
             PROVE  Newest(Stored(k), Len(heap[processIndex[k]]))
                      = Newest(heap[processIndex[k]], Len(Stored(k)))
  BY DEF OneHistory
<1> DEFINE main == OfKey(processMetrics, k)
           index == heap[processIndex[k]]
<1>1. main \in Seq(Sample) /\ index \in Seq(Sample) /\ Alike(main, index)
  BY OfKeyType DEF RepositoryInv, TypeOK, Indexed, HistoryInv
<1>2. Stored(k) = main
  BY DEF Stored, OfKey
<1> HIDE DEF main, index
<1>3. Newest(main, Len(index)) = Newest(index, Len(main))
  BY <1>1, AlikeNewest
<1> QED
  BY <1>2, <1>3 DEF index

\* A save appends to both.
LEMMA SaveHistory ==
  ASSUME RepositoryInv, HistoryInv, NEW s \in Savers, SaveProcessMetrics(s)
  PROVE  HistoryInv'
<1> DEFINE e == saver[s]
           l == saver[s].key
           main == processMetrics
<1>1. /\ e \in Sample /\ l \in Keys /\ e.key = l
      /\ heap \in Seq(Seq(Sample))
      /\ processIndex \in [Keys -> {None} \cup DOMAIN heap]
      /\ main \in Seq(Sample) /\ Capacity \in Nat \ {0} /\ IndexCapacity \in Nat \ {0}
  BY RepositoryAssumption DEF SaveProcessMetrics, RepositoryInv, TypeOK
<1>2. processMetrics' = Pushed(main, Capacity, e) /\ Index(e)
  BY DEF SaveProcessMetrics
<1>i. ASSUME Indexed(l)
      PROVE  /\ heap' = [heap EXCEPT ![processIndex[l]] = Pushed(heap[processIndex[l]], IndexCapacity, e)]
             /\ processIndex' = processIndex
  BY <1>1, <1>2, <1>i DEF Index
<1>3. PICK kept \in Seq(Sample) : Ends(kept, main) /\ processMetrics' = Append(kept, e)
  <2> HIDE DEF main, e
  <2>1. PICK kept \in Seq(Sample) : Ends(kept, main) /\ GrownBy(Pushed(main, Capacity, e), kept, e)
    BY <1>1, PushedEnd
  <2> QED
    BY <1>2, <2>1 DEF GrownBy
<1>4. \A k \in Keys : processIndex[k] # None => processIndex[k] \in DOMAIN heap /\ heap[processIndex[k]] \in Seq(Sample)
  BY <1>1
<1>5. ASSUME NEW k \in Keys, k # l
      PROVE  /\ processIndex'[k] = processIndex[k]
             /\ processIndex[k] # None => heap'[processIndex[k]] = heap[processIndex[k]]
  <2>1. CASE Indexed(l)
    <3>1. processIndex[k] # processIndex[l]
      BY <1>1, <1>5, <2>1, OwnBuffers
    <3> QED
      BY <1>4, <1>i, <2>1, <3>1
  <2>2. CASE ~Indexed(l)
    <3>1. heap' = Append(heap, <<e>>) /\ processIndex' = [processIndex EXCEPT ![l] = Len(heap) + 1]
      BY <1>1, <1>2, <2>2 DEF Index, FreshBuffer
    <3>2. \A b \in DOMAIN heap : heap'[b] = heap[b]
      BY <1>1, <3>1
    <3> QED
      BY <1>1, <1>4, <1>5, <3>1, <3>2
  <2> QED
    BY <2>1, <2>2
<1>6. \E log \in Seq(Sample) :
        /\ processIndex'[l] # None => heap'[processIndex'[l]] = Append(log, e)
        /\ Alike(OfKey(kept, l), log)
  <2>0. OfKey(kept, l) \in Seq(Sample) /\ OfKey(main, l) \in Seq(Sample)
        /\ Ends(OfKey(kept, l), OfKey(main, l))
    BY <1>1, <1>3, OfKeyType, OfKeyEnds
  <2>1. CASE Indexed(l)
    <3> DEFINE b == processIndex[l]
               index == heap[b]
               grown == Pushed(heap[b], IndexCapacity, e)
    <3>1. heap' = [heap EXCEPT ![b] = grown] /\ processIndex' = processIndex
      BY <1>i, <2>1
    <3>2. b \in DOMAIN heap /\ index \in Seq(Sample)
      BY <1>1, <1>4, <2>1 DEF Indexed
    <3>3. Alike(OfKey(main, l), index)
      BY <1>1, <2>1 DEF HistoryInv
    <3>4. heap'[processIndex'[l]] = Pushed(index, IndexCapacity, e)
      <4>1. heap'[processIndex'[l]] = grown
        <5> HIDE DEF grown
        <5> QED
          BY <1>1, <3>1, <3>2
      <4> QED
        BY <4>1
    <3> HIDE DEF index
    <3>5. PICK log \in Seq(Sample) : Ends(log, index) /\ GrownBy(Pushed(index, IndexCapacity, e), log, e)
      BY <1>1, <3>2, PushedEnd
    <3>6. Alike(OfKey(kept, l), log)
      BY <2>0, <3>2, <3>3, <3>5, AlikeShorter
    <3> QED
      BY <3>4, <3>5, <3>6, Zenon DEF GrownBy
  <2>2. CASE ~Indexed(l)
    <3> DEFINE b == Len(heap) + 1
    <3>1. heap' = Append(heap, <<e>>) /\ processIndex' = [processIndex EXCEPT ![l] = b]
      BY <1>1, <1>2, <2>2 DEF Index, FreshBuffer
    <3>2. heap'[b] = <<e>> /\ processIndex'[l] = b
      BY <1>1, <3>1
    <3>3. <<e>> = Append(<< >>, e) /\ << >> \in Seq(Sample)
      OBVIOUS
    <3>4. Alike(OfKey(kept, l), << >>)
      BY DEF Alike
    <3> QED
      BY <3>2, <3>3, <3>4
  <2> QED
    BY <2>1, <2>2
<1> HIDE DEF e, l, main
<1>7. ASSUME NEW k \in Keys, processIndex'[k] # None
      PROVE  Alike(OfKey(processMetrics', k), heap'[processIndex'[k]])
  <2>1. /\ OfKey(kept, k) \in Seq(Sample) /\ OfKey(main, k) \in Seq(Sample)
        /\ Ends(OfKey(kept, k), OfKey(main, k))
    BY <1>1, <1>3, OfKeyType, OfKeyEnds
  <2>2. OfKey(processMetrics', k) = IF k = l THEN Append(OfKey(kept, k), e) ELSE OfKey(kept, k)
    <3>1. OfKey(Append(kept, e), k) = IF e.key = k THEN Append(OfKey(kept, k), e) ELSE OfKey(kept, k)
      BY <1>1, <1>3, OfKeyAppend
    <3> QED
      BY <1>1, <1>3, <3>1, Zenon
  <2>3. CASE k = l
    <3>1. PICK log \in Seq(Sample) :
            /\ heap'[processIndex'[k]] = Append(log, e)
            /\ Alike(OfKey(kept, k), log)
      BY <1>6, <1>7, <2>3
    <3>2. Alike(Append(OfKey(kept, k), e), Append(log, e))
      BY <1>1, <2>1, <3>1, AlikeLonger
    <3> QED
      BY <2>2, <2>3, <3>1, <3>2, Zenon
  <2>4. CASE k # l
    <3> DEFINE index == heap[processIndex[k]]
    <3>1. processIndex[k] # None /\ heap'[processIndex'[k]] = index
      BY <1>5, <1>7, <2>4
    <3>2. Alike(OfKey(main, k), index) /\ index \in Seq(Sample)
      BY <1>4, <3>1 DEF HistoryInv, Indexed, main
    <3> HIDE DEF index
    <3>3. Alike(OfKey(kept, k), index)
      BY <2>1, <3>2, AlikeShorter, EndsSelf
    <3> QED
      BY <2>2, <2>4, <3>1, <3>3, Zenon
  <2> QED
    BY <2>3, <2>4
<1> QED
  BY <1>7 DEF HistoryInv, Indexed

\* A deletion leaves an end of each.
LEMMA DeleteHistory ==
  ASSUME RepositoryInv, HistoryInv, NEW before, DeleteOldMetrics(before)
  PROVE  HistoryInv'
<1>1. /\ heap \in Seq(Seq(Sample)) /\ processMetrics \in Seq(Sample)
      /\ processIndex \in [Keys -> {None} \cup DOMAIN heap]
  BY DEF RepositoryInv, TypeOK
<1>2. /\ processMetrics' = Evicted(processMetrics, before)
      /\ heap' = [b \in DOMAIN heap |-> IF b \in Range(processIndex)
                                        THEN Evicted(heap[b], before) ELSE heap[b]]
      /\ processIndex' = [k \in Keys |->
           IF Indexed(k) /\ heap'[processIndex[k]] # << >> THEN processIndex[k] ELSE None]
  BY DEF DeleteOldMetrics
<1>3. ASSUME NEW k \in Keys, processIndex'[k] # None
      PROVE  Alike(OfKey(processMetrics', k), heap'[processIndex'[k]])
  <2> DEFINE b == processIndex[k]
             index == heap[b]
             left == Evicted(index, before)
             main == processMetrics
             rest == Evicted(main, before)
  <2>1. /\ Indexed(k) /\ b \in DOMAIN heap /\ b \in Range(processIndex)
        /\ processIndex'[k] = b
    BY <1>1, <1>2, <1>3 DEF Indexed, Range
  <2>2. heap'[b] = left /\ index \in Seq(Sample) /\ main \in Seq(Sample) /\ processMetrics' = rest
    BY <1>1, <1>2, <2>1
  <2>3. Alike(OfKey(main, k), index)
    BY <2>1 DEF HistoryInv
  <2> HIDE DEF index, main, b
  <2>4. /\ left \in Seq(Sample) /\ Ends(left, index)
        /\ rest \in Seq(Sample) /\ Ends(rest, main)
    BY <2>2, EvictedEnds
  <2>5. /\ Ends(OfKey(rest, k), OfKey(main, k))
        /\ OfKey(rest, k) \in Seq(Sample) /\ OfKey(main, k) \in Seq(Sample)
    BY <2>2, <2>4, OfKeyEnds, OfKeyType
  <2>6. Alike(OfKey(rest, k), left)
    BY <2>2, <2>3, <2>4, <2>5, AlikeShorter
  <2> QED
    BY <2>1, <2>2, <2>6
<1> QED
  BY <1>3 DEF HistoryInv, Indexed

LEMMA HistoryStep ==
  RepositoryInv /\ HistoryInv /\ [Next]_vars => HistoryInv'
<1> SUFFICES ASSUME RepositoryInv, HistoryInv, [Next]_vars PROVE HistoryInv'
  OBVIOUS
<1>1. ASSUME NEW s \in Savers, SaveProcessMetrics(s) PROVE HistoryInv'
  BY <1>1, SaveHistory
<1>2. ASSUME NEW before \in 1..now, DeleteOldMetrics(before) PROVE HistoryInv'
  BY <1>2, DeleteHistory
<1>3. CASE Close
  BY <1>3 DEF Close, HistoryInv, Indexed
<1>4. CASE UNCHANGED <<processMetrics, heap, processIndex>>
  BY <1>4 DEF HistoryInv, Indexed
<1> QED
  BY <1>1, <1>2, <1>3, <1>4
  DEF Next, Tick, Collect, SaveSystemMetrics, ReadLatest, LookupLatest, buffers, vars

\* However their different bounds, evictions and deletions cut them, the main
\* buffer and the index tell one history of every key (OneHistory).
THEOREM AlwaysOneHistory == Spec => []OneHistory
<1>1. Init => HistoryInv
  BY DEF Init, HistoryInv, Indexed
<1> QED
  BY <1>1, HistoryStep, HistoryIsOne, RepositoryInvariance, PTL DEF Spec
-----------------------------------------------------------------------------
(***************************************************************************)
(* Deletions.                                                              *)
(***************************************************************************)
LEMMA SampleTimes == \A e \in Sample : e.time \in Int
BY RepositoryAssumption DEF Sample

\* An eviction cleans a log up.
LEMMA EvictedCleansUp ==
  ASSUME NEW log \in Seq(Sample), NEW cutoff \in Int
  PROVE  CleanedUp(log, Evicted(log, cutoff), cutoff)
<1> DEFINE t == Evicted(log, cutoff)
<1>1. PICK m \in 0..Len(log) :
        /\ Len(t) = Len(log) - m
        /\ \A i \in 1..Len(log) - m : t[i] = log[m + i]
        /\ \A i \in 1..m : log[i].time < cutoff
        /\ m < Len(log) => ~(log[m + 1].time < cutoff)
  BY EvictedFrom
<1>2. t \in Seq(Sample)
  BY EvictedLog
<1> HIDE DEF t
<1>3. Len(log) - Len(t) = m /\ m >= 0 /\ Len(log) \in Nat /\ Len(t) \in Nat
  BY <1>1, <1>2
<1>4. t = Newest(log, Len(t))
  <2>1. Newest(log, Len(t)) = [i \in 1..Len(t) |-> log[Len(log) - Len(t) + i]]
    BY <1>1, <1>3 DEF Newest
  <2>2. t = [i \in 1..Len(t) |-> t[i]]
    BY <1>2
  <2>3. \A i \in 1..Len(t) : t[i] = log[Len(log) - Len(t) + i]
    BY <1>1, <1>3
  <2> QED
    BY <2>1, <2>2, <2>3
<1>5. ASSUME NEW i \in 1..Len(t), t[i].time < cutoff
      PROVE  \E j \in 1..(i - 1) : t[j].time >= cutoff
  <2>1. /\ m < Len(log) /\ m + 1 \in 1..Len(log) /\ 1 \in 1..Len(log) - m
        /\ t[1] = log[m + 1]
    BY <1>1, <1>3
  <2>2. ~(t[1].time < cutoff) /\ t[1].time \in Int
    BY <1>1, <2>1, SampleTimes
  <2>3. t[1].time >= cutoff
    BY <2>2
  <2>4. i # 1
    BY <1>5, <2>2
  <2>5. 1 \in 1..(i - 1)
    BY <2>4
  <2> QED
    BY <2>3, <2>5
<1> QED
  BY <1>1, <1>3, <1>4, <1>5 DEF t, CleanedUp

LEMMA DeleteAllOlder ==
  ASSUME RepositoryInv, NEW before \in 1..now, DeleteOldMetrics(before)
  PROVE  /\ CleanedUp(systemMetrics, systemMetrics', before)
         /\ CleanedUp(processMetrics, processMetrics', before)
         /\ \A k \in Keys : Indexed(k) =>
              CleanedUp(heap[processIndex[k]], Remaining(k), before)
<1>1. /\ heap \in Seq(Seq(Sample))
      /\ systemMetrics \in Seq(Sample) /\ processMetrics \in Seq(Sample)
      /\ processIndex \in [Keys -> {None} \cup DOMAIN heap]
      /\ before \in Int
  BY DEF RepositoryInv, TypeOK
<1>2. /\ systemMetrics' = Evicted(systemMetrics, before)
      /\ processMetrics' = Evicted(processMetrics, before)
      /\ heap' = [b \in DOMAIN heap |-> IF b \in Range(processIndex)
                                        THEN Evicted(heap[b], before) ELSE heap[b]]
      /\ processIndex' = [k \in Keys |->
           IF Indexed(k) /\ heap'[processIndex[k]] # << >> THEN processIndex[k] ELSE None]
  BY DEF DeleteOldMetrics
<1>3. /\ CleanedUp(systemMetrics, systemMetrics', before)
      /\ CleanedUp(processMetrics, processMetrics', before)
  BY <1>1, <1>2, EvictedCleansUp
<1>4. ASSUME NEW k \in Keys, Indexed(k)
      PROVE  CleanedUp(heap[processIndex[k]], Remaining(k), before)
  <2> DEFINE b == processIndex[k]
             left == Evicted(heap[b], before)
  <2>1. b \in DOMAIN heap /\ b \in Range(processIndex) /\ b # None
    BY <1>1, <1>4 DEF Indexed, Range
  <2>2. heap'[b] = left /\ heap[b] \in Seq(Sample)
    BY <1>1, <1>2, <2>1
  <2>3. processIndex'[k] = IF heap'[b] # << >> THEN b ELSE None
    BY <1>2, <1>4
  <2>4. Remaining(k) = left
    BY <2>1, <2>2, <2>3, Zenon DEF Remaining
  <2> QED
    BY <1>1, <2>2, <2>4, EvictedCleansUp
<1> QED
  BY <1>3, <1>4

\* A deletion drops only older samples, and leaves an older one only behind a
\* younger one, in the main buffers as in those of the index (DeletesAllOlder).
THEOREM AlwaysDeletesAllOlder == Spec => DeletesAllOlder
<1>1. RepositoryInv /\ [Next]_vars =>
        [\A before \in 1..now : DeleteOldMetrics(before) =>
           /\ CleanedUp(systemMetrics, systemMetrics', before)
           /\ CleanedUp(processMetrics, processMetrics', before)
           /\ \A k \in Keys : Indexed(k) =>
                CleanedUp(heap[processIndex[k]], Remaining(k), before)]_vars
  BY DeleteAllOlder
<1> QED
  BY <1>1, RepositoryInvariance, PTL DEF Spec, DeletesAllOlder

-----------------------------------------------------------------------------
(***************************************************************************)
(* The exports.  Their invariant is a conjunction of what is known of the  *)
(* repository's two logs, of each export, of each file and of the stream.  *)
(***************************************************************************)
Kinds == {"system", "processes"}
Reading(kinds) == [kind : kinds, time : Nat, busy : BOOLEAN]
At(t) == [kind |-> "system", time |-> t, busy |-> TRUE]

\* log has the system samples of the last moments up to n, one for each.
RunTo(log, n) ==
  /\ Len(log) <= n
  /\ \A i \in 1..Len(log) : log[i] = At(n - Len(log) + i)

LogsInv ==
  /\ clock \in Nat
  /\ systems \in Seq(Reading({"system"})) /\ RunTo(systems, clock)
  /\ processes \in Seq(Reading({"processes"})) /\ \A s \in ToSet(processes) : s.time <= clock

-----------------------------------------------------------------------------
(***************************************************************************)
(* The elements of the sequences that the operations of TimeSeries return. *)
(***************************************************************************)
LEMMA SameElements ==
  ASSUME NEW s
  PROVE  X!ToSet(s) = ToSet(s)
BY DEF X!ToSet, ToSet

LEMMA SameWithin ==
  ASSUME NEW log, NEW from, NEW to
  PROVE  X!Within(log, from, to) = Within(log, from, to)
BY DEF X!Within, Within, X!Kept, Kept, X!KeptUpTo, KeptUpTo

LEMMA SamePushed ==
  ASSUME NEW log, NEW bound, NEW entry
  PROVE  X!Pushed(log, bound, entry) = Pushed(log, bound, entry)
BY DEF X!Pushed, Pushed

LEMMA SameEvicted ==
  ASSUME NEW log, NEW cutoff
  PROVE  X!Evicted(log, cutoff) = Evicted(log, cutoff)
<1>1. \A s : X!Cardinality(s) = Cardinality(s)
  BY DEF X!Cardinality, Cardinality
<1> QED
  BY <1>1 DEF X!Evicted, Evicted

LEMMA ElementsAre ==
  ASSUME NEW S, NEW s \in Seq(S), NEW x
  PROVE  x \in ToSet(s) <=> \E i \in 1..Len(s) : s[i] = x
<1>1. DOMAIN s = 1..Len(s)
  OBVIOUS
<1> QED
  BY <1>1 DEF ToSet

LEMMA ElementsType ==
  ASSUME NEW S, NEW s \in Seq(S)
  PROVE  ToSet(s) \subseteq S
<1>1. \A i \in 1..Len(s) : s[i] \in S
  OBVIOUS
<1> QED
  BY <1>1, ElementsAre

LEMMA NoElements == ToSet(<< >>) = {}
BY DEF ToSet

LEMMA ConcatElements ==
  ASSUME NEW S, NEW s \in Seq(S), NEW t \in Seq(S)
  PROVE  s \o t \in Seq(S) /\ ToSet(s \o t) = ToSet(s) \cup ToSet(t)
<1> DEFINE u == s \o t
<1>1. /\ u \in Seq(S) /\ Len(u) = Len(s) + Len(t)
      /\ \A i \in 1..Len(s) : u[i] = s[i]
      /\ \A i \in 1..Len(t) : u[Len(s) + i] = t[i]
  OBVIOUS
<1> HIDE DEF u
<1>2. ASSUME NEW x \in ToSet(u)
      PROVE  x \in ToSet(s) \cup ToSet(t)
  <2>1. PICK i \in 1..Len(u) : u[i] = x
    BY <1>1, ElementsAre
  <2>2. CASE i <= Len(s)
    <3>1. i \in 1..Len(s) /\ s[i] = x
      BY <1>1, <2>1, <2>2
    <3> QED
      BY <3>1, ElementsAre
  <2>3. CASE ~(i <= Len(s))
    <3>1. i - Len(s) \in 1..Len(t) /\ Len(s) + (i - Len(s)) = i
      BY <1>1, <2>1, <2>3
    <3>2. t[i - Len(s)] = x
      BY <1>1, <2>1, <3>1
    <3> QED
      BY <3>1, <3>2, ElementsAre
  <2> QED
    BY <2>2, <2>3
<1>3. ASSUME NEW x \in ToSet(s) \cup ToSet(t)
      PROVE  x \in ToSet(u)
  <2>1. CASE x \in ToSet(s)
    <3>1. PICK i \in 1..Len(s) : s[i] = x
      BY <2>1, ElementsAre
    <3>2. i \in 1..Len(u) /\ u[i] = x
      BY <1>1, <3>1
    <3> QED
      BY <1>1, <3>2, ElementsAre
  <2>2. CASE x \in ToSet(t)
    <3>1. PICK i \in 1..Len(t) : t[i] = x
      BY <2>2, ElementsAre
    <3>2. Len(s) + i \in 1..Len(u) /\ u[Len(s) + i] = x
      BY <1>1, <3>1
    <3> QED
      BY <1>1, <3>2, ElementsAre
  <2> QED
    BY <1>3, <2>1, <2>2
<1> QED
  BY <1>1, <1>2, <1>3 DEF u

\* A query by time returns just what is in its range.
LEMMA WithinElements ==
  ASSUME NEW S, NEW log \in Seq(S), NEW from, NEW to
  PROVE  /\ Within(log, from, to) \in Seq(S)
         /\ ToSet(Within(log, from, to)) = {x \in ToSet(log) : from <= x.time /\ x.time <= to}
<1> DEFINE I == {i \in 1..Len(log) : from <= log[i].time /\ log[i].time <= to}
           q == Kept(log, I)
<1>1. Within(log, from, to) = q
  BY DEF Within
<1>2. q \in Seq(S) /\ DrawnFrom(q, log, I)
  BY KeptElements
<1>3. I \cap (1..Len(log)) = I
  OBVIOUS
<1>4. \A i \in 1..Len(log) : i \in I <=> from <= log[i].time /\ log[i].time <= to
  OBVIOUS
<1> HIDE DEF q, I
<1>5. ASSUME NEW x \in ToSet(q)
      PROVE  x \in ToSet(log) /\ from <= x.time /\ x.time <= to
  <2>1. PICK j \in 1..Len(q) : q[j] = x
    BY <1>2, ElementsAre
  <2>2. PICK i \in I \cap (1..Len(log)) : q[j] = log[i]
    BY <1>2 DEF DrawnFrom
  <2> QED
    BY <1>4, <2>1, <2>2, ElementsAre
<1>6. ASSUME NEW x \in ToSet(log), from <= x.time, x.time <= to
      PROVE  x \in ToSet(q)
  <2>1. PICK i \in 1..Len(log) : log[i] = x
    BY ElementsAre
  <2>2. i \in I \cap (1..Len(log))
    BY <1>4, <1>6, <2>1
  <2>3. PICK j \in 1..Len(q) : q[j] = log[i]
    BY <1>2, <2>2 DEF DrawnFrom
  <2> QED
    BY <1>2, <2>1, <2>3, ElementsAre
<1> QED
  BY <1>1, <1>2, <1>5, <1>6

\* A write adds an element and may take one away.
LEMMA PushedElements ==
  ASSUME NEW S, NEW log \in Seq(S), NEW e \in S, NEW bound \in Nat \ {0}
  PROVE  /\ Pushed(log, bound, e) \in Seq(S)
         /\ ToSet(Pushed(log, bound, e)) \subseteq ToSet(log) \cup {e}
<1> DEFINE p == Pushed(log, bound, e)
<1>1. PICK t \in Seq(S) : Ends(t, log) /\ GrownBy(p, t, e)
  BY PushedEnd
<1>2. p = Append(t, e)
  BY <1>1 DEF GrownBy
<1> HIDE DEF p
<1>3. p \in Seq(S) /\ Len(p) = Len(t) + 1 /\ p[Len(t) + 1] = e /\ \A i \in 1..Len(t) : p[i] = t[i]
  BY <1>2
<1>4. ToSet(t) \subseteq ToSet(log)
  <2>1. ASSUME NEW x \in ToSet(t) PROVE x \in ToSet(log)
    <3>1. PICK i \in 1..Len(t) : t[i] = x
      BY ElementsAre
    <3>2. Len(t) - i \in Nat /\ Len(t) - i < Len(t) /\ Len(t) - (Len(t) - i) = i
      BY <3>1
    <3>3. Len(log) - (Len(t) - i) \in 1..Len(log) /\ t[i] = log[Len(log) - (Len(t) - i)]
      BY <1>1, <3>2 DEF Ends
    <3> QED
      BY <3>1, <3>3, ElementsAre
  <2> QED
    BY <2>1
<1>5. ASSUME NEW x \in ToSet(p) PROVE x \in ToSet(t) \cup {e}
  <2>1. PICK i \in 1..Len(p) : p[i] = x
    BY <1>3, ElementsAre
  <2>2. CASE i \in 1..Len(t)
    <3>1. t[i] = x
      BY <1>3, <2>1, <2>2
    <3> QED
      BY <2>2, <3>1, ElementsAre
  <2>3. CASE i = Len(t) + 1
    BY <1>3, <2>1, <2>3
  <2>4. i \in 1..Len(t) \/ i = Len(t) + 1
    BY <1>3
  <2> QED
    BY <2>2, <2>3, <2>4
<1> QED
  BY <1>3, <1>4, <1>5 DEF p

\* An eviction takes away only what is older than the cutoff.
LEMMA EvictedElements ==
  ASSUME NEW S, NEW log \in Seq(S), NEW cutoff
  PROVE  /\ Evicted(log, cutoff) \in Seq(S)
         /\ ToSet(Evicted(log, cutoff)) \subseteq ToSet(log)
         /\ \A x \in ToSet(log) : ~(x.time < cutoff) => x \in ToSet(Evicted(log, cutoff))
<1> DEFINE t == Evicted(log, cutoff)
<1>1. t \in Seq(S)
  BY EvictedLog
<1>2. PICK m \in 0..Len(log) :
        /\ Len(t) = Len(log) - m
        /\ \A i \in 1..Len(log) - m : t[i] = log[m + i]
        /\ \A i \in 1..m : log[i].time < cutoff
  BY EvictedFrom
<1> HIDE DEF t
<1>3. ASSUME NEW x \in ToSet(t) PROVE x \in ToSet(log)
  <2>1. PICK i \in 1..Len(t) : t[i] = x
    BY <1>1, ElementsAre
  <2>2. m + i \in 1..Len(log) /\ log[m + i] = x
    BY <1>2, <2>1
  <2> QED
    BY <2>2, ElementsAre
<1>4. ASSUME NEW x \in ToSet(log), ~(x.time < cutoff) PROVE x \in ToSet(t)
  <2>1. PICK i \in 1..Len(log) : log[i] = x
    BY ElementsAre
  <2>2. i \notin 1..m
    BY <1>2, <1>4, <2>1
  <2>3. i - m \in 1..Len(t) /\ m + (i - m) = i
    BY <1>2, <2>1, <2>2
  <2>4. t[i - m] = x
    BY <1>2, <2>1, <2>3
  <2> QED
    BY <1>1, <2>3, <2>4, ElementsAre
<1> QED
  BY <1>1, <1>3, <1>4 DEF t

-----------------------------------------------------------------------------
(***************************************************************************)
(* The two logs.                                                           *)
(***************************************************************************)
LEMMA RunEnds ==
  ASSUME NEW s \in Seq(Reading({"system"})), NEW t \in Seq(Reading({"system"})), NEW n \in Nat,
         RunTo(s, n), Ends(t, s)
  PROVE  RunTo(t, n)
<1>1. Len(t) <= Len(s) /\ Len(s) <= n
  BY DEF RunTo, Ends
<1>2. ASSUME NEW i \in 1..Len(t) PROVE t[i] = At(n - Len(t) + i)
  <2>1. Len(t) - i \in Nat /\ Len(t) - i < Len(t) /\ Len(t) - (Len(t) - i) = i
    OBVIOUS
  <2> DEFINE k == Len(s) - (Len(t) - i)
  <2>2. k \in 1..Len(s) /\ n - Len(s) + k = n - Len(t) + i
    BY <1>1
  <2>3. t[i] = s[k]
    BY <2>1 DEF Ends
  <2> HIDE DEF k
  <2> QED
    BY <2>2, <2>3 DEF RunTo
<1> QED
  BY <1>1, <1>2 DEF RunTo

LEMMA RunGrows ==
  ASSUME NEW s \in Seq(Reading({"system"})), NEW n \in Nat, RunTo(s, n)
  PROVE  RunTo(Append(s, At(n + 1)), n + 1)
<1> DEFINE u == Append(s, At(n + 1))
<1>1. /\ Len(u) = Len(s) + 1 /\ u[Len(s) + 1] = At(n + 1)
      /\ \A i \in 1..Len(s) : u[i] = s[i]
  OBVIOUS
<1> HIDE DEF u
<1>2. Len(s) <= n
  BY DEF RunTo
<1>3. ASSUME NEW i \in 1..Len(u) PROVE u[i] = At((n + 1) - Len(u) + i)
  <2>1. CASE i = Len(s) + 1
    <3>1. (n + 1) - Len(u) + i = n + 1
      BY <1>1, <1>2, <2>1
    <3> QED
      BY <1>1, <2>1, <3>1
  <2>2. CASE i # Len(s) + 1
    <3>1. i \in 1..Len(s) /\ (n + 1) - Len(u) + i = n - Len(s) + i
      BY <1>1, <1>2, <2>2
    <3> QED
      BY <1>1, <3>1 DEF RunTo
  <2> QED
    BY <2>1, <2>2
<1> QED
  BY <1>1, <1>2, <1>3 DEF RunTo, u

\* The elements of a run are the samples of its moments.
Samples(a, b) == {At(t) : t \in a + 1..b}

LEMMA RunElements ==
  ASSUME NEW s \in Seq(Reading({"system"})), NEW n \in Nat, RunTo(s, n)
  PROVE  ToSet(s) = Samples(n - Len(s), n)
<1>1. Len(s) <= n /\ \A i \in 1..Len(s) : s[i] = At(n - Len(s) + i)
  BY DEF RunTo
<1>2. ASSUME NEW x \in ToSet(s) PROVE x \in Samples(n - Len(s), n)
  <2>1. PICK i \in 1..Len(s) : s[i] = x
    BY ElementsAre
  <2>2. n - Len(s) + i \in (n - Len(s)) + 1..n
    BY <1>1
  <2> QED
    BY <1>1, <2>1, <2>2 DEF Samples
<1>3. ASSUME NEW x \in Samples(n - Len(s), n) PROVE x \in ToSet(s)
  <2>1. PICK t \in (n - Len(s)) + 1..n : x = At(t)
    BY DEF Samples
  <2>2. t - (n - Len(s)) \in 1..Len(s) /\ n - Len(s) + (t - (n - Len(s))) = t
    BY <1>1, <2>1
  <2>3. s[t - (n - Len(s))] = x
    BY <1>1, <2>1, <2>2
  <2> QED
    BY <2>2, <2>3, ElementsAre
<1> QED
  BY <1>2, <1>3

LEMMA AtIsReading ==
  ASSUME NEW t \in Nat
  PROVE  At(t) \in Reading({"system"}) /\ At(t).time = t /\ At(t).kind = "system"
BY DEF At, Reading

LEMMA SystemTimes ==
  ASSUME LogsInv
  PROVE  \A s \in ToSet(systems) : s.time \in Nat /\ s.time <= clock /\ s.kind = "system"
<1> SUFFICES ASSUME NEW s \in ToSet(systems)
             PROVE  s.time \in Nat /\ s.time <= clock /\ s.kind = "system"
  OBVIOUS
<1>1. PICK t \in (clock - Len(systems)) + 1..clock : s = At(t)
  <2>1. s \in Samples(clock - Len(systems), clock)
    BY RunElements DEF LogsInv
  <2> QED
    BY <2>1 DEF Samples
<1>2. Len(systems) \in Nat /\ clock \in Nat /\ Len(systems) <= clock
  BY DEF LogsInv, RunTo
<1>3. t \in Nat /\ t <= clock
  BY <1>2
<1> QED
  BY <1>1, <1>3, AtIsReading

LEMMA ProcessTimes ==
  ASSUME LogsInv
  PROVE  \A s \in ToSet(processes) : s.time \in Nat /\ s.time <= clock /\ s.kind = "processes"
<1>1. ToSet(processes) \subseteq Reading({"processes"})
  BY ElementsType DEF LogsInv
<1>2. \A s \in Reading({"processes"}) : s.time \in Nat /\ s.kind = "processes"
  BY DEF Reading
<1>3. \A s \in ToSet(processes) : s.time <= clock
  BY DEF LogsInv
<1> QED
  BY <1>1, <1>2, <1>3

\* What is stored in a range are the samples of the logs there.
LEMMA StoredIn ==
  ASSUME LogsInv, NEW from \in Nat, NEW to \in Nat
  PROVE  X!Within2(from, to) = {s \in ToSet(systems) \cup ToSet(processes) : from <= s.time /\ s.time <= to}
<1> DEFINE a == Within(systems, from, to)
           b == Within(processes, from, to)
<1>1. /\ systems \in Seq(Reading(Kinds)) /\ processes \in Seq(Reading(Kinds))
  <2>1. Reading({"system"}) \subseteq Reading(Kinds) /\ Reading({"processes"}) \subseteq Reading(Kinds)
    BY DEF Reading, Kinds
  <2> QED
    BY <2>1 DEF LogsInv
<1>2. /\ a \in Seq(Reading(Kinds))
      /\ ToSet(a) = {s \in ToSet(systems) : from <= s.time /\ s.time <= to}
  BY <1>1, WithinElements
<1>3. /\ b \in Seq(Reading(Kinds))
      /\ ToSet(b) = {s \in ToSet(processes) : from <= s.time /\ s.time <= to}
  BY <1>1, WithinElements
<1>4. X!Within2(from, to) = ToSet(a \o b)
  BY SameWithin, SameElements DEF X!Within2
<1> HIDE DEF a, b
<1>5. X!Within2(from, to) = ToSet(a) \cup ToSet(b)
  BY <1>2, <1>3, <1>4, ConcatElements
<1> QED
  BY <1>2, <1>3, <1>5

LEMMA SaveSystemLogs ==
  ASSUME LogsInv, X!SaveSystem
  PROVE  /\ LogsInv' /\ clock' = clock + 1 /\ processes' = processes
         /\ ToSet(systems') \subseteq ToSet(systems) \cup {At(clock + 1)}
         /\ Len(systems') <= Len(systems) + 1
<1> DEFINE e == At(clock + 1)
<1>1. /\ clock' = clock + 1 /\ processes' = processes
      /\ systems' = Pushed(systems, Capacity, e)
  BY SamePushed DEF X!SaveSystem, At
<1>2. clock \in Nat /\ systems \in Seq(Reading({"system"})) /\ RunTo(systems, clock)
  BY DEF LogsInv
<1>3. e \in Reading({"system"})
  BY <1>2, AtIsReading
<1>4. Capacity \in Nat \ {0}
  BY RepositoryAssumption
<1>5. systems' \in Seq(Reading({"system"})) /\ ToSet(systems') \subseteq ToSet(systems) \cup {e}
  BY <1>1, <1>2, <1>3, <1>4, PushedElements
<1>6. PICK t \in Seq(Reading({"system"})) : Ends(t, systems) /\ GrownBy(Pushed(systems, Capacity, e), t, e)
  BY <1>2, <1>3, <1>4, PushedEnd
<1>7. systems' = Append(t, At(clock + 1)) /\ Len(t) <= Len(systems)
  BY <1>1, <1>6 DEF GrownBy, Ends
<1>8. RunTo(systems', clock')
  <2>1. RunTo(t, clock)
    BY <1>2, <1>6, RunEnds
  <2> QED
    BY <1>1, <1>2, <1>7, <2>1, RunGrows
<1>9. Len(systems') <= Len(systems) + 1
  BY <1>2, <1>7
<1>10. \A s \in ToSet(processes') : s.time <= clock'
  BY <1>1, <1>2, ProcessTimes
<1> QED
  BY <1>1, <1>2, <1>5, <1>8, <1>9, <1>10 DEF LogsInv

LEMMA SaveProcessesLogs ==
  ASSUME LogsInv, X!SaveProcesses
  PROVE  /\ LogsInv' /\ clock' = clock /\ systems' = systems
         /\ \A s \in ToSet(processes) : s.time < clock
         /\ \A s \in ToSet(processes') : s \in ToSet(processes) \/ s.time = clock
<1> DEFINE e == [kind |-> "processes", time |-> clock, busy |-> clock \in BusyTimes]
<1>1. /\ clock' = clock /\ systems' = systems
      /\ processes' = Pushed(processes, Capacity, e)
      /\ \A i \in DOMAIN processes : processes[i].time < clock
  BY SamePushed DEF X!SaveProcesses
<1>2. clock \in Nat /\ processes \in Seq(Reading({"processes"}))
  BY DEF LogsInv
<1>3. e \in Reading({"processes"}) /\ e.time = clock
  <2>1. (clock \in BusyTimes) \in BOOLEAN
    OBVIOUS
  <2> QED
    BY <1>2, <2>1 DEF Reading
<1>4. Capacity \in Nat \ {0}
  BY RepositoryAssumption
<1> HIDE DEF e
<1>5. processes' \in Seq(Reading({"processes"})) /\ ToSet(processes') \subseteq ToSet(processes) \cup {e}
  BY <1>1, <1>2, <1>3, <1>4, PushedElements
<1>6. \A s \in ToSet(processes) : s.time < clock
  BY <1>1 DEF ToSet
<1>7. \A s \in ToSet(processes') : s \in ToSet(processes) \/ s.time = clock
  BY <1>3, <1>5
<1>8. \A s \in ToSet(processes') : s.time <= clock'
  BY <1>1, <1>2, <1>7, ProcessTimes
<1> QED
  BY <1>1, <1>2, <1>5, <1>6, <1>7, <1>8 DEF LogsInv

LEMMA DeleteLogs ==
  ASSUME LogsInv, X!DeleteOldMetrics
  PROVE  /\ LogsInv' /\ clock' = clock
         /\ ToSet(systems') \subseteq ToSet(systems) /\ Len(systems') <= Len(systems)
         /\ ToSet(processes') \subseteq ToSet(processes)
         /\ \A s \in ToSet(processes) : s.time = clock => s \in ToSet(processes')
<1>1. PICK cutoff \in 2..clock :
        systems' = Evicted(systems, cutoff) /\ processes' = Evicted(processes, cutoff)
  BY SameEvicted DEF X!DeleteOldMetrics
<1>2. clock' = clock
  BY DEF X!DeleteOldMetrics
<1>3. /\ clock \in Nat /\ RunTo(systems, clock)
      /\ systems \in Seq(Reading({"system"})) /\ processes \in Seq(Reading({"processes"}))
  BY DEF LogsInv
<1>4. systems' \in Seq(Reading({"system"})) /\ Ends(systems', systems) /\ ToSet(systems') \subseteq ToSet(systems)
  BY <1>1, <1>3, EvictedEnds, EvictedElements
<1>5. RunTo(systems', clock') /\ Len(systems') <= Len(systems)
  BY <1>2, <1>3, <1>4, RunEnds DEF Ends
<1>6. /\ processes' \in Seq(Reading({"processes"})) /\ ToSet(processes') \subseteq ToSet(processes)
      /\ \A s \in ToSet(processes) : ~(s.time < cutoff) => s \in ToSet(processes')
  BY <1>1, <1>3, EvictedElements
<1>7. \A s \in ToSet(processes) : s.time = clock => s \in ToSet(processes')
  <2>1. ~(clock < cutoff)
    BY <1>1, <1>3
  <2> QED
    BY <1>6, <2>1
<1>8. \A s \in ToSet(processes') : s.time <= clock'
  BY <1>2, <1>6, ProcessTimes
<1> QED
  BY <1>2, <1>3, <1>4, <1>5, <1>6, <1>7, <1>8 DEF LogsInv

LEMMA LogsStay ==
  ASSUME LogsInv, UNCHANGED <<systems, processes, clock>>
  PROVE  LogsInv'
BY DEF LogsInv

-----------------------------------------------------------------------------
(***************************************************************************)
(* One export.  a and b are what the two logs hold, n the time.            *)
(***************************************************************************)
Job == [pc : {"absent", "idle", "refused", "system", "processes", "render", "write", "writing", "done"},
        format : {"none", "json", "csv", "prometheus"},
        destination : {"none", "file", "http", "s3"},
        path : Paths \cup {"none"}, parts : SUBSET Kinds, from : Nat, to : Nat,
        held : SUBSET Reading(Kinds), sys : Seq(Reading({"system"})),
        procs : Seq(Reading({"processes"})), data : Seq(Reading(Kinds)),
        success : BOOLEAN, items : Nat, error : {"none", "DATA_COLLECTION_ERROR", "EXPORT_ERROR"}]

\* It was asked for what was there then.
Asked(j, n) ==
  \A s \in j.held : s.time <= n /\ j.from <= s.time /\ s.time <= j.to /\ s.kind \in j.parts

\* Nothing it has comes from outside its range.
InRange(j, q) == \A s \in ToSet(q) : j.from <= s.time /\ s.time <= j.to /\ s.kind \in j.parts

Told(j) == InRange(j, j.sys) /\ InRange(j, j.procs) /\ InRange(j, j.data)

\* It goes only where it was sent.
Staged(j) ==
  /\ j.pc = "system" => "system" \in j.parts
  /\ j.pc = "processes" => "processes" \in j.parts
  /\ j.destination = "file" => j.path \in Paths
  /\ j.pc = "writing" => j.destination = "file"

Rendered(j) == j.pc \in {"write", "writing"} \/ j.success

\* What was held and is still there has been found by the queries made so far.
FoundSystem(j, a) == j.pc \in {"processes", "render"} => j.held \cap a \subseteq ToSet(j.sys)
FoundProcesses(j, b) == j.pc = "render" => j.held \cap b \subseteq ToSet(j.procs)
FoundAll(j, a, b) ==
  Rendered(j) /\ j.format # "prometheus" =>
    j.items = Len(j.data) /\ j.held \cap (a \cup b) \subseteq ToSet(j.data)

Found(j, a, b) == FoundSystem(j, a) /\ FoundProcesses(j, b) /\ FoundAll(j, a, b)

\* An error is the one way not to succeed.
Answered(j) ==
  IF j.pc = "done" THEN j.success <=> (j.error = "none") ELSE ~j.success /\ j.error = "none"

\* A sample of the processes of this moment cannot be saved again.
Fresh(j, b, n) == \A s \in j.held : s.kind = "processes" /\ s.time = n => s \in b

ExportInv(j, a, b, n) ==
  /\ j \in Job /\ Asked(j, n) /\ Told(j) /\ Staged(j)
  /\ Found(j, a, b) /\ Answered(j) /\ Fresh(j, b, n)

\* No request has been made.
LEMMA IdleIsJob == X!Idle \in Job
<1>1. << >> \in Seq(Reading({"system"})) /\ << >> \in Seq(Reading({"processes"})) /\ << >> \in Seq(Reading(Kinds))
  OBVIOUS
<1> QED
  BY <1>1 DEF X!Idle, Job

LEMMA IdleJob ==
  ASSUME NEW a, NEW b, NEW n \in Nat, NEW pc \in {"absent", "idle", "refused"}
  PROVE  ExportInv([X!Idle EXCEPT !.pc = pc], a, b, n)
<1> DEFINE j == [X!Idle EXCEPT !.pc = pc]
<1>1. X!Idle \in Job
  BY IdleIsJob
<1>2. /\ j.pc = pc /\ j.format = "none" /\ j.destination = "none" /\ j.path = "none" /\ j.parts = {}
      /\ j.from = 0 /\ j.to = 0 /\ j.held = {} /\ j.sys = << >> /\ j.procs = << >> /\ j.data = << >>
      /\ j.success = FALSE /\ j.items = 0 /\ j.error = "none"
  BY DEF X!Idle
<1>3. j \in Job
  BY <1>1 DEF Job
<1> HIDE DEF j
<1>4. Asked(j, n) /\ Told(j) /\ Fresh(j, b, n)
  BY <1>2, NoElements DEF Asked, Told, InRange, Fresh
<1>5. Staged(j) /\ Found(j, a, b) /\ Answered(j)
  BY <1>2 DEF Staged, Found, FoundSystem, FoundProcesses, FoundAll, Rendered, Answered
<1> QED
  BY <1>3, <1>4, <1>5 DEF ExportInv, j

LEMMA FailedJob ==
  ASSUME NEW a, NEW b, NEW n \in Nat, NEW error \in {"DATA_COLLECTION_ERROR", "EXPORT_ERROR"}
  PROVE  ExportInv([X!Idle EXCEPT !.pc = "done", !.error = error], a, b, n)
<1> DEFINE j == [X!Idle EXCEPT !.pc = "done", !.error = error]
<1>1. X!Idle \in Job
  BY IdleIsJob
<1>2. /\ j.pc = "done" /\ j.format = "none" /\ j.destination = "none" /\ j.path = "none" /\ j.parts = {}
      /\ j.from = 0 /\ j.to = 0 /\ j.held = {} /\ j.sys = << >> /\ j.procs = << >> /\ j.data = << >>
      /\ j.success = FALSE /\ j.items = 0 /\ j.error = error
  BY DEF X!Idle
<1>3. j \in Job
  BY <1>1 DEF Job
<1> HIDE DEF j
<1>4. Asked(j, n) /\ Told(j) /\ Fresh(j, b, n)
  BY <1>2, NoElements DEF Asked, Told, InRange, Fresh
<1>5. Staged(j) /\ Found(j, a, b) /\ Answered(j)
  BY <1>2 DEF Staged, Found, FoundSystem, FoundProcesses, FoundAll, Rendered, Answered
<1> QED
  BY <1>3, <1>4, <1>5 DEF ExportInv, j

Requested(pc, f, d, p, parts, from, to, held) ==
  [X!Idle EXCEPT !.pc = pc, !.format = f, !.destination = d, !.path = p, !.parts = parts,
                 !.from = from, !.to = to, !.held = held]

LEMMA RequestedType ==
  ASSUME NEW pc \in {"system", "processes", "render"}, NEW f \in {"json", "csv", "prometheus"},
         NEW d \in {"file", "http", "s3"}, NEW p \in Paths \cup {"none"}, NEW parts \in SUBSET Kinds,
         NEW from \in Nat, NEW to \in Nat, NEW held \in SUBSET Reading(Kinds)
  PROVE  Requested(pc, f, d, p, parts, from, to, held) \in Job
<1> DEFINE i == [X!Idle EXCEPT !.pc = pc, !.format = f, !.destination = d]
           j == [i EXCEPT !.path = p, !.parts = parts]
<1>1. i \in Job
  BY IdleIsJob DEF Job
<1> HIDE DEF i
<1>2. j \in Job
  BY <1>1 DEF Job
<1> HIDE DEF j
<1>3. [j EXCEPT !.from = from, !.to = to, !.held = held] \in Job
  BY <1>2 DEF Job
<1> QED
  BY <1>3 DEF i, j, Requested

\* A request is valid or refused; a valid one asks for what is stored in its range.
LEMMA RequestedJob ==
  ASSUME NEW a, NEW b, NEW n \in Nat, a \cup b \subseteq Reading(Kinds),
         \A s \in a : s.time <= n /\ s.kind = "system",
         \A s \in b : s.time <= n /\ s.kind = "processes",
         NEW f, NEW d, NEW p \in Paths \cup {"none"}, NEW parts \in SUBSET Kinds,
         X!ExportValid(f, d, p),
         NEW pc, pc = IF "system" \in parts THEN "system"
                      ELSE IF "processes" \in parts THEN "processes" ELSE "render",
         NEW from \in Nat, NEW to \in Nat,
         NEW held, held = {s \in a \cup b : from <= s.time /\ s.time <= to /\ s.kind \in parts}
  PROVE  ExportInv(Requested(pc, f, d, p, parts, from, to, held), a, b, n)
<1> DEFINE j == Requested(pc, f, d, p, parts, from, to, held)
<1>1. /\ held \subseteq Reading(Kinds)
      /\ \A s \in held : /\ s \in a \/ s \in b
                         /\ s.time <= n /\ from <= s.time /\ s.time <= to /\ s.kind \in parts
  OBVIOUS
<1>2. /\ j.pc = pc /\ j.format = f /\ j.destination = d /\ j.path = p /\ j.parts = parts
      /\ j.from = from /\ j.to = to /\ j.held = held /\ j.sys = << >> /\ j.procs = << >> /\ j.data = << >>
      /\ j.success = FALSE /\ j.items = 0 /\ j.error = "none"
  BY DEF Requested, X!Idle
<1>3. pc \in {"system", "processes", "render"}
  OBVIOUS
<1>4. f \in {"json", "csv", "prometheus"} /\ d \in {"file", "http", "s3"} /\ (d = "file" => p # "none")
  BY DEF X!ExportValid
<1>5. j \in Job
  BY <1>1, <1>3, <1>4, RequestedType
<1> HIDE DEF j
<1>6. Asked(j, n) /\ Told(j)
  BY <1>1, <1>2, NoElements DEF Asked, Told, InRange
<1>7. Fresh(j, b, n)
  BY <1>1, <1>2 DEF Fresh
<1>8. Staged(j)
  BY <1>2, <1>4 DEF Staged
<1>9. FoundSystem(j, a)
  <2>1. pc \in {"processes", "render"} => "system" \notin parts
    OBVIOUS
  <2>2. ASSUME "system" \notin parts PROVE held \cap a = {}
    BY <1>1, <2>2
  <2> QED
    BY <1>2, <2>1, <2>2 DEF FoundSystem
<1>10. FoundProcesses(j, b)
  <2>1. pc = "render" => "processes" \notin parts
    OBVIOUS
  <2>2. ASSUME "processes" \notin parts PROVE held \cap b = {}
    BY <1>1, <2>2
  <2> QED
    BY <1>2, <2>1, <2>2 DEF FoundProcesses
<1>11. FoundAll(j, a, b) /\ Answered(j)
  BY <1>2, <1>3 DEF FoundAll, Rendered, Answered
<1> QED
  BY <1>5, <1>6, <1>7, <1>8, <1>9, <1>10, <1>11 DEF ExportInv, Found, j

\* The readings that an export of everything renders are those it found.
LEMMA RenderingIs ==
  ASSUME NEW format, NEW sys \in Seq(Reading({"system"})), NEW procs \in Seq(Reading({"processes"}))
  PROVE  /\ X!Rendering(format, sys, procs) \in Seq(Reading(Kinds))
         /\ X!ItemsExported(format, sys, procs) \in Nat
         /\ ToSet(X!Rendering(format, sys, procs)) \subseteq ToSet(sys) \cup ToSet(procs)
         /\ format # "prometheus" =>
              /\ ToSet(X!Rendering(format, sys, procs)) = ToSet(sys) \cup ToSet(procs)
              /\ X!ItemsExported(format, sys, procs) = Len(X!Rendering(format, sys, procs))
<1> DEFINE R == X!Rendering(format, sys, procs)
           items == X!ItemsExported(format, sys, procs)
<1>1. sys \in Seq(Reading(Kinds)) /\ procs \in Seq(Reading(Kinds))
  <2>1. Reading({"system"}) \subseteq Reading(Kinds) /\ Reading({"processes"}) \subseteq Reading(Kinds)
    BY DEF Reading, Kinds
  <2> QED
    BY <2>1
<1>2. items = Len(R) + (IF format = "prometheus" /\ procs # << >> THEN 1 ELSE 0)
  BY DEF X!ItemsExported
<1>3. CASE format # "prometheus"
  <2>1. R = sys \o procs
    BY <1>3 DEF X!Rendering
  <2>2. R \in Seq(Reading(Kinds)) /\ ToSet(R) = ToSet(sys) \cup ToSet(procs)
    BY <1>1, <2>1, ConcatElements
  <2> HIDE DEF R, items
  <2>3. items = Len(R) /\ Len(R) \in Nat
    BY <1>2, <1>3, <2>2
  <2> QED
    BY <2>2, <2>3 DEF R, items
<1>4. CASE format = "prometheus"
  <2> DEFINE I == {i \in DOMAIN procs : procs[i].busy}
             s == IF sys = << >> THEN << >> ELSE <<sys[Len(sys)]>>
             q == Kept(procs, I)
  <2>1. R = s \o q
    <3>1. X!Kept(procs, I) = Kept(procs, I)
      BY DEF X!Kept, Kept, X!KeptUpTo, KeptUpTo
    <3>2. sys # << >> => X!Last(sys) = sys[Len(sys)]
      BY DEF X!Last
    <3> QED
      BY <1>4, <3>1, <3>2 DEF X!Rendering
  <2>2. s \in Seq(Reading(Kinds)) /\ ToSet(s) \subseteq ToSet(sys)
    <3>1. CASE sys = << >>
      BY <3>1, NoElements
    <3>2. CASE sys # << >>
      <4>1. Len(sys) \in 1..Len(sys) /\ sys[Len(sys)] \in Reading(Kinds) /\ s = <<sys[Len(sys)]>>
        BY <1>1, <3>2
      <4>2. s \in Seq(Reading(Kinds)) /\ Len(s) = 1 /\ s[1] = sys[Len(sys)]
        BY <4>1
      <4> HIDE DEF s
      <4>3. ASSUME NEW x \in ToSet(s) PROVE x \in ToSet(sys)
        <5>1. PICK i \in 1..Len(s) : s[i] = x
          BY <4>2, ElementsAre
        <5>2. x = sys[Len(sys)]
          BY <4>2, <5>1
        <5> QED
          BY <1>1, <4>1, <5>2, ElementsAre
      <4> QED
        BY <4>2, <4>3
    <3> QED
      BY <3>1, <3>2
  <2>3. q \in Seq(Reading(Kinds)) /\ DrawnFrom(q, procs, I)
    BY <1>1, KeptElements
  <2> HIDE DEF I, s, q
  <2>4. ASSUME NEW x \in ToSet(q) PROVE x \in ToSet(procs)
    <3>1. PICK j \in 1..Len(q) : q[j] = x
      BY <2>3, ElementsAre
    <3>2. PICK i \in I \cap (1..Len(procs)) : q[j] = procs[i]
      BY <2>3 DEF DrawnFrom
    <3> QED
      BY <1>1, <3>1, <3>2, ElementsAre
  <2>5. R \in Seq(Reading(Kinds)) /\ ToSet(R) = ToSet(s) \cup ToSet(q)
    BY <2>1, <2>2, <2>3, ConcatElements
  <2> HIDE DEF R, items
  <2>6. items \in Nat
    BY <1>2, <2>5
  <2> QED
    BY <1>4, <2>2, <2>4, <2>5, <2>6 DEF R, items
<1> QED
  BY <1>3, <1>4

\* Moves(j, i, pc): what the steps of an export leave alone.
Moves(j, i, pc) ==
  /\ i.pc = pc /\ i.format = j.format /\ i.destination = j.destination /\ i.path = j.path
  /\ i.parts = j.parts /\ i.from = j.from /\ i.to = j.to /\ i.held = j.held /\ i.error = j.error

LEMMA MovesOn ==
  ASSUME NEW a, NEW b, NEW n, NEW j, NEW i, NEW pc, ExportInv(j, a, b, n), Moves(j, i, pc)
  PROVE  Asked(i, n) /\ Fresh(i, b, n)
BY DEF ExportInv, Moves, Asked, Fresh

LEMMA QueriedSystem ==
  ASSUME NEW a, NEW b, NEW n, NEW j, ExportInv(j, a, b, n), j.pc = "system",
         \A s \in a : s.time \in Nat /\ s.kind = "system", \A s \in b : s.kind = "processes",
         NEW q \in Seq(Reading({"system"})), ToSet(q) = {x \in a : j.from <= x.time /\ x.time <= j.to},
         NEW pc, pc = IF "processes" \in j.parts THEN "processes" ELSE "render"
  PROVE  ExportInv([j EXCEPT !.sys = q, !.pc = pc], a, b, n)
<1> DEFINE i == [j EXCEPT !.sys = q, !.pc = pc]
<1>1. j \in Job
  BY DEF ExportInv, Job
<1>2. pc \in {"processes", "render"}
  OBVIOUS
<1>3. i \in Job
  BY <1>1, <1>2 DEF Job
<1>4. Moves(j, i, pc) /\ i.sys = q /\ i.procs = j.procs /\ i.data = j.data /\ i.success = j.success
  BY <1>1 DEF Moves, Job
<1> HIDE DEF i
<1>5. "system" \in j.parts /\ ~j.success /\ j.error = "none"
  BY DEF ExportInv, Staged, Answered
<1>6. Told(i)
  <2>1. \A s \in ToSet(q) : j.from <= s.time /\ s.time <= j.to /\ s.kind \in j.parts
    BY <1>5
  <2> QED
    BY <1>4, <2>1 DEF ExportInv, Told, InRange, Moves
<1>7. Staged(i)
  BY <1>2, <1>4 DEF ExportInv, Staged, Moves
<1>8. FoundSystem(i, a)
  <2>1. \A s \in j.held : j.from <= s.time /\ s.time <= j.to
    BY DEF ExportInv, Asked
  <2> QED
    BY <1>4, <2>1 DEF FoundSystem, Moves
<1>9. FoundProcesses(i, b)
  <2>1. pc = "render" => "processes" \notin j.parts
    OBVIOUS
  <2>2. \A s \in j.held : s.kind \in j.parts
    BY DEF ExportInv, Asked
  <2> QED
    BY <1>4, <2>1, <2>2 DEF FoundProcesses, Moves
<1>10. FoundAll(i, a, b) /\ Answered(i)
  BY <1>2, <1>4, <1>5 DEF FoundAll, Rendered, Answered, Moves
<1> QED
  BY <1>3, <1>4, <1>6, <1>7, <1>8, <1>9, <1>10, MovesOn DEF ExportInv, Found, i

LEMMA QueriedProcesses ==
  ASSUME NEW a, NEW b, NEW n, NEW j, ExportInv(j, a, b, n), j.pc = "processes",
         \A s \in b : s.time \in Nat /\ s.kind = "processes",
         NEW q \in Seq(Reading({"processes"})), ToSet(q) = {x \in b : j.from <= x.time /\ x.time <= j.to}
  PROVE  ExportInv([j EXCEPT !.procs = q, !.pc = "render"], a, b, n)
<1> DEFINE i == [j EXCEPT !.procs = q, !.pc = "render"]
<1>1. j \in Job
  BY DEF ExportInv, Job
<1>2. i \in Job
  BY <1>1 DEF Job
<1>3. Moves(j, i, "render") /\ i.sys = j.sys /\ i.procs = q /\ i.data = j.data /\ i.success = j.success
  BY <1>1 DEF Moves, Job
<1> HIDE DEF i
<1>4. "processes" \in j.parts /\ ~j.success /\ j.error = "none"
  BY DEF ExportInv, Staged, Answered
<1>5. Told(i)
  <2>1. \A s \in ToSet(q) : j.from <= s.time /\ s.time <= j.to /\ s.kind \in j.parts
    BY <1>4
  <2> QED
    BY <1>3, <2>1 DEF ExportInv, Told, InRange, Moves
<1>6. Staged(i)
  BY <1>3 DEF ExportInv, Staged, Moves
<1>7. FoundSystem(i, a)
  BY <1>3 DEF ExportInv, Found, FoundSystem, Moves
<1>8. FoundProcesses(i, b)
  <2>1. \A s \in j.held : j.from <= s.time /\ s.time <= j.to
    BY DEF ExportInv, Asked
  <2> QED
    BY <1>3, <2>1 DEF FoundProcesses, Moves
<1>9. FoundAll(i, a, b) /\ Answered(i)
  BY <1>3, <1>4 DEF FoundAll, Rendered, Answered, Moves
<1> QED
  BY <1>2, <1>3, <1>5, <1>6, <1>7, <1>8, <1>9, MovesOn DEF ExportInv, Found, i

LEMMA RenderedJob ==
  ASSUME NEW a, NEW b, NEW n, NEW j, ExportInv(j, a, b, n), j.pc = "render",
         NEW data, data = X!Rendering(j.format, j.sys, j.procs),
         NEW items, items = X!ItemsExported(j.format, j.sys, j.procs)
  PROVE  ExportInv([j EXCEPT !.pc = "write", !.sys = << >>, !.procs = << >>, !.data = data, !.items = items],
                   a, b, n)
<1> DEFINE i == [j EXCEPT !.pc = "write", !.sys = << >>, !.procs = << >>, !.data = data, !.items = items]
<1>1. j \in Job
  BY DEF ExportInv
<1>2. j.sys \in Seq(Reading({"system"})) /\ j.procs \in Seq(Reading({"processes"}))
  BY <1>1 DEF Job
<1>3. /\ data \in Seq(Reading(Kinds)) /\ items \in Nat
      /\ ToSet(data) \subseteq ToSet(j.sys) \cup ToSet(j.procs)
      /\ j.format # "prometheus" => ToSet(data) = ToSet(j.sys) \cup ToSet(j.procs) /\ items = Len(data)
  BY <1>2, RenderingIs
<1>4. i \in Job
  <2>1. << >> \in Seq(Reading({"system"})) /\ << >> \in Seq(Reading({"processes"}))
    OBVIOUS
  <2> QED
    BY <1>1, <1>3, <2>1 DEF Job
<1>5. /\ Moves(j, i, "write") /\ i.sys = << >> /\ i.procs = << >> /\ i.data = data
      /\ i.items = items /\ i.success = j.success
  BY <1>1 DEF Moves, Job
<1> HIDE DEF i
<1>6. ~j.success /\ j.error = "none"
  BY DEF ExportInv, Answered
<1>7. Told(i)
  BY <1>3, <1>5, NoElements DEF ExportInv, Told, InRange, Moves
<1>8. Staged(i)
  BY <1>5 DEF ExportInv, Staged, Moves
<1>9. FoundSystem(i, a) /\ FoundProcesses(i, b)
  BY <1>5 DEF FoundSystem, FoundProcesses, Moves
<1>10. FoundAll(i, a, b)
  <2>1. j.held \cap a \subseteq ToSet(j.sys) /\ j.held \cap b \subseteq ToSet(j.procs)
    BY DEF ExportInv, Found, FoundSystem, FoundProcesses
  <2> QED
    BY <1>3, <1>5, <2>1 DEF FoundAll, Moves
<1>11. Answered(i)
  BY <1>5, <1>6 DEF Answered, Moves
<1> QED
  BY <1>4, <1>5, <1>7, <1>8, <1>9, <1>10, <1>11, MovesOn DEF ExportInv, Found, i

LEMMA OpenedJob ==
  ASSUME NEW a, NEW b, NEW n, NEW j, ExportInv(j, a, b, n), j.pc = "write", j.destination = "file"
  PROVE  ExportInv([j EXCEPT !.pc = "writing"], a, b, n)
<1> DEFINE i == [j EXCEPT !.pc = "writing"]
<1>1. j \in Job
  BY DEF ExportInv
<1>2. i \in Job
  BY <1>1 DEF Job
<1>3. /\ Moves(j, i, "writing") /\ i.sys = j.sys /\ i.procs = j.procs /\ i.data = j.data
      /\ i.items = j.items /\ i.success = j.success
  BY <1>1 DEF Moves, Job
<1> HIDE DEF i
<1>4. ~j.success /\ j.error = "none"
  BY DEF ExportInv, Answered
<1>5. Told(i) /\ Staged(i)
  BY <1>3 DEF ExportInv, Told, InRange, Staged, Moves
<1>6. Found(i, a, b)
  BY <1>3 DEF ExportInv, Found, FoundSystem, FoundProcesses, FoundAll, Rendered, Moves
<1>7. Answered(i)
  BY <1>3, <1>4 DEF Answered, Moves
<1> QED
  BY <1>2, <1>3, <1>5, <1>6, <1>7, MovesOn DEF ExportInv, i

LEMMA DoneJob ==
  ASSUME NEW a, NEW b, NEW n, NEW j, ExportInv(j, a, b, n), j.pc \in {"write", "writing"}
  PROVE  ExportInv([j EXCEPT !.pc = "done", !.success = TRUE], a, b, n)
<1> DEFINE i == [j EXCEPT !.pc = "done", !.success = TRUE]
<1>1. j \in Job
  BY DEF ExportInv
<1>2. i \in Job
  BY <1>1 DEF Job
<1>3. /\ Moves(j, i, "done") /\ i.sys = j.sys /\ i.procs = j.procs /\ i.data = j.data
      /\ i.items = j.items /\ i.success = TRUE
  BY <1>1 DEF Moves, Job
<1> HIDE DEF i
<1>4. j.error = "none"
  BY DEF ExportInv, Answered
<1>5. Told(i) /\ Staged(i)
  BY <1>3 DEF ExportInv, Told, InRange, Staged, Moves
<1>6. Found(i, a, b)
  BY <1>3 DEF ExportInv, Found, FoundSystem, FoundProcesses, FoundAll, Rendered, Moves
<1>7. Answered(i)
  BY <1>3, <1>4 DEF Answered, Moves
<1> QED
  BY <1>2, <1>3, <1>5, <1>6, <1>7, MovesOn DEF ExportInv, i

-----------------------------------------------------------------------------
(***************************************************************************)
(* All exports, while collections save and delete beside them.             *)
(***************************************************************************)
JobsInv ==
  /\ job \in [Exporters -> Job]
  /\ \A e \in Exporters : ExportInv(job[e], ToSet(systems), ToSet(processes), clock)

\* Nothing that was held comes back once it is gone.
LEMMA NothingReturns ==
  ASSUME NEW a, NEW b, NEW n \in Nat, NEW j, ExportInv(j, a, b, n),
         NEW c, NEW d, NEW m \in Nat, n <= m,
         \A s \in j.held : (s \in c => s \in a) /\ (s \in d => s \in b),
         Fresh(j, d, m)
  PROVE  ExportInv(j, c, d, m)
<1>1. Asked(j, m)
  <2>1. \A s \in j.held : s.time \in Nat
    BY DEF ExportInv, Job, Reading
  <2>2. \A s \in j.held : s.time <= n
    BY DEF ExportInv, Asked
  <2>3. \A s \in j.held : s.time <= m
    BY <2>1, <2>2
  <2> QED
    BY <2>3 DEF ExportInv, Asked
<1>2. j.held \cap c \subseteq j.held \cap a /\ j.held \cap d \subseteq j.held \cap b
  OBVIOUS
<1>3. Found(j, c, d)
  <2>1. FoundSystem(j, c) /\ FoundProcesses(j, d)
    BY <1>2 DEF ExportInv, Found, FoundSystem, FoundProcesses
  <2>2. FoundAll(j, c, d)
    BY <1>2 DEF ExportInv, Found, FoundAll
  <2> QED
    BY <2>1, <2>2 DEF Found
<1> QED
  BY <1>1, <1>3 DEF ExportInv

LEMMA HeldTimes ==
  ASSUME NEW a, NEW b, NEW n \in Nat, NEW j, ExportInv(j, a, b, n)
  PROVE  \A s \in j.held : s.time \in Nat /\ s.time <= n
<1>1. j.held \subseteq Reading(Kinds) /\ \A s \in j.held : s.time <= n
  BY DEF ExportInv, Asked, Job
<1>2. \A s \in Reading(Kinds) : s.time \in Nat
  BY DEF Reading
<1> QED
  BY <1>1, <1>2

LEMMA SaveSystemJobs == ASSUME LogsInv, JobsInv, X!SaveSystem PROVE JobsInv'
<1>1. /\ clock' = clock + 1 /\ processes' = processes
      /\ ToSet(systems') \subseteq ToSet(systems) \cup {At(clock + 1)}
  BY SaveSystemLogs
<1>2. job' = job
  BY DEF X!SaveSystem
<1>3. clock \in Nat
  BY DEF LogsInv
<1>4. ASSUME NEW e \in Exporters
      PROVE  ExportInv(job[e], ToSet(systems'), ToSet(processes'), clock')
  <2>1. ExportInv(job[e], ToSet(systems), ToSet(processes), clock)
    BY DEF JobsInv
  <2>2. \A s \in job[e].held : s.time \in Nat /\ s.time <= clock
    BY <1>3, <2>1, HeldTimes
  <2>3. At(clock + 1) \notin job[e].held
    <3>1. At(clock + 1).time = clock + 1
      BY <1>3, AtIsReading
    <3> QED
      BY <1>3, <2>2, <3>1
  <2>4. \A s \in job[e].held : s.time # clock'
    BY <1>1, <1>3, <2>2
  <2>5. Fresh(job[e], ToSet(processes'), clock')
    BY <2>4 DEF Fresh
  <2>6. clock' \in Nat /\ clock <= clock'
    BY <1>1, <1>3
  <2>7. \A s \in job[e].held : (s \in ToSet(systems') => s \in ToSet(systems))
                               /\ (s \in ToSet(processes') => s \in ToSet(processes))
    BY <1>1, <2>3
  <2> QED
    BY <1>3, <2>1, <2>5, <2>6, <2>7, NothingReturns
<1> QED
  BY <1>2, <1>4 DEF JobsInv

LEMMA SaveProcessesJobs == ASSUME LogsInv, JobsInv, X!SaveProcesses PROVE JobsInv'
<1>1. /\ clock' = clock /\ systems' = systems
      /\ \A s \in ToSet(processes) : s.time < clock
      /\ \A s \in ToSet(processes') : s \in ToSet(processes) \/ s.time = clock
      /\ \A s \in ToSet(processes') : s.kind = "processes"
  <2>1. LogsInv'
    BY SaveProcessesLogs
  <2>2. \A s \in ToSet(processes') : s.kind = "processes"
    <3>1. ToSet(processes') \subseteq Reading({"processes"})
      BY <2>1, ElementsType DEF LogsInv
    <3> QED
      BY <3>1 DEF Reading
  <2> QED
    BY <2>2, SaveProcessesLogs
<1>2. job' = job
  BY DEF X!SaveProcesses
<1>3. clock \in Nat
  BY DEF LogsInv
<1>4. ASSUME NEW e \in Exporters
      PROVE  ExportInv(job[e], ToSet(systems'), ToSet(processes'), clock')
  <2>1. ExportInv(job[e], ToSet(systems), ToSet(processes), clock)
    BY DEF JobsInv
  <2>2. ASSUME NEW s \in job[e].held, s.kind = "processes" PROVE s.time # clock
    <3>1. SUFFICES ASSUME s.time = clock PROVE FALSE
      OBVIOUS
    <3>2. s \in ToSet(processes)
      BY <2>1, <2>2, <3>1 DEF ExportInv, Fresh
    <3> QED
      BY <1>1, <1>3, <3>1, <3>2
  <2>3. Fresh(job[e], ToSet(processes'), clock')
    BY <1>1, <2>2 DEF Fresh
  <2>4. \A s \in job[e].held : (s \in ToSet(systems') => s \in ToSet(systems))
                               /\ (s \in ToSet(processes') => s \in ToSet(processes))
    BY <1>1, <2>2
  <2> QED
    BY <1>1, <1>3, <2>1, <2>3, <2>4, NothingReturns
<1> QED
  BY <1>2, <1>4 DEF JobsInv

LEMMA DeleteJobs == ASSUME LogsInv, JobsInv, X!DeleteOldMetrics PROVE JobsInv'
<1>1. /\ clock' = clock /\ ToSet(systems') \subseteq ToSet(systems)
      /\ ToSet(processes') \subseteq ToSet(processes)
      /\ \A s \in ToSet(processes) : s.time = clock => s \in ToSet(processes')
  BY DeleteLogs
<1>2. job' = job
  BY DEF X!DeleteOldMetrics
<1>3. clock \in Nat
  BY DEF LogsInv
<1>4. ASSUME NEW e \in Exporters
      PROVE  ExportInv(job[e], ToSet(systems'), ToSet(processes'), clock')
  <2>1. ExportInv(job[e], ToSet(systems), ToSet(processes), clock)
    BY DEF JobsInv
  <2>2. Fresh(job[e], ToSet(processes'), clock')
    BY <1>1, <2>1 DEF ExportInv, Fresh
  <2>3. \A s \in job[e].held : (s \in ToSet(systems') => s \in ToSet(systems))
                               /\ (s \in ToSet(processes') => s \in ToSet(processes))
    BY <1>1
  <2> QED
    BY <1>1, <1>3, <2>1, <2>2, <2>3, NothingReturns
<1> QED
  BY <1>2, <1>4 DEF JobsInv

\* A step of one export concerns no other.
LEMMA OneJob ==
  ASSUME JobsInv, UNCHANGED <<systems, processes, clock>>, NEW e \in Exporters, NEW i,
         job' = [job EXCEPT ![e] = i], ExportInv(i, ToSet(systems), ToSet(processes), clock)
  PROVE  JobsInv'
<1>1. i \in Job
  BY DEF ExportInv
<1>2. job \in [Exporters -> Job]
  BY DEF JobsInv
<1>3. job' \in [Exporters -> Job]
  BY <1>1, <1>2
<1>4. ASSUME NEW f \in Exporters
      PROVE  ExportInv(job'[f], ToSet(systems'), ToSet(processes'), clock')
  <2>1. job'[f] = IF f = e THEN i ELSE job[f]
    BY <1>2
  <2> QED
    BY <2>1 DEF JobsInv
<1> QED
  BY <1>3, <1>4 DEF JobsInv

\* What Finished makes of an export.
LEMMA FinishedJobs ==
  ASSUME LogsInv, JobsInv, UNCHANGED <<systems, processes, clock>>, NEW e \in Exporters,
         NEW error \in {"none", "DATA_COLLECTION_ERROR", "EXPORT_ERROR"}, job' = X!Finished(e, error),
         error = "none" => job[e].pc \in {"write", "writing"}
  PROVE  JobsInv'
<1>1. ExportInv(job[e], ToSet(systems), ToSet(processes), clock) /\ clock \in Nat
  BY DEF JobsInv, LogsInv
<1>2. CASE error = "none"
  <2> DEFINE i == [job[e] EXCEPT !.pc = "done", !.success = TRUE]
  <2>1. job' = [job EXCEPT ![e] = i]
    BY <1>2 DEF X!Finished
  <2>2. ExportInv(i, ToSet(systems), ToSet(processes), clock)
    <3> DEFINE j == job[e]
               a == ToSet(systems)
               b == ToSet(processes)
    <3>1. j.pc \in {"write", "writing"}
      BY <1>2
    <3> HIDE DEF j, a, b
    <3> QED
      BY <1>1, <3>1, DoneJob DEF j, a, b
  <2> HIDE DEF i
  <2> QED
    BY <2>1, <2>2, OneJob
<1>3. CASE error # "none"
  <2> DEFINE i == [X!Idle EXCEPT !.pc = "done", !.error = error]
  <2>1. job' = [job EXCEPT ![e] = i]
    BY <1>3 DEF X!Finished
  <2>2. ExportInv(i, ToSet(systems), ToSet(processes), clock)
    BY <1>1, <1>3, FailedJob
  <2> HIDE DEF i
  <2> QED
    BY <2>1, <2>2, OneJob
<1> QED
  BY <1>2, <1>3

LEMMA RangesType ==
  ASSUME clock \in Nat, NEW range \in X!TimeRanges
  PROVE  range[1] \in Nat /\ range[2] \in Nat
<1>1. CASE range = <<0, clock>>
  BY <1>1
<1>2. CASE range \in Since \X Until
  BY <1>2, ExportsAssumption
<1> QED
  BY <1>1, <1>2 DEF X!TimeRanges

LEMMA RequestJobs == ASSUME LogsInv, JobsInv, NEW e \in Exporters, X!Request(e) PROVE JobsInv'
<1> DEFINE a == ToSet(systems)
           b == ToSet(processes)
           first(parts) == IF "system" \in parts THEN "system"
                           ELSE IF "processes" \in parts THEN "processes" ELSE "render"
           refused == [X!Idle EXCEPT !.pc = "refused"]
           held(parts, from, to) == {s \in X!Within2(from, to) : s.kind \in parts}
           asked(f, d, p, parts, from, to) ==
             Requested(first(parts), f, d, p, parts, from, to, held(parts, from, to))
<1>1. clock \in Nat
  BY DEF LogsInv
<1>2. UNCHANGED <<systems, processes, clock>>
  BY DEF X!Request, X!repository
<1>3. PICK f \in Formats, d \in Destinations, p \in Paths \cup {"none"}, parts \in PartsAsked,
           range \in X!TimeRanges :
        job' = [job EXCEPT ![e] = IF ~X!ExportValid(f, d, p) THEN refused
                                  ELSE asked(f, d, p, parts, range[1], range[2])]
  BY DEF X!Request, Requested
<1>4. PICK from \in Nat, to \in Nat : from = range[1] /\ to = range[2]
  BY <1>1, RangesType
<1>5. CASE ~X!ExportValid(f, d, p)
  <2>1. job' = [job EXCEPT ![e] = refused]
    BY <1>3, <1>5
  <2>2. ExportInv(refused, a, b, clock)
    BY <1>1, IdleJob
  <2> HIDE DEF refused
  <2> QED
    BY <1>2, <2>1, <2>2, OneJob
<1>6. CASE X!ExportValid(f, d, p)
  <2> DEFINE pc == first(parts)
             h == held(parts, from, to)
             i == Requested(pc, f, d, p, parts, from, to, h)
  <2>1. job' = [job EXCEPT ![e] = i]
    BY <1>3, <1>4, <1>6
  <2>2. parts \in SUBSET Kinds
    BY ExportsAssumption DEF Kinds
  <2>3. a \cup b \subseteq Reading(Kinds)
    <3>1. a \subseteq Reading({"system"}) /\ b \subseteq Reading({"processes"})
      BY ElementsType DEF LogsInv
    <3> QED
      BY <3>1 DEF Reading, Kinds
  <2>4. (\A s \in a : s.time <= clock /\ s.kind = "system") /\ (\A s \in b : s.time <= clock /\ s.kind = "processes")
    BY SystemTimes, ProcessTimes
  <2>5. /\ pc = IF "system" \in parts THEN "system"
               ELSE IF "processes" \in parts THEN "processes" ELSE "render"
        /\ h = {s \in a \cup b : from <= s.time /\ s.time <= to /\ s.kind \in parts}
    BY StoredIn
  <2> HIDE DEF a, b, pc, h
  <2>6. ExportInv(i, a, b, clock)
    BY <1>1, <1>6, <2>2, <2>3, <2>4, <2>5, RequestedJob
  <2> HIDE DEF i
  <2> QED
    BY <1>2, <2>1, <2>6, OneJob DEF a, b
<1> QED
  BY <1>5, <1>6

LEMMA QueryJobs ==
  ASSUME LogsInv, JobsInv, NEW e \in Exporters, X!QuerySystem(e) \/ X!QueryProcesses(e)
  PROVE  JobsInv'
<1> DEFINE j == job[e]
           a == ToSet(systems)
           b == ToSet(processes)
<1>1. clock \in Nat /\ ExportInv(j, a, b, clock)
  BY DEF LogsInv, JobsInv
<1>2. UNCHANGED <<systems, processes, clock>>
  BY DEF X!QuerySystem, X!QueryProcesses, X!repository
<1>3. (\A s \in a : s.time \in Nat /\ s.kind = "system") /\ (\A s \in b : s.time \in Nat /\ s.kind = "processes")
  BY SystemTimes, ProcessTimes
<1>4. CASE job' = X!Finished(e, "DATA_COLLECTION_ERROR")
  BY <1>2, <1>4, FinishedJobs
<1>5. ASSUME X!QuerySystem(e), job' # X!Finished(e, "DATA_COLLECTION_ERROR")
      PROVE  JobsInv'
  <2> DEFINE q == Within(systems, j.from, j.to)
             pc == IF "processes" \in j.parts THEN "processes" ELSE "render"
             i == [j EXCEPT !.sys = q, !.pc = pc]
  <2>1. j.pc = "system" /\ job' = [job EXCEPT ![e] = i]
    BY <1>5, SameWithin DEF X!QuerySystem
  <2>2. q \in Seq(Reading({"system"})) /\ ToSet(q) = {x \in a : j.from <= x.time /\ x.time <= j.to}
    BY WithinElements DEF LogsInv
  <2> HIDE DEF q, a, b, j
  <2>3. ExportInv(i, a, b, clock)
    BY <1>1, <1>3, <2>1, <2>2, QueriedSystem
  <2> HIDE DEF i
  <2> QED
    BY <1>2, <2>1, <2>3, OneJob DEF a, b
<1>6. ASSUME X!QueryProcesses(e), job' # X!Finished(e, "DATA_COLLECTION_ERROR")
      PROVE  JobsInv'
  <2> DEFINE q == Within(processes, j.from, j.to)
             i == [j EXCEPT !.procs = q, !.pc = "render"]
  <2>1. j.pc = "processes" /\ job' = [job EXCEPT ![e] = i]
    BY <1>6, SameWithin DEF X!QueryProcesses
  <2>2. q \in Seq(Reading({"processes"})) /\ ToSet(q) = {x \in b : j.from <= x.time /\ x.time <= j.to}
    BY WithinElements DEF LogsInv
  <2> HIDE DEF q, a, b, j
  <2>3. ExportInv(i, a, b, clock)
    BY <1>1, <1>3, <2>1, <2>2, QueriedProcesses
  <2> HIDE DEF i
  <2> QED
    BY <1>2, <2>1, <2>3, OneJob DEF a, b
<1> QED
  BY <1>4, <1>5, <1>6

LEMMA RenderJobs == ASSUME LogsInv, JobsInv, NEW e \in Exporters, X!Render(e) PROVE JobsInv'
<1> DEFINE j == job[e]
           a == ToSet(systems)
           b == ToSet(processes)
           data == X!Rendering(j.format, j.sys, j.procs)
           items == X!ItemsExported(j.format, j.sys, j.procs)
           i == [j EXCEPT !.pc = "write", !.sys = << >>, !.procs = << >>, !.data = data, !.items = items]
<1>1. ExportInv(j, a, b, clock) /\ j.pc = "render"
  BY DEF JobsInv, X!Render
<1>2. UNCHANGED <<systems, processes, clock>>
  BY DEF X!Render, X!repository
<1>3. job' = [job EXCEPT ![e] = i] \/ job' = X!Finished(e, "EXPORT_ERROR")
  BY DEF X!Render
<1> HIDE DEF a, b, data, items, j
<1>4. ExportInv(i, a, b, clock)
  BY <1>1, RenderedJob DEF data, items
<1> HIDE DEF i
<1>5. CASE job' = [job EXCEPT ![e] = i]
  BY <1>2, <1>4, <1>5, OneJob DEF a, b
<1>6. CASE job' = X!Finished(e, "EXPORT_ERROR")
  BY <1>2, <1>6, FinishedJobs
<1> QED
  BY <1>3, <1>5, <1>6

LEMMA WriteJobs ==
  ASSUME LogsInv, JobsInv, NEW e \in Exporters,
         X!RefuseFile(e) \/ X!OpenFile(e) \/ X!WriteFile(e) \/ X!PostHTTP(e) \/ X!PutS3(e)
  PROVE  JobsInv'
<1>1. UNCHANGED <<systems, processes, clock>>
  BY DEF X!RefuseFile, X!OpenFile, X!WriteFile, X!PostHTTP, X!PutS3, X!repository
<1>2. CASE job' = X!Finished(e, "EXPORT_ERROR")
  BY <1>1, <1>2, FinishedJobs
<1>3. ASSUME job' = X!Finished(e, "none"), job[e].pc \in {"write", "writing"} PROVE JobsInv'
  BY <1>1, <1>3, FinishedJobs
<1>4. CASE X!OpenFile(e)
  <2> DEFINE i == [job[e] EXCEPT !.pc = "writing"]
  <2>1. job' = [job EXCEPT ![e] = i] /\ job[e].pc = "write" /\ job[e].destination = "file"
    BY <1>4 DEF X!OpenFile
  <2>2. ExportInv(job[e], ToSet(systems), ToSet(processes), clock)
    BY DEF JobsInv
  <2>3. ExportInv(i, ToSet(systems), ToSet(processes), clock)
    BY <2>1, <2>2, OpenedJob
  <2> HIDE DEF i
  <2> QED
    BY <1>1, <2>1, <2>3, OneJob
<1>5. CASE X!WriteFile(e)
  BY <1>2, <1>3, <1>5 DEF X!WriteFile
<1>6. CASE X!PostHTTP(e)
  BY <1>2, <1>3, <1>6 DEF X!PostHTTP
<1>7. CASE X!RefuseFile(e) \/ X!PutS3(e)
  BY <1>2, <1>7 DEF X!RefuseFile, X!PutS3
<1> QED
  BY <1>4, <1>5, <1>6, <1>7

-----------------------------------------------------------------------------
(***************************************************************************)
(* The files.  One that is not spoiled has one writer at most, is empty    *)
(* from its opening to its writing and then holds what its writer wrote.   *)
(***************************************************************************)
OneWriter(p) == \A e, f \in X!Writing(p) : e = f
EmptyMeanwhile(p) == X!Writing(p) # {} => disk[p] = << >>
WholeFile(p) ==
  X!Writing(p) = {} /\ disk[p] # << >> =>
    \E e \in Exporters :
      job[e].success /\ job[e].destination = "file" /\ job[e].path = p /\ disk[p] = job[e].data

FilesInv ==
  /\ disk \in [Paths -> Seq(Reading(Kinds))]
  /\ \A p \in Paths \ spoiled : OneWriter(p) /\ EmptyMeanwhile(p) /\ WholeFile(p)

LEMMA FilesStay == ASSUME FilesInv, UNCHANGED <<job, disk, spoiled>> PROVE FilesInv'
BY DEF FilesInv, OneWriter, EmptyMeanwhile, WholeFile, X!Writing

\* An export that is neither at a file nor done concerns no file.
LEMMA FilesApart ==
  ASSUME JobsInv, FilesInv, UNCHANGED <<disk, spoiled>>, NEW e \in Exporters, NEW i,
         job' = [job EXCEPT ![e] = i], job[e].pc \notin {"writing", "done"}, i.pc # "writing"
  PROVE  FilesInv'
<1>1. job'[e] = i /\ \A f \in Exporters : f # e => job'[f] = job[f]
  BY DEF JobsInv
<1>2. ~job[e].success
  BY DEF JobsInv, ExportInv, Answered
<1>3. \A p : X!Writing(p)' = X!Writing(p)
  BY <1>1 DEF X!Writing
<1>4. ASSUME NEW p \in Paths \ spoiled', WholeFile(p) PROVE WholeFile(p)'
  <2> SUFFICES ASSUME X!Writing(p)' = {}, disk'[p] # << >>
               PROVE  \E f \in Exporters : /\ job'[f].success /\ job'[f].destination = "file"
                                           /\ job'[f].path = p /\ disk'[p] = job'[f].data
    BY DEF WholeFile
  <2>1. PICK f \in Exporters :
          job[f].success /\ job[f].destination = "file" /\ job[f].path = p /\ disk[p] = job[f].data
    BY <1>3, <1>4 DEF WholeFile
  <2>2. f # e
    BY <1>2, <2>1
  <2> QED
    BY <1>1, <2>1, <2>2
<1>5. ASSUME NEW p \in Paths \ spoiled' PROVE OneWriter(p)' /\ EmptyMeanwhile(p)' /\ WholeFile(p)'
  <2>1. OneWriter(p) /\ EmptyMeanwhile(p) /\ WholeFile(p)
    BY DEF FilesInv
  <2>2. OneWriter(p)' /\ EmptyMeanwhile(p)'
    BY <1>3, <2>1 DEF OneWriter, EmptyMeanwhile
  <2> QED
    BY <1>4, <2>1, <2>2
<1> QED
  BY <1>5 DEF FilesInv

LEMMA OtherFiles ==
  ASSUME JobsInv, FilesInv, NEW e \in Exporters, NEW i, job' = [job EXCEPT ![e] = i],
         i.path = job[e].path \/ i.pc # "writing", ~job[e].success,
         NEW p \in Paths \ spoiled, disk'[p] = disk[p], p # job[e].path
  PROVE  OneWriter(p)' /\ EmptyMeanwhile(p)' /\ WholeFile(p)'
<1>1. job'[e] = i /\ \A f \in Exporters : f # e => job'[f] = job[f]
  BY DEF JobsInv
<1>2. X!Writing(p)' = X!Writing(p)
  BY <1>1 DEF X!Writing
<1>3. OneWriter(p) /\ EmptyMeanwhile(p) /\ WholeFile(p)
  BY DEF FilesInv
<1>4. OneWriter(p)' /\ EmptyMeanwhile(p)'
  BY <1>2, <1>3 DEF OneWriter, EmptyMeanwhile
<1>5. WholeFile(p)'
  <2> SUFFICES ASSUME X!Writing(p)' = {}, disk'[p] # << >>
               PROVE  \E f \in Exporters : /\ job'[f].success /\ job'[f].destination = "file"
                                           /\ job'[f].path = p /\ disk'[p] = job'[f].data
    BY DEF WholeFile
  <2>1. PICK f \in Exporters :
          job[f].success /\ job[f].destination = "file" /\ job[f].path = p /\ disk[p] = job[f].data
    BY <1>2, <1>3 DEF WholeFile
  <2>2. f # e
    BY <2>1
  <2> QED
    BY <1>1, <2>1, <2>2
<1> QED
  BY <1>4, <1>5

LEMMA OpenFiles == ASSUME JobsInv, FilesInv, NEW e \in Exporters, X!OpenFile(e) PROVE FilesInv'
<1> DEFINE i == [job[e] EXCEPT !.pc = "writing"]
<1>1. PICK q \in Paths : q = job[e].path
  BY DEF X!OpenFile, JobsInv, ExportInv, Staged
<1>2. /\ job[e].pc = "write" /\ job[e].destination = "file" /\ job' = [job EXCEPT ![e] = i]
      /\ disk' = [disk EXCEPT ![q] = << >>]
      /\ spoiled' = IF X!Writing(q) # {} THEN spoiled \cup {q} ELSE spoiled \ {q}
  BY <1>1 DEF X!OpenFile
<1>3. job[e] \in Job /\ ~job[e].success
  BY <1>2 DEF JobsInv, ExportInv, Answered
<1>4. i.path = q /\ i.pc = "writing"
  BY <1>1, <1>3 DEF Job
<1> HIDE DEF i
<1>5. job'[e] = i /\ \A f \in Exporters : f # e => job'[f] = job[f]
  BY <1>2 DEF JobsInv
<1>6. disk' \in [Paths -> Seq(Reading(Kinds))] /\ disk'[q] = << >>
  <2>1. << >> \in Seq(Reading(Kinds)) /\ disk \in [Paths -> Seq(Reading(Kinds))]
    BY DEF FilesInv
  <2> QED
    BY <1>2, <1>3, <2>1
<1>7. ASSUME NEW p \in Paths \ spoiled', p # q
      PROVE  OneWriter(p)' /\ EmptyMeanwhile(p)' /\ WholeFile(p)'
  <2>1. p \in Paths \ spoiled
    BY <1>2, <1>7
  <2>2. disk'[p] = disk[p]
    BY <1>2, <1>7 DEF FilesInv
  <2> QED
    BY <1>1, <1>2, <1>3, <1>4, <1>7, <2>1, <2>2, OtherFiles
<1>8. ASSUME q \notin spoiled'
      PROVE  OneWriter(q)' /\ EmptyMeanwhile(q)' /\ WholeFile(q)'
  <2>1. X!Writing(q) = {}
    BY <1>2, <1>8
  <2>2. X!Writing(q)' = {e}
    BY <1>4, <1>5, <2>1 DEF X!Writing
  <2> QED
    BY <1>6, <2>2 DEF OneWriter, EmptyMeanwhile, WholeFile
<1> QED
  BY <1>6, <1>7, <1>8 DEF FilesInv

\* Writing into an empty file leaves what is written.
LEMMA OverlayNothing ==
  ASSUME NEW S, NEW data \in Seq(S)
  PROVE  X!Overlay(<< >>, data) = data
<1> DEFINE rest == SubSeq(<< >>, Len(data) + 1, Len(<< >>))
<1>1. rest = << >>
  OBVIOUS
<1> HIDE DEF rest
<1>2. data \o rest = data
  BY <1>1
<1> QED
  BY <1>2 DEF X!Overlay, rest

LEMMA OverlayType ==
  ASSUME NEW S, NEW old \in Seq(S), NEW data \in Seq(S)
  PROVE  X!Overlay(old, data) \in Seq(S)
<1> DEFINE rest == SubSeq(old, Len(data) + 1, Len(old))
<1>1. rest \in Seq(S)
  <2>1. \A i \in Len(data) + 1..Len(old) : old[i] \in S
    OBVIOUS
  <2> QED
    BY <2>1, SubSeqProperties
<1> HIDE DEF rest
<1>2. data \o rest \in Seq(S)
  BY <1>1
<1> QED
  BY <1>2 DEF X!Overlay, rest

LEMMA WriteFiles == ASSUME JobsInv, FilesInv, NEW e \in Exporters, X!WriteFile(e) PROVE FilesInv'
<1> DEFINE j == job[e]
           done == [j EXCEPT !.pc = "done", !.success = TRUE]
           failed == [X!Idle EXCEPT !.pc = "done", !.error = "EXPORT_ERROR"]
<1>1. j \in Job /\ j.pc = "writing" /\ ~j.success /\ j.destination = "file" /\ j.path \in Paths
  BY DEF X!WriteFile, JobsInv, ExportInv, Answered, Staged
<1>2. PICK q \in Paths : q = j.path
  BY <1>1
<1>3. disk \in [Paths -> Seq(Reading(Kinds))] /\ disk[q] \in Seq(Reading(Kinds)) /\ j.data \in Seq(Reading(Kinds))
  BY <1>1 DEF FilesInv, Job
<1>4. CASE /\ disk' = [disk EXCEPT ![q] = X!Overlay(@, j.data)]
           /\ job' = X!Finished(e, "none") /\ UNCHANGED spoiled
  <2>1. job' = [job EXCEPT ![e] = done]
    BY <1>4 DEF X!Finished
  <2>2. /\ done.pc = "done" /\ done.success /\ done.destination = "file"
        /\ done.path = q /\ done.data = j.data
    BY <1>1, <1>2 DEF Job
  <2> HIDE DEF done
  <2>3. job'[e] = done /\ \A f \in Exporters : f # e => job'[f] = job[f]
    BY <2>1 DEF JobsInv
  <2>4. disk'[q] = X!Overlay(disk[q], j.data) /\ disk' \in [Paths -> Seq(Reading(Kinds))]
    <3>1. X!Overlay(disk[q], j.data) \in Seq(Reading(Kinds))
      BY <1>3, OverlayType
    <3> QED
      BY <1>1, <1>3, <1>4, <3>1
  <2>5. ASSUME NEW p \in Paths \ spoiled', p # q
        PROVE  OneWriter(p)' /\ EmptyMeanwhile(p)' /\ WholeFile(p)'
    <3>1. disk'[p] = disk[p] /\ p \in Paths \ spoiled
      BY <1>3, <1>4, <2>5
    <3> QED
      BY <1>1, <1>2, <2>1, <2>2, <2>5, <3>1, OtherFiles
  <2>6. ASSUME q \notin spoiled'
        PROVE  OneWriter(q)' /\ EmptyMeanwhile(q)' /\ WholeFile(q)'
    <3>1. OneWriter(q) /\ EmptyMeanwhile(q) /\ e \in X!Writing(q)
      BY <1>1, <1>2, <1>4, <2>6 DEF FilesInv, X!Writing
    <3>2. X!Writing(q) = {e} /\ disk[q] = << >>
      BY <3>1 DEF OneWriter, EmptyMeanwhile
    <3>3. X!Writing(q)' = {}
      <4>1. \A f \in Exporters : f # e => ~(job[f].pc = "writing" /\ job[f].path = q)
        BY <3>2 DEF X!Writing
      <4> QED
        BY <2>2, <2>3, <4>1 DEF X!Writing
    <3>4. disk'[q] = j.data
      BY <1>3, <2>4, <3>2, OverlayNothing
    <3>5. WholeFile(q)'
      BY <2>2, <2>3, <3>4 DEF WholeFile
    <3> QED
      BY <3>3, <3>5 DEF OneWriter, EmptyMeanwhile
  <2> QED
    BY <2>4, <2>5, <2>6 DEF FilesInv
<1>5. ASSUME NEW k \in 0..Len(j.data) - 1,
             disk' = [disk EXCEPT ![q] = X!Overlay(@, SubSeq(j.data, 1, k))],
             job' = X!Finished(e, "EXPORT_ERROR"), spoiled' = spoiled \cup {q}
      PROVE  FilesInv'
  <2>1. job' = [job EXCEPT ![e] = failed]
    BY <1>5 DEF X!Finished
  <2>2. failed.pc = "done"
    BY DEF X!Idle
  <2> HIDE DEF failed
  <2>3. disk' \in [Paths -> Seq(Reading(Kinds))]
    <3>1. SubSeq(j.data, 1, k) \in Seq(Reading(Kinds))
      BY <1>3
    <3>2. X!Overlay(disk[q], SubSeq(j.data, 1, k)) \in Seq(Reading(Kinds))
      BY <1>3, <3>1, OverlayType
    <3> QED
      BY <1>1, <1>3, <1>5, <3>2
  <2>4. ASSUME NEW p \in Paths \ spoiled'
        PROVE  OneWriter(p)' /\ EmptyMeanwhile(p)' /\ WholeFile(p)'
    <3>1. disk'[p] = disk[p] /\ p \in Paths \ spoiled /\ p # q
      BY <1>3, <1>5
    <3> QED
      BY <1>1, <1>2, <2>1, <2>2, <3>1, OtherFiles
  <2> QED
    BY <2>3, <2>4 DEF FilesInv
<1> QED
  BY <1>2, <1>4, <1>5 DEF X!WriteFile

-----------------------------------------------------------------------------
(***************************************************************************)
(* The stream.                                                             *)
(***************************************************************************)
LEMMA SamplesCount ==
  ASSUME NEW a \in Nat, NEW b \in Nat, a <= b
  PROVE  IsFiniteSet(Samples(a, b)) /\ Cardinality(Samples(a, b)) = b - a
<1> DEFINE P == {k \in 0..b - a : IsFiniteSet(Samples(a, a + k)) /\ Cardinality(Samples(a, a + k)) = k}
<1>1. 0 \in P
  <2>1. Samples(a, a + 0) = {}
    BY DEF Samples
  <2> QED
    BY <2>1, FS_EmptySet
<1>2. ASSUME NEW k \in 1..b - a, k - 1 \in P PROVE k \in P
  <2>1. Samples(a, a + k) = Samples(a, a + (k - 1)) \cup {At(a + k)}
    <3>1. a + 1..a + k = (a + 1..a + (k - 1)) \cup {a + k}
      OBVIOUS
    <3> QED
      BY <3>1 DEF Samples
  <2>2. At(a + k) \notin Samples(a, a + (k - 1))
    <3>1. SUFFICES ASSUME NEW t \in a + 1..a + (k - 1), At(t) = At(a + k) PROVE FALSE
      BY DEF Samples
    <3>2. t \in Nat /\ a + k \in Nat /\ t # a + k
      OBVIOUS
    <3> QED
      BY <3>1, <3>2, AtIsReading
  <2>3. IsFiniteSet(Samples(a, a + (k - 1))) /\ Cardinality(Samples(a, a + (k - 1))) = k - 1
    BY <1>2
  <2>4. IsFiniteSet(Samples(a, a + k)) /\ Cardinality(Samples(a, a + k)) = (k - 1) + 1
    BY <2>1, <2>2, <2>3, FS_AddElement
  <2> QED
    BY <2>4
<1>3. b - a \in P
  <2> HIDE DEF P
  <2>1. b - a \in Nat
    OBVIOUS
  <2>2. \A k \in 0..b - a : k \in P
    BY <1>1, <1>2, <2>1, InductionUpTo
  <2> QED
    BY <2>1, <2>2
<1>4. a + (b - a) = b
  OBVIOUS
<1> QED
  BY <1>3, <1>4

LEMMA SamplesTimes ==
  ASSUME NEW a \in Nat, NEW b \in Nat
  PROVE  /\ Samples(a, b) \subseteq Reading({"system"})
         /\ \A x \in Samples(a, b) : x.time \in Nat /\ a < x.time /\ x.time <= b /\ x = At(x.time)
         /\ \A t \in Nat : At(t) \in Samples(a, b) <=> a < t /\ t <= b
<1>1. ASSUME NEW x \in Samples(a, b)
      PROVE  x \in Reading({"system"}) /\ x.time \in Nat /\ a < x.time /\ x.time <= b /\ x = At(x.time)
  <2>1. PICK t \in a + 1..b : x = At(t)
    BY DEF Samples
  <2>2. t \in Nat /\ a < t /\ t <= b
    OBVIOUS
  <2> QED
    BY <2>1, <2>2, AtIsReading
<1>2. ASSUME NEW t \in Nat, a < t, t <= b PROVE At(t) \in Samples(a, b)
  <2>1. t \in a + 1..b
    BY <1>2
  <2> QED
    BY <2>1 DEF Samples
<1>3. ASSUME NEW t \in Nat, At(t) \in Samples(a, b) PROVE a < t /\ t <= b
  <2>1. At(t).time = t
    BY AtIsReading
  <2> QED
    BY <1>1, <1>3, <2>1
<1> QED
  BY <1>1, <1>2, <1>3

\* base: the samples up to it are no longer stored.
base == clock - Len(systems)

LEMMA BaseType == ASSUME LogsInv PROVE base \in Nat /\ base + Len(systems) = clock /\ clock \in Nat
<1>1. clock \in Nat /\ Len(systems) \in Nat /\ Len(systems) <= clock
  BY DEF LogsInv, RunTo
<1> QED
  BY <1>1 DEF base

\* The samples of a page, after the first offset of those that end with to.
Beyond(to, offset) == IF to <= base + offset THEN 0 ELSE to - (base + offset)
PageLength(to, offset) == IF BatchSize <= Beyond(to, offset) THEN BatchSize ELSE Beyond(to, offset)

Page(q, to, offset) ==
  /\ q \in Seq(Reading({"system"}))
  /\ Len(q) = PageLength(to, offset)
  /\ \A i \in 1..Len(q) : q[i] = At(base + offset + i)

LEMMA RangeIs ==
  ASSUME LogsInv, NEW to \in Nat, to <= clock
  PROVE  /\ Within(systems, 0, to) \in Seq(Reading({"system"}))
         /\ Len(Within(systems, 0, to)) = Beyond(to, 0)
         /\ \A i \in 1..Beyond(to, 0) : Within(systems, 0, to)[i] = At(base + i)
<1> DEFINE n == Beyond(to, 0)
           I == {i \in 1..Len(systems) : 0 <= systems[i].time /\ systems[i].time <= to}
           q == Kept(systems, I)
<1>1. /\ systems \in Seq(Reading({"system"})) /\ Len(systems) \in Nat
      /\ \A i \in 1..Len(systems) : systems[i] = At(base + i)
  BY DEF LogsInv, RunTo, base
<1>2. base \in Nat /\ base + Len(systems) = clock /\ clock \in Nat
  BY BaseType
<1>3. n \in Nat /\ n <= Len(systems) /\ n = IF to <= base THEN 0 ELSE to - base
  BY <1>1, <1>2 DEF Beyond
<1>4. \A i \in 1..Len(systems) : systems[i].time = base + i
  <2>1. \A i \in 1..Len(systems) : base + i \in Nat
    BY <1>2
  <2> QED
    BY <1>1, <2>1, AtIsReading
<1>5. Between(I, Len(systems), 0, n)
  <2>1. ASSUME NEW i \in 1..Len(systems) PROVE i \in I <=> 0 < i /\ i <= n
    <3>1. i \in I <=> base + i <= to
      BY <1>2, <1>4
    <3> HIDE DEF n, I
    <3> QED
      BY <1>2, <1>3, <3>1
  <2> QED
    BY <2>1 DEF Between
<1>6. Within(systems, 0, to) = q
  BY DEF Within
<1> HIDE DEF n, I, q
<1>7. q \in Seq(Reading({"system"})) /\ Stretch(q, systems, 0, n)
  BY <1>1, <1>3, <1>5, KeptBetween DEF q
<1>8. Len(q) = n /\ \A i \in 1..n : q[i] = systems[i]
  <2>1. Len(q) = n - 0 /\ \A i \in 1..n - 0 : q[i] = systems[0 + i]
    BY <1>7 DEF Stretch
  <2>2. n - 0 = n /\ \A i \in 1..n : 0 + i = i
    BY <1>3
  <2> QED
    BY <2>1, <2>2
<1>9. \A i \in 1..n : q[i] = At(base + i)
  <2>1. \A i \in 1..n : i \in 1..Len(systems)
    BY <1>1, <1>3
  <2> QED
    BY <1>1, <1>8, <2>1
<1> QED
  BY <1>6, <1>7, <1>8, <1>9 DEF n

LEMMA PageIs ==
  ASSUME LogsInv, paged, NEW to \in Nat, to <= clock, NEW offset \in Nat
  PROVE  Page(X!Query(systems, 0, to, BatchSize, offset), to, offset)
<1> DEFINE range == Within(systems, 0, to)
           n == Beyond(to, 0)
           last == IF offset + BatchSize > n THEN n ELSE offset + BatchSize
           q == SubSeq(range, offset + 1, last)
<1>1. /\ range \in Seq(Reading({"system"})) /\ Len(range) = n
      /\ \A i \in 1..n : range[i] = At(base + i)
  BY RangeIs
<1>2. base \in Nat /\ BatchSize \in Nat \ {0}
  BY BaseType, ExportsAssumption
<1>3. X!Query(systems, 0, to, BatchSize, offset) = q
  BY <1>1, SameWithin DEF X!Query
<1>4. n \in Nat /\ n = IF to <= base THEN 0 ELSE to - base
  BY <1>2 DEF Beyond
<1> HIDE DEF range, n
<1>5. last \in Nat /\ last <= n /\ last <= offset + BatchSize /\ (last = n \/ last = offset + BatchSize)
  BY <1>2, <1>4
<1> HIDE DEF last
<1>6. \A i \in offset + 1..last : range[i] \in Reading({"system"})
  <2>1. \A i \in offset + 1..last : i \in 1..Len(range)
    BY <1>1, <1>4, <1>5
  <2> QED
    BY <1>1, <2>1
<1>7. /\ q \in Seq(Reading({"system"}))
      /\ Len(q) = IF offset + 1 <= last THEN last - (offset + 1) + 1 ELSE 0
      /\ \A i \in 1..last - (offset + 1) + 1 : q[i] = range[(offset + 1) + i - 1]
  BY <1>5, <1>6, SubSeqProperties
<1> HIDE DEF q
<1>8. Len(q) = IF offset + 1 <= last THEN last - offset ELSE 0
  BY <1>5, <1>7
<1>9. Beyond(to, offset) = IF n <= offset THEN 0 ELSE n - offset
  BY <1>2, <1>4 DEF Beyond
<1>10. Len(q) = PageLength(to, offset)
  <2>1. CASE last = n
    <3>1. n <= offset + BatchSize
      BY <1>5, <2>1
    <3> QED
      BY <1>2, <1>4, <1>8, <1>9, <2>1, <3>1 DEF PageLength
  <2>2. CASE last = offset + BatchSize
    <3>1. offset + BatchSize <= n
      BY <1>5, <2>2
    <3> QED
      BY <1>2, <1>4, <1>8, <1>9, <2>2, <3>1 DEF PageLength
  <2> QED
    BY <1>5, <2>1, <2>2
<1>11. ASSUME NEW i \in 1..Len(q) PROVE q[i] = At(base + offset + i)
  <2>1. /\ i \in 1..last - (offset + 1) + 1 /\ (offset + 1) + i - 1 = offset + i
        /\ offset + i \in 1..n /\ base + (offset + i) = base + offset + i
    BY <1>2, <1>4, <1>5, <1>8
  <2>2. q[i] = range[offset + i]
    BY <1>7, <2>1
  <2>3. range[offset + i] = At(base + (offset + i))
    BY <1>1, <2>1
  <2> QED
    BY <2>1, <2>2, <2>3
<1> QED
  BY <1>3, <1>7, <1>10, <1>11 DEF Page

StreamState ==
  [pc : {"absent", "idle", "batch", "closed", "cancelled", "failed"}, to : Nat, offset : Nat,
   snapshot : SUBSET Reading({"system"}), written : SUBSET Reading({"system"}),
   inOrder : BOOLEAN, cancelled : BOOLEAN]

\* It began after the sample of lo, and has written offset of those it began
\* with, none of them beyond the next page.
Written(s, b, lo) ==
  /\ lo <= b
  /\ s.snapshot = Samples(lo, s.to)
  /\ s.written \subseteq s.snapshot
  /\ IsFiniteSet(s.written) /\ Cardinality(s.written) = s.offset

PagedInv(s, b) ==
  /\ s.inOrder
  /\ s.pc \in {"batch", "closed", "cancelled"} =>
       /\ \A x \in s.written : x.time <= b + s.offset
       /\ s.offset <= s.to
       /\ \E lo \in 0..s.to : Written(s, b, lo)
  /\ s.pc = "closed" => s.to <= b + s.offset

StreamInv ==
  /\ stream \in StreamState
  /\ stream.pc # "absent" => clock <= MaxStreamTime
  /\ stream.to <= clock
  /\ stream.pc \in {"absent", "idle"} => stream.inOrder /\ stream.offset = 0 /\ stream.written = {}
  /\ paged => PagedInv(stream, base)

\* Evictions only move the base up.
LEMMA BaseMoves ==
  ASSUME NEW s \in StreamState, NEW b \in Nat, NEW c \in Nat, b <= c, PagedInv(s, b)
  PROVE  PagedInv(s, c)
<1>1. s.offset \in Nat /\ s.to \in Nat /\ s.written \subseteq Reading({"system"})
  BY DEF StreamState
<1>2. s.pc \in {"batch", "closed", "cancelled"} => \A x \in s.written : x.time <= c + s.offset
  <2>1. SUFFICES ASSUME s.pc \in {"batch", "closed", "cancelled"}
                 PROVE  \A x \in s.written : x.time <= c + s.offset
    OBVIOUS
  <2>2. \A x \in s.written : x.time \in Nat /\ x.time <= b + s.offset
    BY <1>1, <2>1 DEF PagedInv, Reading
  <2> QED
    BY <1>1, <2>2
<1>3. ASSUME NEW lo \in 0..s.to, Written(s, b, lo) PROVE Written(s, c, lo)
  BY <1>1, <1>3 DEF Written
<1>4. s.pc = "closed" => s.to <= c + s.offset
  BY <1>1 DEF PagedInv
<1> QED
  BY <1>2, <1>3, <1>4 DEF PagedInv

LEMMA LogsMoveStream ==
  ASSUME LogsInv, LogsInv', StreamInv, UNCHANGED <<stream, paged>>,
         clock <= clock', Len(systems') - Len(systems) <= clock' - clock,
         stream.pc # "absent" => clock' <= MaxStreamTime
  PROVE  StreamInv'
<1>1. base \in Nat /\ base' \in Nat /\ base + Len(systems) = clock /\ base' + Len(systems') = clock'
      /\ clock \in Nat /\ clock' \in Nat
  <2>1. clock \in Nat /\ Len(systems) \in Nat /\ Len(systems) <= clock
    BY DEF LogsInv, RunTo
  <2>2. clock' \in Nat /\ Len(systems') \in Nat /\ Len(systems') <= clock'
    BY DEF LogsInv, RunTo
  <2> QED
    BY <2>1, <2>2 DEF base
<1>2. base <= base'
  <2>1. Len(systems) \in Nat /\ Len(systems') \in Nat
    BY DEF LogsInv
  <2> QED
    BY <1>1, <2>1
<1>3. paged => PagedInv(stream, base')
  BY <1>1, <1>2, BaseMoves DEF StreamInv
<1>4. stream.to \in Nat /\ stream.to <= clock'
  <2>1. stream.to \in Nat /\ stream.to <= clock
    BY DEF StreamInv, StreamState
  <2> QED
    BY <1>1, <2>1, SMTT(30)
<1>5. paged' => PagedInv(stream', base')
  BY <1>3
<1> QED
  BY <1>4, <1>5 DEF StreamInv

LEMMA SaveSystemStream == ASSUME LogsInv, StreamInv, X!SaveSystem PROVE StreamInv'
<1>1. LogsInv' /\ clock' = clock + 1 /\ Len(systems') <= Len(systems) + 1
  BY SaveSystemLogs
<1>2. UNCHANGED <<stream, paged>> /\ (stream.pc # "absent" => clock < MaxStreamTime)
  BY DEF X!SaveSystem
<1>3. clock \in Nat /\ MaxStreamTime \in Nat /\ Len(systems) \in Nat /\ Len(systems') \in Nat
  BY <1>1, ExportsAssumption DEF LogsInv
<1>4. clock <= clock' /\ Len(systems') - Len(systems) <= clock' - clock
  BY <1>1, <1>3
<1>5. stream.pc # "absent" => clock' <= MaxStreamTime
  BY <1>1, <1>2, <1>3
<1> QED
  BY <1>1, <1>2, <1>4, <1>5, LogsMoveStream

LEMMA OtherLogsStream ==
  ASSUME LogsInv, StreamInv, X!SaveProcesses \/ X!DeleteOldMetrics
  PROVE  StreamInv'
<1>1. LogsInv' /\ clock' = clock /\ Len(systems') <= Len(systems)
  <2>1. CASE X!SaveProcesses
    <3>1. LogsInv' /\ clock' = clock /\ systems' = systems
      BY <2>1, SaveProcessesLogs
    <3>2. Len(systems) \in Nat
      BY DEF LogsInv
    <3> QED
      BY <3>1, <3>2
  <2>2. CASE X!DeleteOldMetrics
    BY <2>2, DeleteLogs
  <2> QED
    BY <2>1, <2>2
<1>2. UNCHANGED <<stream, paged>>
  BY DEF X!SaveProcesses, X!DeleteOldMetrics
<1>3. clock \in Nat /\ Len(systems) \in Nat /\ Len(systems') \in Nat
  BY <1>1 DEF LogsInv
<1>4. clock <= clock' /\ Len(systems') - Len(systems) <= clock' - clock
  BY <1>1, <1>3
<1>5. stream.pc # "absent" => clock' <= MaxStreamTime
  BY <1>1 DEF StreamInv
<1> QED
  BY <1>1, <1>2, <1>4, <1>5, LogsMoveStream

LEMMA StreamStays ==
  ASSUME StreamInv, UNCHANGED <<systems, clock, paged, stream>>
  PROVE  StreamInv'
<1>1. base' = base
  BY DEF base
<1> QED
  BY <1>1 DEF StreamInv

LEMMA BeginKeeps == ASSUME LogsInv, StreamInv, X!StreamBegin PROVE StreamInv'
<1> DEFINE s == [stream EXCEPT !.pc = "batch", !.to = clock, !.snapshot = ToSet(systems)]
<1>1. stream' = s /\ stream.pc = "idle" /\ UNCHANGED <<systems, clock, paged>>
  BY SameElements DEF X!StreamBegin, X!repository
<1>2. base' = base
  BY <1>1 DEF base
<1>3. base \in Nat /\ clock \in Nat /\ base <= clock
  <2>1. base \in Nat /\ base + Len(systems) = clock /\ Len(systems) \in Nat /\ clock \in Nat
    BY BaseType DEF LogsInv
  <2> QED
    BY <2>1
<1>4. stream \in StreamState /\ ToSet(systems) \subseteq Reading({"system"})
  BY ElementsType DEF StreamInv, LogsInv
<1>5. s \in StreamState
  BY <1>3, <1>4 DEF StreamState
<1>6. /\ s.pc = "batch" /\ s.to = clock /\ s.snapshot = ToSet(systems) /\ s.offset = stream.offset
      /\ s.written = stream.written /\ s.inOrder = stream.inOrder
  BY <1>4 DEF StreamState
<1> HIDE DEF s
<1>7. stream.inOrder /\ stream.offset = 0 /\ stream.written = {} /\ clock <= MaxStreamTime
  BY <1>1 DEF StreamInv
<1>8. ToSet(systems) = Samples(base, clock)
  BY RunElements DEF LogsInv, base
<1>9. Written(s, base, base)
  <2>1. base <= base
    BY <1>3
  <2>2. IsFiniteSet({}) /\ Cardinality({}) = 0
    BY FS_EmptySet
  <2> QED
    BY <1>6, <1>7, <1>8, <2>1, <2>2 DEF Written
<1>10. PagedInv(s, base)
  <2>1. base \in 0..s.to
    BY <1>3, <1>6
  <2>2. s.offset <= s.to
    BY <1>3, <1>6, <1>7
  <2> QED
    BY <1>6, <1>7, <1>9, <2>1, <2>2 DEF PagedInv
<1>11. clock <= clock
  BY <1>3
<1> QED
  BY <1>1, <1>2, <1>5, <1>6, <1>7, <1>10, <1>11 DEF StreamInv

LEMMA CancelKeeps == ASSUME StreamInv, X!Cancel PROVE StreamInv'
<1> DEFINE s == [stream EXCEPT !.cancelled = TRUE]
<1>1. stream' = s /\ UNCHANGED <<systems, clock, paged>>
  BY DEF X!Cancel, X!repository
<1>2. base' = base
  BY <1>1 DEF base
<1>3. stream \in StreamState
  BY DEF StreamInv
<1>4. s \in StreamState
  BY <1>3 DEF StreamState
<1>5. /\ s.pc = stream.pc /\ s.to = stream.to /\ s.snapshot = stream.snapshot /\ s.offset = stream.offset
      /\ s.written = stream.written /\ s.inOrder = stream.inOrder
  BY <1>3 DEF StreamState
<1> HIDE DEF s
<1>6. PagedInv(stream, base) => PagedInv(s, base)
  BY <1>5 DEF PagedInv, Written
<1> QED
  BY <1>1, <1>2, <1>4, <1>5, <1>6 DEF StreamInv

\* q has samples of the page that begins after offset, the first ones.
Leads(q, offset) ==
  q \in Seq(Reading({"system"})) /\ \A i \in 1..Len(q) : q[i] = At(base + offset + i)

\* The samples of a page come after all those written before.
LEMMA InOrder ==
  ASSUME LogsInv, stream \in StreamState, PagedInv(stream, base), stream.pc = "batch",
         NEW q, Leads(q, stream.offset)
  PROVE  /\ X!Emitted(q) = [stream EXCEPT !.written = stream.written \cup ToSet(q), !.inOrder = TRUE]
         /\ ToSet(q) = Samples(base + stream.offset, base + stream.offset + Len(q))
         /\ stream.written \cap ToSet(q) = {}
<1>1. base \in Nat /\ stream.offset \in Nat /\ stream.written \subseteq Reading({"system"})
  BY BaseType DEF StreamState
<1>2. q \in Seq(Reading({"system"})) /\ Len(q) \in Nat /\ \A i \in 1..Len(q) : q[i] = At(base + stream.offset + i)
  BY DEF Leads
<1> DEFINE d == base + stream.offset
<1>3. d \in Nat
  BY <1>1
<1>4. \A x \in stream.written : x.time \in Nat /\ x.time <= d
  BY <1>1 DEF PagedInv, Reading
<1> HIDE DEF d
<1>5. \A i \in 1..Len(q) : q[i].time = d + i
  <2>1. \A i \in 1..Len(q) : d + i \in Nat
    BY <1>3
  <2> QED
    BY <1>2, <2>1, AtIsReading DEF d
<1>6. \A i \in DOMAIN q : \A t \in {s.time : s \in stream.written} : t < q[i].time
  <2>1. DOMAIN q = 1..Len(q)
    BY <1>2
  <2>2. ASSUME NEW i \in 1..Len(q), NEW s \in stream.written PROVE s.time < q[i].time
    BY <1>3, <1>4, <1>5
  <2> QED
    BY <2>1, <2>2
<1>7. X!Emitted(q) = [stream EXCEPT !.written = stream.written \cup ToSet(q), !.inOrder = TRUE]
  <2>1. stream.inOrder = TRUE
    BY DEF PagedInv, StreamState
  <2> QED
    BY <1>6, <2>1, SameElements DEF X!Emitted
<1>8. ToSet(q) = Samples(d, d + Len(q))
  <2>1. ASSUME NEW x \in ToSet(q) PROVE x \in Samples(d, d + Len(q))
    <3>1. PICK i \in 1..Len(q) : q[i] = x
      BY <1>2, ElementsAre
    <3>2. d + i \in d + 1..d + Len(q) /\ x = At(d + i)
      BY <1>2, <1>3, <3>1 DEF d
    <3> QED
      BY <3>2 DEF Samples
  <2>2. ASSUME NEW x \in Samples(d, d + Len(q)) PROVE x \in ToSet(q)
    <3>1. PICK t \in d + 1..d + Len(q) : x = At(t)
      BY DEF Samples
    <3>2. t - d \in 1..Len(q) /\ d + (t - d) = t
      BY <1>2, <1>3
    <3>3. q[t - d] = x
      BY <1>2, <3>1, <3>2 DEF d
    <3> QED
      BY <1>2, <3>2, <3>3, ElementsAre
  <2> QED
    BY <2>1, <2>2
<1>9. stream.written \cap ToSet(q) = {}
  <2>1. SUFFICES ASSUME NEW x \in stream.written, x \in ToSet(q) PROVE FALSE
    OBVIOUS
  <2>2. PICK i \in 1..Len(q) : q[i] = x
    BY <1>2, <2>1, ElementsAre
  <2>3. x.time = d + i /\ x.time <= d /\ i \in Nat /\ 1 <= i
    BY <1>4, <1>5, <2>2
  <2> QED
    BY <1>3, <2>3
<1> QED
  BY <1>7, <1>8, <1>9 DEF d

LEMMA EmittedType ==
  ASSUME stream \in StreamState, NEW q \in Seq(Reading({"system"}))
  PROVE  /\ X!Emitted(q) \in StreamState
         /\ X!Emitted(q).pc = stream.pc /\ X!Emitted(q).to = stream.to /\ X!Emitted(q).offset = stream.offset
<1> DEFINE w == stream.written \cup ToSet(q)
           o == stream.inOrder /\ \A i \in DOMAIN q : \A t \in {s.time : s \in stream.written} : t < q[i].time
<1>1. X!Emitted(q) = [stream EXCEPT !.written = w, !.inOrder = o]
  BY SameElements DEF X!Emitted
<1>2. w \in SUBSET Reading({"system"})
  <2>1. ToSet(q) \subseteq Reading({"system"})
    BY ElementsType
  <2> QED
    BY <2>1 DEF StreamState
<1>3. o \in BOOLEAN
  OBVIOUS
<1> HIDE DEF w, o
<1> QED
  BY <1>1, <1>2, <1>3 DEF StreamState

LEMMA QueryType ==
  ASSUME LogsInv, NEW to \in Nat, to <= clock, NEW offset \in Nat
  PROVE  X!Query(systems, 0, to, BatchSize, offset) \in Seq(Reading({"system"}))
<1>1. CASE paged
  BY <1>1, PageIs DEF Page
<1>2. CASE ~paged
  <2>1. X!Query(systems, 0, to, BatchSize, offset) = Within(systems, 0, to)
    BY <1>2, SameWithin DEF X!Query
  <2> QED
    BY <2>1, RangeIs
<1> QED
  BY <1>1, <1>2

\* A stream that fails in the middle of a batch has written a part of it.
LEMMA FailKeeps ==
  ASSUME LogsInv, StreamInv, UNCHANGED <<systems, clock, paged>>, stream.pc = "batch",
         NEW q \in Seq(Reading({"system"})), paged => Leads(q, stream.offset),
         stream' = [X!Emitted(q) EXCEPT !.pc = "failed"]
  PROVE  StreamInv'
<1> DEFINE r == X!Emitted(q)
           s == [r EXCEPT !.pc = "failed"]
<1>1. stream \in StreamState /\ stream.to <= clock /\ clock <= MaxStreamTime
  BY DEF StreamInv
<1>2. r \in StreamState /\ r.to = stream.to
  BY <1>1, EmittedType
<1>3. s \in StreamState /\ s.pc = "failed" /\ s.to = stream.to /\ s.inOrder = r.inOrder
  BY <1>2 DEF StreamState
<1>4. ASSUME paged PROVE s.inOrder
  <2>1. r = [stream EXCEPT !.written = stream.written \cup ToSet(q), !.inOrder = TRUE]
    BY <1>1, <1>4, InOrder DEF StreamInv
  <2>2. r.inOrder
    BY <1>1, <2>1 DEF StreamState
  <2> QED
    BY <1>3, <2>2
<1> HIDE DEF r, s
<1>5. stream' = s
  BY DEF r, s
<1>6. base' = base
  BY DEF base
<1>7. paged => PagedInv(s, base)
  BY <1>3, <1>4 DEF PagedInv
<1> QED
  BY <1>1, <1>3, <1>5, <1>6, <1>7 DEF StreamInv

\* A page that is written counts what it adds, and a short one is the last.
LEMMA PageKeeps ==
  ASSUME LogsInv, StreamInv, UNCHANGED <<systems, clock, paged>>, stream.pc = "batch", paged,
         NEW q, Page(q, stream.to, stream.offset), NEW pc \in {"batch", "closed", "cancelled"},
         pc = "closed" => Len(q) < BatchSize,
         stream' = [X!Emitted(q) EXCEPT
                      !.offset = IF @ + Len(q) > MaxStreamTime THEN MaxStreamTime ELSE @ + Len(q), !.pc = pc]
  PROVE  StreamInv'
<1> DEFINE offset == stream.offset
           to == stream.to
           more == offset + Len(q)
           r == X!Emitted(q)
           s == [r EXCEPT !.offset = more, !.pc = pc]
<1>1. /\ stream \in StreamState /\ to <= clock /\ clock <= MaxStreamTime
      /\ PagedInv(stream, base)
  BY DEF StreamInv
<1>2. base \in Nat /\ clock \in Nat /\ MaxStreamTime \in Nat /\ BatchSize \in Nat \ {0}
  BY BaseType, ExportsAssumption
<1>3. to \in Nat /\ offset \in Nat /\ offset <= to /\ \A x \in stream.written : x.time <= base + offset
  BY <1>1 DEF StreamState, PagedInv
<1>4. PICK lo \in 0..to : Written(stream, base, lo)
  BY <1>1 DEF PagedInv
<1>5. /\ q \in Seq(Reading({"system"})) /\ Len(q) \in Nat /\ Len(q) = PageLength(to, offset)
      /\ Leads(q, offset)
  BY DEF Page, Leads
<1>6. /\ r = [stream EXCEPT !.written = stream.written \cup ToSet(q), !.inOrder = TRUE]
      /\ ToSet(q) = Samples(base + offset, base + offset + Len(q))
      /\ stream.written \cap ToSet(q) = {}
  BY <1>1, <1>5, InOrder
<1>7. ToSet(q) \subseteq Reading({"system"}) /\ stream.written \cup ToSet(q) \in SUBSET Reading({"system"})
  BY <1>1, <1>5, ElementsType DEF StreamState
<1>8. /\ r \in StreamState /\ r.to = to /\ r.offset = offset /\ r.written = stream.written \cup ToSet(q)
      /\ r.inOrder /\ r.snapshot = stream.snapshot
  BY <1>1, <1>6, <1>7 DEF StreamState
<1> HIDE DEF offset, to, r
<1>9. Len(q) <= Beyond(to, offset) /\ (Len(q) < BatchSize => Len(q) = Beyond(to, offset))
  <2>1. Beyond(to, offset) \in Nat
    BY <1>2, <1>3 DEF Beyond
  <2> QED
    BY <1>2, <1>5, <2>1 DEF PageLength
<1>10. more <= to /\ (Len(q) > 0 => base + more <= to) /\ (Len(q) < BatchSize => to <= base + more)
  BY <1>2, <1>3, <1>5, <1>9 DEF Beyond
<1>11. more \in Nat /\ ~(more > MaxStreamTime)
  BY <1>1, <1>2, <1>3, <1>5, <1>10
<1> HIDE DEF more
<1>12. stream' = s
  BY <1>8, <1>11 DEF more, r
<1>13. /\ s \in StreamState /\ s.pc = pc /\ s.to = to /\ s.offset = more /\ s.inOrder
       /\ s.written = stream.written \cup ToSet(q) /\ s.snapshot = stream.snapshot
  BY <1>8, <1>11 DEF StreamState
<1> HIDE DEF s
<1>14. base + offset \in Nat /\ base + offset + Len(q) \in Nat /\ base + offset + Len(q) = base + more
  BY <1>2, <1>3, <1>5 DEF more
<1>15. \A x \in s.written : x.time <= base + more
  <2>1. ASSUME NEW x \in stream.written PROVE x.time <= base + more
    <3>1. x.time \in Nat /\ x.time <= base + offset
      BY <1>1, <1>3, <2>1 DEF StreamState, Reading
    <3> QED
      BY <1>2, <1>3, <1>5, <3>1 DEF more
  <2>2. ASSUME NEW x \in ToSet(q) PROVE x.time <= base + more
    BY <1>6, <1>14, SamplesTimes
  <2> QED
    BY <1>13, <2>1, <2>2
<1>16. Written(s, base, lo)
  <2>1. /\ lo <= base /\ stream.snapshot = Samples(lo, to) /\ stream.written \subseteq Samples(lo, to)
        /\ IsFiniteSet(stream.written) /\ Cardinality(stream.written) = offset
    BY <1>4 DEF Written, to, offset
  <2>2. ToSet(q) \subseteq Samples(lo, to)
    <3>1. SUFFICES ASSUME NEW x \in ToSet(q) PROVE x \in Samples(lo, to)
      OBVIOUS
    <3>2. x.time \in Nat /\ base + offset < x.time /\ x.time <= base + offset + Len(q) /\ x = At(x.time)
      BY <1>6, <1>14, SamplesTimes
    <3>3. Len(q) > 0
      BY <1>2, <1>3, <1>5, <3>2
    <3>4. lo < x.time /\ x.time <= to /\ lo \in Nat
      BY <1>2, <1>3, <1>10, <1>14, <2>1, <3>2, <3>3
    <3>5. At(x.time) \in Samples(lo, to)
      BY <1>3, <3>2, <3>4, SamplesTimes
    <3> QED
      BY <3>2, <3>5
  <2>3. IsFiniteSet(ToSet(q)) /\ Cardinality(ToSet(q)) = Len(q)
    <3>1. base + offset <= base + offset + Len(q) /\ (base + offset + Len(q)) - (base + offset) = Len(q)
      BY <1>2, <1>3, <1>5
    <3> QED
      BY <1>6, <1>14, <3>1, SamplesCount
  <2>4. IsFiniteSet(s.written) /\ Cardinality(s.written) = more
    <3>1. /\ IsFiniteSet(stream.written \cup ToSet(q))
          /\ Cardinality(stream.written \cup ToSet(q))
               = Cardinality(stream.written) + Cardinality(ToSet(q)) - Cardinality(stream.written \cap ToSet(q))
      BY <2>1, <2>3, FS_Union
    <3>2. Cardinality(stream.written \cap ToSet(q)) = 0
      BY <1>6, FS_EmptySet
    <3> QED
      BY <1>3, <1>5, <1>13, <2>1, <2>3, <3>1, <3>2 DEF more
  <2> QED
    BY <1>13, <2>1, <2>2, <2>4 DEF Written
<1>17. PagedInv(s, base)
  BY <1>10, <1>13, <1>15, <1>16 DEF PagedInv
<1>18. base' = base
  BY DEF base
<1> QED
  BY <1>1, <1>12, <1>13, <1>17, <1>18 DEF StreamInv

\* Without pages nothing is promised but types.
LEMMA WholeKeeps ==
  ASSUME LogsInv, StreamInv, UNCHANGED <<systems, clock, paged>>, stream.pc = "batch", ~paged,
         NEW q \in Seq(Reading({"system"})), NEW pc \in {"batch", "closed", "cancelled"},
         stream' = [X!Emitted(q) EXCEPT
                      !.offset = IF @ + Len(q) > MaxStreamTime THEN MaxStreamTime ELSE @ + Len(q), !.pc = pc]
  PROVE  StreamInv'
<1> DEFINE r == X!Emitted(q)
           more == IF r.offset + Len(q) > MaxStreamTime THEN MaxStreamTime ELSE r.offset + Len(q)
           s == [r EXCEPT !.offset = more, !.pc = pc]
<1>1. stream \in StreamState /\ stream.to <= clock /\ clock <= MaxStreamTime
  BY DEF StreamInv
<1>2. r \in StreamState /\ r.to = stream.to
  BY <1>1, EmittedType
<1>3. stream' = s
  OBVIOUS
<1>4. more \in Nat
  <2>1. r.offset \in Nat /\ Len(q) \in Nat /\ MaxStreamTime \in Nat
    BY <1>2, ExportsAssumption DEF StreamState
  <2> QED
    BY <2>1
<1> HIDE DEF r, more
<1>5. s \in StreamState /\ s.pc = pc /\ s.to = stream.to
  BY <1>2, <1>4 DEF StreamState
<1> HIDE DEF s
<1>6. ~paged'
  OBVIOUS
<1> QED
  BY <1>1, <1>3, <1>5, <1>6 DEF StreamInv

LEMMA BatchKeeps == ASSUME LogsInv, StreamInv, X!StreamBatch PROVE StreamInv'
<1> DEFINE q == X!Query(systems, 0, stream.to, BatchSize, stream.offset)
           pc == CASE Len(q) < BatchSize -> "closed"
                   [] Len(q) >= BatchSize /\ stream.cancelled -> "cancelled"
                   [] OTHER -> "batch"
<1>1. UNCHANGED <<systems, clock, paged>> /\ stream.pc = "batch"
  BY DEF X!StreamBatch, X!repository
<1>2. stream \in StreamState /\ stream.to \in Nat /\ stream.offset \in Nat /\ stream.to <= clock
  BY DEF StreamInv, StreamState
<1>3. q \in Seq(Reading({"system"})) /\ (paged => Page(q, stream.to, stream.offset))
  BY <1>2, QueryType, PageIs
<1>4. \/ stream' = [X!Emitted(q) EXCEPT
             !.offset = IF @ + Len(q) > MaxStreamTime THEN MaxStreamTime ELSE @ + Len(q), !.pc = pc]
      \/ stream' = [stream EXCEPT !.pc = "failed"]
      \/ \E k \in 0..Len(q) : stream' = [X!Emitted(SubSeq(q, 1, k)) EXCEPT !.pc = "failed"]
  BY DEF X!StreamBatch
<1> HIDE DEF q
<1>5. pc \in {"batch", "closed", "cancelled"} /\ (pc = "closed" => Len(q) < BatchSize)
  <2>1. Len(q) < BatchSize \/ Len(q) >= BatchSize
    BY <1>3, ExportsAssumption
  <2> QED
    BY <2>1
<1> HIDE DEF pc
<1>6. CASE stream' = [X!Emitted(q) EXCEPT
             !.offset = IF @ + Len(q) > MaxStreamTime THEN MaxStreamTime ELSE @ + Len(q), !.pc = pc]
  <2>1. CASE paged
    BY <1>1, <1>3, <1>5, <1>6, <2>1, PageKeeps
  <2>2. CASE ~paged
    BY <1>1, <1>3, <1>5, <1>6, <2>2, WholeKeeps
  <2> QED
    BY <2>1, <2>2
<1>7. CASE stream' = [stream EXCEPT !.pc = "failed"]
  <2> DEFINE s == [stream EXCEPT !.pc = "failed"]
  <2>1. s \in StreamState /\ s.pc = "failed" /\ s.to = stream.to /\ s.inOrder = stream.inOrder
    BY <1>2 DEF StreamState
  <2>2. stream' = s
    BY <1>7
  <2> HIDE DEF s
  <2>3. base' = base
    BY <1>1 DEF base
  <2>4. paged => PagedInv(s, base)
    BY <2>1 DEF StreamInv, PagedInv
  <2> QED
    BY <1>1, <2>1, <2>2, <2>3, <2>4 DEF StreamInv
<1>8. ASSUME NEW k \in 0..Len(q), stream' = [X!Emitted(SubSeq(q, 1, k)) EXCEPT !.pc = "failed"]
      PROVE  StreamInv'
  <2> DEFINE p == SubSeq(q, 1, k)
  <2>1. p \in Seq(Reading({"system"})) /\ Len(p) = k /\ \A i \in 1..k : p[i] = q[i]
    BY <1>3
  <2>2. stream' = [X!Emitted(p) EXCEPT !.pc = "failed"]
    BY <1>8
  <2> HIDE DEF p
  <2>3. ASSUME paged PROVE Leads(p, stream.offset)
    <3>1. \A i \in 1..Len(q) : q[i] = At(base + stream.offset + i)
      BY <1>3, <2>3 DEF Page
    <3>2. \A i \in 1..Len(p) : i \in 1..Len(q) /\ p[i] = q[i]
      BY <1>3, <2>1
    <3> QED
      BY <2>1, <3>1, <3>2 DEF Leads
  <2> QED
    BY <1>1, <2>1, <2>2, <2>3, FailKeeps
<1> QED
  BY <1>4, <1>6, <1>7, <1>8

\* What a closed stream has left out are samples that are no longer stored.
LEMMA SkipsOnlyEvicted == ASSUME LogsInv, StreamInv PROVE StreamSkipsOnlyEvicted
<1>1. SUFFICES ASSUME paged, stream.pc = "closed"
               PROVE  Cardinality(stream.snapshot \ stream.written) <= Cardinality(stream.snapshot \ ToSet(systems))
  <2>1. \A s : X!Cardinality(s) = Cardinality(s)
    BY DEF X!Cardinality, Cardinality
  <2>2. paged => stream.inOrder
    BY DEF StreamInv, PagedInv
  <2> QED
    BY <1>1, <2>1, <2>2, SameElements DEF StreamSkipsOnlyEvicted, X!StreamSkipsOnlyEvicted
<1> DEFINE to == stream.to
           offset == stream.offset
           gone == IF base <= to THEN base ELSE to
<1>2. /\ stream \in StreamState /\ to \in Nat /\ offset \in Nat /\ to <= clock
      /\ to <= base + offset /\ offset <= to
  BY <1>1 DEF StreamInv, StreamState, PagedInv
<1>3. PICK lo \in 0..to : Written(stream, base, lo)
  BY <1>1 DEF StreamInv, PagedInv
<1>4. base \in Nat /\ clock \in Nat /\ ToSet(systems) = Samples(base, clock)
  BY BaseType, RunElements DEF LogsInv, base
<1>5. /\ lo <= base /\ stream.snapshot = Samples(lo, to) /\ stream.written \subseteq Samples(lo, to)
      /\ Cardinality(stream.written) = offset
  BY <1>3 DEF Written
<1> HIDE DEF to, offset
<1>6. gone \in Nat /\ lo \in Nat /\ lo <= gone /\ lo <= to /\ to - lo - offset <= gone - lo
  BY <1>2, <1>4, <1>5
<1>7. IsFiniteSet(Samples(lo, to)) /\ Cardinality(Samples(lo, to)) = to - lo
  BY <1>2, <1>6, SamplesCount
<1>8. Cardinality(Samples(lo, to) \ stream.written) = to - lo - offset
  <2>1. Samples(lo, to) \cap stream.written = stream.written
    BY <1>5
  <2>2. Cardinality(Samples(lo, to) \ stream.written)
          = Cardinality(Samples(lo, to)) - Cardinality(Samples(lo, to) \cap stream.written)
    BY <1>7, FS_Difference
  <2> QED
    BY <1>5, <1>7, <2>1, <2>2
<1>9. Samples(lo, to) \ Samples(base, clock) = Samples(lo, gone)
  <2>1. ASSUME NEW x \in Samples(lo, to), x \notin Samples(base, clock) PROVE x \in Samples(lo, gone)
    <3>1. x.time \in Nat /\ lo < x.time /\ x.time <= to /\ x = At(x.time)
      BY <1>2, <1>6, SamplesTimes
    <3>2. ~(base < x.time /\ x.time <= clock)
      BY <1>4, <2>1, <3>1, SamplesTimes
    <3>3. x.time <= gone
      BY <1>2, <1>4, <3>1, <3>2
    <3> HIDE DEF gone
    <3>4. At(x.time) \in Samples(lo, gone)
      BY <1>6, <3>1, <3>3, SamplesTimes
    <3> QED
      BY <3>1, <3>4
  <2>2. ASSUME NEW x \in Samples(lo, gone) PROVE x \in Samples(lo, to) /\ x \notin Samples(base, clock)
    <3> HIDE DEF gone
    <3>1. x.time \in Nat /\ lo < x.time /\ x.time <= gone /\ x = At(x.time)
      BY <1>6, SamplesTimes
    <3>2. x.time <= to /\ ~(base < x.time)
      BY <1>2, <1>4, <3>1 DEF gone
    <3>3. At(x.time) \in Samples(lo, to)
      BY <1>2, <1>6, <3>1, <3>2, SamplesTimes
    <3>4. x \notin Samples(base, clock)
      BY <1>4, <3>2, SamplesTimes
    <3> QED
      BY <3>1, <3>3, <3>4
  <2> HIDE DEF gone
  <2> QED
    BY <2>1, <2>2
<1> HIDE DEF gone
<1>10. Cardinality(Samples(lo, gone)) = gone - lo
  BY <1>6, SamplesCount
<1> QED
  BY <1>4, <1>5, <1>6, <1>8, <1>9, <1>10

-----------------------------------------------------------------------------
(***************************************************************************)
(* The exports and the stream together.                                    *)
(***************************************************************************)
ExportsInv == LogsInv /\ JobsInv /\ FilesInv /\ StreamInv

LEMMA InitExports == X!Init => ExportsInv
<1> SUFFICES ASSUME X!Init PROVE ExportsInv
  OBVIOUS
<1>1. LogsInv
  <2>1. /\ << >> \in Seq(Reading({"system"})) /\ << >> \in Seq(Reading({"processes"})) /\ Len(<< >>) = 0
    OBVIOUS
  <2>2. systems = << >> /\ processes = << >> /\ clock = 0
    BY DEF X!Init
  <2> QED
    BY <2>1, <2>2, NoElements DEF LogsInv, RunTo
<1>2. PICK streaming \in BOOLEAN :
        /\ job = [e \in Exporters |-> [X!Idle EXCEPT !.pc = IF streaming THEN "absent" ELSE "idle"]]
        /\ stream = [pc |-> IF streaming THEN "idle" ELSE "absent", to |-> 0, offset |-> 0,
                     snapshot |-> {}, written |-> {}, inOrder |-> TRUE, cancelled |-> FALSE]
  BY DEF X!Init
<1>3. JobsInv
  <2> DEFINE pc == IF streaming THEN "absent" ELSE "idle"
             i == [X!Idle EXCEPT !.pc = pc]
  <2>1. pc \in {"absent", "idle", "refused"} /\ clock \in Nat
    BY <1>1 DEF LogsInv
  <2>2. job = [e \in Exporters |-> i]
    BY <1>2
  <2> HIDE DEF pc
  <2>3. ExportInv(i, ToSet(systems), ToSet(processes), clock)
    BY <2>1, IdleJob
  <2> HIDE DEF i
  <2>4. i \in Job
    BY <2>3 DEF ExportInv
  <2> QED
    BY <2>2, <2>3, <2>4 DEF JobsInv
<1>4. FilesInv
  <2>1. disk = [p \in Paths |-> << >>] /\ << >> \in Seq(Reading(Kinds))
    BY DEF X!Init
  <2>2. \A p : X!Writing(p) = {}
    <3>1. \A e \in Exporters : job[e].pc # "writing"
      <4> DEFINE pc == IF streaming THEN "absent" ELSE "idle"
                 i == [X!Idle EXCEPT !.pc = pc]
      <4>1. pc # "writing" /\ i.pc = pc /\ \A e \in Exporters : job[e] = i
        BY <1>2 DEF X!Idle
      <4> HIDE DEF pc, i
      <4> QED
        BY <4>1
    <3> QED
      BY <3>1 DEF X!Writing
  <2> QED
    BY <2>1, <2>2 DEF FilesInv, OneWriter, EmptyMeanwhile, WholeFile
<1>5. StreamInv
  <2>1. clock = 0 /\ clock <= MaxStreamTime
    BY ExportsAssumption DEF X!Init
  <2>2. stream \in StreamState
    BY <1>2 DEF StreamState
  <2>3. /\ stream.pc \in {"idle", "absent"} /\ stream.to = 0 /\ stream.offset = 0
        /\ stream.written = {} /\ stream.inOrder
    BY <1>2
  <2> QED
    BY <2>1, <2>2, <2>3 DEF StreamInv, PagedInv
<1> QED
  BY <1>1, <1>3, <1>4, <1>5 DEF ExportsInv

\* No other step of an export leaves it writing to a file.
LEMMA ElsewhereMoves ==
  ASSUME NEW e \in Exporters, job[e] \in Job,
         \/ X!Request(e) \/ X!QuerySystem(e) \/ X!QueryProcesses(e) \/ X!Render(e)
         \/ X!RefuseFile(e) \/ X!PostHTTP(e) \/ X!PutS3(e)
  PROVE  \E i : job' = [job EXCEPT ![e] = i] /\ i.pc # "writing"
<1> DEFINE moved(i) == job' = [job EXCEPT ![e] = i] /\ i.pc # "writing"
<1>1. ASSUME NEW error, job' = X!Finished(e, error) PROVE \E i : moved(i)
  <2>1. CASE error = "none"
    <3> DEFINE i == [job[e] EXCEPT !.pc = "done", !.success = TRUE]
    <3>1. job' = [job EXCEPT ![e] = i]
      BY <1>1, <2>1 DEF X!Finished
    <3>2. i.pc = "done"
      BY DEF Job
    <3> HIDE DEF i
    <3> QED
      BY <3>1, <3>2
  <2>2. CASE error # "none"
    <3> DEFINE i == [X!Idle EXCEPT !.pc = "done", !.error = error]
    <3>1. job' = [job EXCEPT ![e] = i]
      BY <1>1, <2>2 DEF X!Finished
    <3>2. i.pc = "done"
      BY DEF X!Idle
    <3> HIDE DEF i
    <3> QED
      BY <3>1, <3>2
  <2> QED
    BY <2>1, <2>2
<1>2. CASE X!Request(e)
  <2> DEFINE first(parts) == IF "system" \in parts THEN "system"
                             ELSE IF "processes" \in parts THEN "processes" ELSE "render"
             refused == [X!Idle EXCEPT !.pc = "refused"]
             held(parts, from, to) == {s \in X!Within2(from, to) : s.kind \in parts}
             asked(f, d, p, parts, from, to) ==
               Requested(first(parts), f, d, p, parts, from, to, held(parts, from, to))
  <2>1. PICK f \in Formats, d \in Destinations, p \in Paths \cup {"none"}, parts \in PartsAsked,
             range \in X!TimeRanges :
          job' = [job EXCEPT ![e] = IF ~X!ExportValid(f, d, p) THEN refused
                                    ELSE asked(f, d, p, parts, range[1], range[2])]
    BY <1>2 DEF X!Request, Requested
  <2> DEFINE i == IF ~X!ExportValid(f, d, p) THEN refused ELSE asked(f, d, p, parts, range[1], range[2])
  <2>2. /\ refused.pc = "refused" /\ asked(f, d, p, parts, range[1], range[2]).pc = first(parts)
        /\ first(parts) # "writing"
    BY DEF X!Idle, Requested
  <2>3. i.pc # "writing"
    BY <2>2
  <2> HIDE DEF i
  <2>4. job' = [job EXCEPT ![e] = i]
    BY <2>1 DEF i
  <2> QED
    BY <2>3, <2>4
<1>3. CASE X!QuerySystem(e)
  <2> DEFINE q == X!Within(systems, job[e].from, job[e].to)
             pc == IF "processes" \in job[e].parts THEN "processes" ELSE "render"
             i == [job[e] EXCEPT !.sys = q, !.pc = pc]
  <2>1. job' = X!Finished(e, "DATA_COLLECTION_ERROR") \/ job' = [job EXCEPT ![e] = i]
    BY <1>3 DEF X!QuerySystem
  <2>2. i.pc = pc /\ pc # "writing"
    BY DEF Job
  <2> HIDE DEF i
  <2> QED
    BY <1>1, <2>1, <2>2
<1>4. CASE X!QueryProcesses(e)
  <2> DEFINE q == X!Within(processes, job[e].from, job[e].to)
             i == [job[e] EXCEPT !.procs = q, !.pc = "render"]
  <2>1. job' = X!Finished(e, "DATA_COLLECTION_ERROR") \/ job' = [job EXCEPT ![e] = i]
    BY <1>4 DEF X!QueryProcesses
  <2>2. i.pc = "render"
    BY DEF Job
  <2> HIDE DEF i
  <2> QED
    BY <1>1, <2>1, <2>2
<1>5. CASE X!Render(e)
  <2> DEFINE data == X!Rendering(job[e].format, job[e].sys, job[e].procs)
             items == X!ItemsExported(job[e].format, job[e].sys, job[e].procs)
             i == [job[e] EXCEPT !.pc = "write", !.sys = << >>, !.procs = << >>, !.data = data, !.items = items]
  <2>1. job' = X!Finished(e, "EXPORT_ERROR") \/ job' = [job EXCEPT ![e] = i]
    BY <1>5 DEF X!Render
  <2> HIDE DEF data, items
  <2>2. i.pc = "write"
    BY DEF Job
  <2> HIDE DEF i
  <2> QED
    BY <1>1, <2>1, <2>2
<1>6. CASE X!RefuseFile(e) \/ X!PostHTTP(e) \/ X!PutS3(e)
  BY <1>1, <1>6 DEF X!RefuseFile, X!PostHTTP, X!PutS3
<1> QED
  BY <1>2, <1>3, <1>4, <1>5, <1>6

\* A step of a one-shot export.
LEMMA ExecuteKeeps == ASSUME ExportsInv, NEW e \in Exporters, X!Execute(e) PROVE ExportsInv'
<1>1. LogsInv /\ JobsInv /\ FilesInv /\ StreamInv
  BY DEF ExportsInv
<1>2. UNCHANGED <<systems, processes, clock, paged, stream>>
  BY DEF X!Execute, X!Request, X!QuerySystem, X!QueryProcesses, X!Render, X!RefuseFile, X!OpenFile,
         X!WriteFile, X!PostHTTP, X!PutS3, X!repository
<1>3. LogsInv' /\ StreamInv'
  BY <1>1, <1>2, LogsStay, StreamStays
<1>4. JobsInv'
  BY <1>1, RequestJobs, QueryJobs, RenderJobs, WriteJobs DEF X!Execute
<1>5. FilesInv'
  <2>1. CASE X!OpenFile(e)
    BY <1>1, <2>1, OpenFiles
  <2>2. CASE X!WriteFile(e)
    BY <1>1, <2>2, WriteFiles
  <2>3. CASE ~X!OpenFile(e) /\ ~X!WriteFile(e)
    <3>1. /\ UNCHANGED <<disk, spoiled>>
          /\ job[e].pc \in {"idle", "system", "processes", "render", "write"}
      BY <2>3 DEF X!Execute, X!Request, X!QuerySystem, X!QueryProcesses, X!Render, X!RefuseFile,
                  X!PostHTTP, X!PutS3
    <3>2. job[e] \in Job
      BY <1>1 DEF JobsInv
    <3>3. \E i : job' = [job EXCEPT ![e] = i] /\ i.pc # "writing"
      BY <2>3, <3>2, ElsewhereMoves DEF X!Execute
    <3> QED
      BY <1>1, <3>1, <3>3, FilesApart
  <2> QED
    BY <2>1, <2>2, <2>3
<1> QED
  BY <1>3, <1>4, <1>5 DEF ExportsInv

LEMMA StreamStep ==
  ASSUME ExportsInv, X!StreamBegin \/ X!Cancel \/ X!StreamBatch
  PROVE  ExportsInv'
<1>1. LogsInv /\ JobsInv /\ FilesInv /\ StreamInv
  BY DEF ExportsInv
<1>2. UNCHANGED <<systems, processes, clock, paged, job, disk, spoiled>>
  BY DEF X!StreamBegin, X!Cancel, X!StreamBatch, X!repository
<1>3. StreamInv'
  BY <1>1, BeginKeeps, CancelKeeps, BatchKeeps
<1>4. LogsInv' /\ FilesInv'
  BY <1>1, <1>2, LogsStay, FilesStay
<1>5. JobsInv'
  BY <1>1, <1>2 DEF JobsInv
<1> QED
  BY <1>3, <1>4, <1>5 DEF ExportsInv

LEMMA ExportsStep == ExportsInv /\ [X!Next]_(X!vars) => ExportsInv'
<1> SUFFICES ASSUME ExportsInv, [X!Next]_(X!vars) PROVE ExportsInv'
  OBVIOUS
<1>1. LogsInv /\ JobsInv /\ FilesInv /\ StreamInv
  BY DEF ExportsInv
<1>2. CASE X!SaveSystem
  <2>1. UNCHANGED <<job, disk, spoiled>>
    BY <1>2 DEF X!SaveSystem
  <2> QED
    BY <1>1, <1>2, <2>1, SaveSystemLogs, SaveSystemJobs, FilesStay, SaveSystemStream DEF ExportsInv
<1>3. CASE X!SaveProcesses
  <2>1. UNCHANGED <<job, disk, spoiled>>
    BY <1>3 DEF X!SaveProcesses
  <2> QED
    BY <1>1, <1>3, <2>1, SaveProcessesLogs, SaveProcessesJobs, FilesStay, OtherLogsStream DEF ExportsInv
<1>4. CASE X!DeleteOldMetrics
  <2>1. UNCHANGED <<job, disk, spoiled>>
    BY <1>4 DEF X!DeleteOldMetrics
  <2> QED
    BY <1>1, <1>4, <2>1, DeleteLogs, DeleteJobs, FilesStay, OtherLogsStream DEF ExportsInv
<1>5. ASSUME NEW e \in Exporters, X!Execute(e) PROVE ExportsInv'
  BY <1>5, ExecuteKeeps
<1>6. CASE X!StreamBegin \/ X!Cancel \/ X!StreamBatch
  BY <1>6, StreamStep
<1>7. CASE UNCHANGED X!vars
  <2>1. UNCHANGED <<systems, processes, clock, paged, job, disk, spoiled, stream>>
    BY <1>7 DEF X!vars
  <2>2. LogsInv' /\ FilesInv' /\ StreamInv'
    BY <1>1, <2>1, LogsStay, FilesStay, StreamStays
  <2>3. JobsInv'
    BY <1>1, <2>1 DEF JobsInv
  <2> QED
    BY <2>2, <2>3 DEF ExportsInv
<1> QED
  BY <1>2, <1>3, <1>4, <1>5, <1>6, <1>7 DEF X!Next

\* ExportsInv holds in every behaviour of the exports.
THEOREM ExportsInvariance == X!Spec => []ExportsInv
BY InitExports, ExportsStep, PTL DEF X!Spec

\* What an export tells is what the repository held from the request until the
\* answer: its two queries, its rendering and its write are not one step, yet
\* nothing that was stored throughout is missing and nothing later slips in.
THEOREM AlwaysExportedWhole == X!Spec => []ExportedIsWhole
<1>1. ASSUME ExportsInv PROVE ExportedIsWhole
  <2> SUFFICES ASSUME NEW e \in Exporters, job[e].pc = "done"
               PROVE  /\ job[e].success = (job[e].error = "none")
                      /\ job[e].success /\ job[e].format # "prometheus" =>
                           /\ job[e].items = Len(job[e].data)
                           /\ \A s \in ToSet(job[e].data) :
                                job[e].from <= s.time /\ s.time <= job[e].to /\ s.kind \in job[e].parts
                           /\ job[e].held \cap X!Within2(0, clock) \subseteq ToSet(job[e].data)
    BY SameElements DEF ExportedIsWhole, X!ExportedIsWhole
  <2>1. LogsInv /\ ExportInv(job[e], ToSet(systems), ToSet(processes), clock)
    BY <1>1 DEF ExportsInv, JobsInv
  <2>2. job[e].success = (job[e].error = "none")
    <3>1. job[e].success \in BOOLEAN /\ (job[e].success <=> job[e].error = "none")
      BY <2>1 DEF ExportInv, Job, Answered
    <3> QED
      BY <3>1
  <2>3. X!Within2(0, clock) \subseteq ToSet(systems) \cup ToSet(processes)
    BY <2>1, StoredIn DEF LogsInv
  <2>4. ASSUME job[e].success, job[e].format # "prometheus"
        PROVE  /\ job[e].items = Len(job[e].data)
               /\ job[e].held \cap X!Within2(0, clock) \subseteq ToSet(job[e].data)
    BY <2>1, <2>3, <2>4 DEF ExportInv, Found, FoundAll, Rendered
  <2>5. \A s \in ToSet(job[e].data) :
          job[e].from <= s.time /\ s.time <= job[e].to /\ s.kind \in job[e].parts
    BY <2>1 DEF ExportInv, Told, InRange
  <2> QED
    BY <2>2, <2>4, <2>5
<1> QED
  BY <1>1, ExportsInvariance, PTL

\* A file that no export is writing to is empty or the whole of one successful
\* export, unless two wrote to it at a time or the last write failed.
THEOREM AlwaysWholeFiles == X!Spec => []FilesAreWhole
<1>1. ExportsInv => FilesAreWhole
  BY DEF ExportsInv, FilesInv, WholeFile, FilesAreWhole, X!FilesAreWhole
<1> QED
  BY <1>1, ExportsInvariance, PTL

\* A stream over pages writes each sample once and in order, and leaves out no
\* more of those it began with than evictions took from under it.
THEOREM AlwaysSkipsOnlyEvicted == X!Spec => []StreamSkipsOnlyEvicted
<1>1. ExportsInv => StreamSkipsOnlyEvicted
  BY SkipsOnlyEvicted DEF ExportsInv
<1> QED
  BY <1>1, ExportsInvariance, PTL

-----------------------------------------------------------------------------
(***************************************************************************)
(* What the repository answers, from a history of any length.  First the   *)
(* order of the processes with most of a metric: after i rounds of the     *)
(* insertion the first i samples are in falling order.                     *)
(***************************************************************************)
ProcessSample == [pid : Nat, usage : Nat, io : Nat \cup {NoCounters}]
Metrics == {"usage", "io", "pid"}

Rank(s, metric) == IF metric = "usage" THEN s.usage ELSE IF metric = "io" THEN s.io ELSE -s.pid

\* The samples that a metric can rank.
Ranked(metric) == {s \in ProcessSample : metric = "io" => s.io # NoCounters}

LEMMA MoreIsRank ==
  ASSUME NEW metric \in Metrics, NEW a \in Ranked(metric), NEW b \in Ranked(metric)
  PROVE  /\ Rank(a, metric) \in Int /\ Rank(b, metric) \in Int
         /\ More(a, b, metric) <=> Rank(a, metric) > Rank(b, metric)
<1>1. a.usage \in Nat /\ b.usage \in Nat /\ a.pid \in Nat /\ b.pid \in Nat
  BY DEF Ranked, ProcessSample
<1>2. metric = "io" => a.io \in Nat /\ b.io \in Nat /\ a.io # NoCounters /\ b.io # NoCounters
  BY DEF Ranked, ProcessSample
<1> QED
  BY <1>1, <1>2 DEF More, Rank, Metrics

\* x among the sorted, as the insertion places it.
Stops(sorted, x, metric) == {j \in DOMAIN sorted : ~More(x, sorted[j], metric)}
Place(sorted, x, metric) == IF Stops(sorted, x, metric) = {} THEN 1 ELSE Max(Stops(sorted, x, metric)) + 1
Placed(sorted, x, metric) == InsertAt(sorted, Place(sorted, x, metric), x)

SortedUpTo(s, metric) ==
  LET sorted[i \in 0..Len(s)] == IF i = 0 THEN << >> ELSE Placed(sorted[i - 1], s[i], metric)
  IN  sorted

LEMMA SortedInRounds ==
  ASSUME NEW s, NEW metric
  PROVE  SortProcessesByMetric(s, metric) = SortedUpTo(s, metric)[Len(s)]
BY Zenon DEF SortProcessesByMetric, SortSlice, SortedUpTo, Placed, Place, Stops

LEMMA PlaceIs ==
  ASSUME NEW S, NEW sorted \in Seq(S), NEW x \in S, NEW metric, NEW p, p = Place(sorted, x, metric)
  PROVE  /\ p \in 1..(Len(sorted) + 1)
         /\ p > 1 => p - 1 \in 1..Len(sorted) /\ ~More(x, sorted[p - 1], metric)
         /\ \A j \in 1..Len(sorted) : j >= p => More(x, sorted[j], metric)
<1> DEFINE n == Len(sorted)
           T == Stops(sorted, x, metric)
<1>1. n \in Nat /\ T \subseteq 1..n
  BY DEF Stops
<1>2. \A j \in 1..n : j \in T <=> ~More(x, sorted[j], metric)
  BY DEF Stops
<1>3. CASE T = {}
  <2>1. p = 1
    BY <1>3 DEF Place
  <2> QED
    BY <1>1, <1>2, <1>3, <2>1
<1>4. CASE T # {}
  <2>1. \E m \in T : \A y \in T : m >= y
    <3>1. \E m \in T : \A y \in T : y <= m
      <4> HIDE DEF T, n
      <4> QED
        BY <1>1, <1>4, LargestOfSome
    <3> QED
      BY <1>1, <3>1
  <2>2. Max(T) \in T /\ \A y \in T : Max(T) >= y
    BY <2>1, Zenon DEF Max
  <2>3. p = Max(T) + 1
    BY <1>4 DEF Place
  <2> HIDE DEF T
  <2>4. Max(T) \in 1..n
    BY <1>1, <2>2
  <2>5. ASSUME NEW j \in 1..n, j >= p PROVE j \notin T
    BY <1>1, <2>2, <2>3, <2>4, <2>5
  <2> HIDE DEF n
  <2> QED
    BY <1>1, <1>2, <2>2, <2>3, <2>4, <2>5 DEF n
<1> QED
  BY <1>3, <1>4

LEMMA PlacedIs ==
  ASSUME NEW S, NEW sorted \in Seq(S), NEW x \in S, NEW metric, NEW p, p = Place(sorted, x, metric)
  PROVE  /\ Placed(sorted, x, metric) \in Seq(S) /\ Len(Placed(sorted, x, metric)) = Len(sorted) + 1
         /\ \A j \in 1..(Len(sorted) + 1) :
              Placed(sorted, x, metric)[j] = IF j < p THEN sorted[j] ELSE IF j = p THEN x ELSE sorted[j - 1]
<1> DEFINE n == Len(sorted)
           a == SubSeq(sorted, 1, p - 1)
           b == SubSeq(sorted, p, n)
<1>1. n \in Nat /\ p \in 1..(n + 1)
  BY PlaceIs
<1>2. a \in Seq(S) /\ Len(a) = p - 1 /\ \A j \in 1..(p - 1) : a[j] = sorted[j]
  BY <1>1
<1>3. b \in Seq(S) /\ Len(b) = n - p + 1 /\ \A j \in 1..(n - p + 1) : b[j] = sorted[p + j - 1]
  BY <1>1
<1>4. Placed(sorted, x, metric) = a \o <<x>> \o b
  BY DEF Placed, InsertAt
<1> HIDE DEF a, b
<1> DEFINE c == a \o <<x>>
<1>5. c \in Seq(S) /\ Len(c) = p /\ \A j \in 1..p : c[j] = IF j < p THEN a[j] ELSE x
  BY <1>1, <1>2
<1> HIDE DEF c
<1> DEFINE d == c \o b
<1>6. d \in Seq(S) /\ Len(d) = n + 1 /\ \A j \in 1..(n + 1) : d[j] = IF j <= p THEN c[j] ELSE b[j - p]
  BY <1>1, <1>3, <1>5
<1> HIDE DEF d
<1>7. ASSUME NEW j \in 1..(n + 1)
      PROVE  d[j] = IF j < p THEN sorted[j] ELSE IF j = p THEN x ELSE sorted[j - 1]
  <2>1. CASE j < p
    <3>1. j \in 1..(p - 1) /\ j \in 1..p
      BY <1>1, <2>1
    <3> QED
      BY <1>2, <1>5, <1>6, <2>1, <3>1
  <2>2. CASE j = p
    BY <1>1, <1>5, <1>6, <2>2
  <2>3. CASE j > p
    <3>1. j - p \in 1..(n - p + 1) /\ p + (j - p) - 1 = j - 1
      BY <1>1, <2>3
    <3>2. d[j] = b[j - p]
      BY <1>1, <1>6, <2>3
    <3> QED
      BY <1>1, <1>3, <2>3, <3>1, <3>2, SMTT(30)
  <2> QED
    BY <1>1, <2>1, <2>2, <2>3
<1>8. Placed(sorted, x, metric) = d
  BY <1>4 DEF c, d
<1> QED
  BY <1>6, <1>7, <1>8

LEMMA SortRounds ==
  ASSUME NEW S, NEW s \in Seq(S), NEW metric
  PROVE  /\ SortedUpTo(s, metric)[0] = << >>
         /\ \A i \in 1..Len(s) :
              SortedUpTo(s, metric)[i] = Placed(SortedUpTo(s, metric)[i - 1], s[i], metric)
<1> DEFINE n == Len(s)
           step == [p \in (1..n) \X Seq(S) |-> Placed(p[2], s[p[1]], metric)]
           body(f) == [i \in 0..n |-> IF i = 0 THEN << >> ELSE Placed(f[i - 1], s[i], metric)]
<1>1. n \in Nat /\ << >> \in Seq(S)
  OBVIOUS
<1>2. step \in [(1..n) \X Seq(S) -> Seq(S)]
  <2>1. ASSUME NEW p \in (1..n) \X Seq(S)
        PROVE  Placed(p[2], s[p[1]], metric) \in Seq(S)
    <3>1. p[2] \in Seq(S) /\ s[p[1]] \in S
      OBVIOUS
    <3> QED
      BY <3>1, PlacedIs
  <2> QED
    BY <2>1
<1>3. PICK f : IsRecursive(f, n, Seq(S), << >>, step)
  <2> HIDE DEF n, step
  <2> QED
    BY <1>1, <1>2, RecursionExists
<1>4. f \in [0..n -> Seq(S)] /\ f[0] = << >> /\ \A i \in 1..n : f[i] = step[<<i, f[i - 1]>>]
  BY <1>3 DEF IsRecursive
<1>5. ASSUME NEW i \in 1..n
      PROVE  f[i] = Placed(f[i - 1], s[i], metric)
  <2>1. i - 1 \in 0..n
    BY <1>1
  <2>2. f[i - 1] \in Seq(S)
    BY <1>4, <2>1
  <2>3. <<i, f[i - 1]>> \in (1..n) \X Seq(S)
    BY <2>2
  <2>4. step[<<i, f[i - 1]>>] = Placed(f[i - 1], s[i], metric)
    BY <2>3
  <2> QED
    BY <1>4, <2>4
<1>6. f = body(f)
  <2>1. ASSUME NEW i \in 0..n
        PROVE  f[i] = IF i = 0 THEN << >> ELSE Placed(f[i - 1], s[i], metric)
    <3>1. CASE i = 0
      BY <1>4, <3>1, Zenon
    <3>2. CASE i # 0
      <4>1. i \in 1..n
        BY <1>1, <3>2
      <4> QED
        BY <1>5, <3>2, <4>1, Zenon
    <3> QED
      BY <3>1, <3>2, Zenon
  <2> QED
    BY <1>4, <2>1
<1> DEFINE k == SortedUpTo(s, metric)
<1>7. k = body(k)
  <2>1. k = CHOOSE g : g = body(g)
    BY DEF SortedUpTo
  <2> QED
    BY <1>6, <2>1, Zenon
<1>8. k[0] = << >>
  BY <1>7
<1>9. ASSUME NEW i \in 1..n
      PROVE  k[i] = Placed(k[i - 1], s[i], metric)
  <2>1. i \in 0..n /\ i # 0
    BY <1>1
  <2>2. k[i] = body(k)[i]
    BY <1>7, Zenon
  <2> HIDE DEF k, n
  <2> QED
    BY <2>1, <2>2
<1> QED
  BY <1>8, <1>9

\* f rearranges the first n samples of s into t, in falling order.
Arranges(f, t, s, n) ==
  /\ f \in [1..n -> 1..n]
  /\ \A a, b \in 1..n : f[a] = f[b] => a = b
  /\ \A w \in 1..n : \E v \in 1..n : f[v] = w
  /\ Len(t) = n /\ \A j \in 1..n : t[j] = s[f[j]]

Falls(t, metric) == \A a, b \in 1..Len(t) : a < b => Rank(t[a], metric) >= Rank(t[b], metric)

\* u has n entries: those of t, and x put among them at p.
PutAmong(u, t, x, p, n) ==
  /\ p \in 1..n /\ Len(u) = n
  /\ \A j \in 1..n : u[j] = IF j < p THEN t[j] ELSE IF j = p THEN x ELSE t[j - 1]

LEMMA PlacingArranges ==
  ASSUME NEW n \in Nat \ {0}, NEW s, NEW t, NEW u, NEW p, NEW f,
         Arranges(f, t, s, n - 1), PutAmong(u, t, s[n], p, n)
  PROVE  \E g : Arranges(g, u, s, n)
<1> /\ p \in 1..n /\ Len(u) = n
    /\ \A j \in 1..n : u[j] = IF j < p THEN t[j] ELSE IF j = p THEN s[n] ELSE t[j - 1]
  BY DEF PutAmong
<1> DEFINE g == [j \in 1..n |-> IF j < p THEN f[j] ELSE IF j = p THEN n ELSE f[j - 1]]
<1>1. /\ \A j \in 1..n : j < p => j \in 1..(n - 1) /\ g[j] = f[j]
      /\ \A j \in 1..n : j > p => j - 1 \in 1..(n - 1) /\ g[j] = f[j - 1]
      /\ \A j \in 1..n : j < p \/ j = p \/ j > p
      /\ p \in 1..n /\ g[p] = n
  OBVIOUS
<1>2. /\ \A j \in 1..(n - 1) : f[j] \in 1..n /\ f[j] # n
      /\ \A a, b \in 1..(n - 1) : f[a] = f[b] => a = b
      /\ \A j \in 1..(n - 1) : t[j] = s[f[j]]
  <2>1. f \in [1..(n - 1) -> 1..(n - 1)]
    BY DEF Arranges
  <2>2. \A j \in 1..(n - 1) : f[j] \in 1..n /\ f[j] # n
    <3>1. \A w \in 1..(n - 1) : w \in 1..n /\ w # n
      OBVIOUS
    <3>2. \A j \in 1..(n - 1) : f[j] \in 1..(n - 1)
      BY <2>1, Zenon
    <3> QED
      BY <3>1, <3>2, Zenon
  <2> QED
    BY <2>2, Zenon DEF Arranges
<1>3. ASSUME NEW j \in 1..n PROVE g[j] \in 1..n /\ u[j] = s[g[j]]
  <2> HIDE DEF g
  <2>1. CASE j < p
    BY <1>1, <1>2, <2>1
  <2>2. CASE j = p
    BY <1>1, <2>2
  <2>3. CASE j > p
    <3>1. j - 1 \in 1..(n - 1) /\ g[j] = f[j - 1] /\ u[j] = t[j - 1]
      BY <1>1, <2>3
    <3> QED
      BY <1>2, <3>1
  <2> QED
    BY <1>1, <2>1, <2>2, <2>3
<1>4. g \in [1..n -> 1..n]
  BY <1>3
<1> HIDE DEF g
<1>5. ASSUME NEW a \in 1..n, NEW b \in 1..n, g[a] = g[b] PROVE a = b
  <2>1. CASE a = p \/ b = p
    <3>1. ASSUME NEW j \in 1..n, j # p PROVE g[j] # n
      <4>1. CASE j < p
        BY <1>1, <1>2, <4>1
      <4>2. CASE j > p
        <5>1. j - 1 \in 1..(n - 1) /\ g[j] = f[j - 1]
          BY <1>1, <4>2
        <5> QED
          BY <1>2, <5>1
      <4> QED
        BY <1>1, <3>1, <4>1, <4>2
    <3>2. g[p] = n
      BY <1>1
    <3> QED
      BY <1>5, <2>1, <3>1, <3>2, Zenon
  <2>2. CASE a < p /\ b < p
    BY <1>1, <1>2, <1>5, <2>2
  <2>3. CASE a > p /\ b > p
    <3>1. f[a - 1] = f[b - 1] /\ a - 1 \in 1..(n - 1) /\ b - 1 \in 1..(n - 1)
      BY <1>1, <1>5, <2>3
    <3>2. a - 1 = b - 1
      BY <1>2, <3>1
    <3> QED
      BY <3>2
  <2>4. CASE a < p /\ b > p
    <3>1. f[a] = f[b - 1] /\ a \in 1..(n - 1) /\ b - 1 \in 1..(n - 1)
      BY <1>1, <1>5, <2>4
    <3>2. a = b - 1
      BY <1>2, <3>1
    <3> QED
      BY <2>4, <3>2
  <2>5. CASE a > p /\ b < p
    <3>1. f[a - 1] = f[b] /\ a - 1 \in 1..(n - 1) /\ b \in 1..(n - 1)
      BY <1>1, <1>5, <2>5
    <3>2. a - 1 = b
      BY <1>2, <3>1
    <3> QED
      BY <2>5, <3>2
  <2> QED
    BY <1>1, <2>1, <2>2, <2>3, <2>4, <2>5
<1>6. ASSUME NEW w \in 1..n PROVE \E v \in 1..n : g[v] = w
  <2>1. CASE w = n
    BY <1>1, <2>1
  <2>2. CASE w # n
    <3>1. PICK v \in 1..(n - 1) : f[v] = w
      BY <2>2 DEF Arranges
    <3>2. CASE v < p
      <4>1. v \in 1..n
        OBVIOUS
      <4> QED
        BY <1>1, <3>1, <3>2, <4>1
    <3>3. CASE v >= p
      <4>1. PICK x \in 1..n : x > p /\ x - 1 = v
        <5>1. v + 1 \in 1..n /\ v + 1 > p /\ (v + 1) - 1 = v
          BY <3>3
        <5> QED
          BY <5>1
      <4>2. g[x] = w
        BY <1>1, <3>1, <4>1
      <4> QED
        BY <4>2
    <3> QED
      BY <3>2, <3>3
  <2> QED
    BY <2>1, <2>2
<1>7. Arranges(g, u, s, n)
  <2>1. \A j \in 1..n : u[j] = s[g[j]]
    BY <1>3, Zenon
  <2> QED
    BY <1>4, <1>5, <1>6, <2>1, Zenon DEF Arranges
<1> QED
  BY <1>7

LEMMA PlacingFalls ==
  ASSUME NEW metric \in Metrics, NEW t \in Seq(Ranked(metric)), NEW x \in Ranked(metric),
         Falls(t, metric)
  PROVE  Falls(Placed(t, x, metric), metric)
<1> DEFINE u == Placed(t, x, metric)
           n == Len(t)
<1>1. PICK p : p = Place(t, x, metric)
  OBVIOUS
<1>2. /\ n \in Nat /\ p \in 1..(n + 1)
      /\ p > 1 => p - 1 \in 1..n /\ ~More(x, t[p - 1], metric)
      /\ \A j \in 1..n : j >= p => More(x, t[j], metric)
  BY <1>1, PlaceIs
<1>3. /\ Len(u) = n + 1
      /\ \A j \in 1..(n + 1) : u[j] = IF j < p THEN t[j] ELSE IF j = p THEN x ELSE t[j - 1]
  BY <1>1, PlacedIs
<1> DEFINE r(j) == Rank(t[j], metric)
           y == Rank(x, metric)
<1>4. \A j \in 1..n : r(j) \in Int /\ (More(x, t[j], metric) <=> y > r(j)) /\ y \in Int
  BY MoreIsRank
<1>5. y \in Int
  BY MoreIsRank
<1>6. \A a, b \in 1..n : a < b => r(a) >= r(b)
  BY DEF Falls
<1>7. ASSUME NEW j \in 1..n, j < p PROVE r(j) >= y
  <2>1. p - 1 \in 1..n /\ ~(y > r(p - 1)) /\ r(p - 1) \in Int /\ r(j) \in Int
    BY <1>2, <1>4, <1>7
  <2>2. j = p - 1 \/ r(j) >= r(p - 1)
    BY <1>2, <1>6, <1>7, <2>1
  <2> HIDE DEF r, y
  <2> QED
    BY <1>5, <2>1, <2>2
<1>8. ASSUME NEW j \in 1..n, j >= p PROVE y > r(j)
  BY <1>2, <1>4, <1>8
<1>9. ASSUME NEW a \in 1..(n + 1), NEW b \in 1..(n + 1), a < b
      PROVE  Rank(u[a], metric) >= Rank(u[b], metric)
  <2>1. CASE b < p
    <3>1. a \in 1..n /\ b \in 1..n /\ u[a] = t[a] /\ u[b] = t[b]
      BY <1>2, <1>3, <1>9, <2>1
    <3> QED
      BY <1>6, <1>9, <3>1
  <2>2. CASE b = p
    <3>1. a \in 1..n /\ u[a] = t[a] /\ u[b] = x
      BY <1>2, <1>3, <1>9, <2>2
    <3> QED
      BY <1>7, <1>9, <2>2, <3>1
  <2>3. CASE b > p /\ a < p
    <3>1. a \in 1..n /\ b - 1 \in 1..n /\ a < b - 1 /\ u[a] = t[a] /\ u[b] = t[b - 1]
      BY <1>2, <1>3, <2>3
    <3> QED
      BY <1>6, <3>1
  <2>4. CASE b > p /\ a = p
    <3>1. b - 1 \in 1..n /\ b - 1 >= p /\ u[a] = x /\ u[b] = t[b - 1]
      BY <1>2, <1>3, <2>4
    <3>2. y > r(b - 1) /\ r(b - 1) \in Int
      BY <1>4, <1>8, <3>1
    <3> HIDE DEF u
    <3>3. Rank(u[a], metric) = y /\ Rank(u[b], metric) = r(b - 1)
      BY <3>1
    <3> HIDE DEF r, y
    <3> QED
      BY <1>5, <3>2, <3>3
  <2>5. CASE b > p /\ a > p
    <3>1. a - 1 \in 1..n /\ b - 1 \in 1..n /\ a - 1 < b - 1 /\ u[a] = t[a - 1] /\ u[b] = t[b - 1]
      BY <1>2, <1>3, <1>9, <2>5
    <3> QED
      BY <1>6, <3>1
  <2> QED
    BY <1>2, <1>9, <2>1, <2>2, <2>3, <2>4, <2>5
<1> QED
  BY <1>3, <1>9 DEF Falls

\* Sorting gives the same samples, those with most of the metric first.
LEMMA SortArranges ==
  ASSUME NEW metric \in Metrics, NEW s \in Seq(Ranked(metric)), NEW t, t = SortProcessesByMetric(s, metric)
  PROVE  /\ t \in Seq(Ranked(metric)) /\ Falls(t, metric)
         /\ \E f : Arranges(f, t, s, Len(s))
<1> DEFINE n == Len(s)
           k == SortedUpTo(s, metric)
           P == {i \in 0..n : /\ k[i] \in Seq(Ranked(metric)) /\ Falls(k[i], metric)
                              /\ \E f : Arranges(f, k[i], s, i)}
<1>1. n \in Nat /\ k[0] = << >> /\ \A i \in 1..n : k[i] = Placed(k[i - 1], s[i], metric)
  BY SortRounds
<1>2. 0 \in P
  <2>1. << >> \in Seq(Ranked(metric)) /\ Falls(<< >>, metric)
    BY DEF Falls
  <2>2. Arranges([j \in 1..0 |-> j], << >>, s, 0)
    BY DEF Arranges
  <2>3. 0 \in 0..n
    BY <1>1
  <2> HIDE DEF k, n
  <2>4. k[0] \in Seq(Ranked(metric)) /\ Falls(k[0], metric) /\ \E f : Arranges(f, k[0], s, 0)
    BY <1>1, <2>1, <2>2, Zenon
  <2> QED
    BY <2>3, <2>4
<1> HIDE DEF k
<1>3. ASSUME NEW i \in 1..n, i - 1 \in P PROVE i \in P
  <2>1. PICK f : Arranges(f, k[i - 1], s, i - 1)
    BY <1>3
  <2>2. k[i - 1] \in Seq(Ranked(metric)) /\ Falls(k[i - 1], metric) /\ s[i] \in Ranked(metric)
    BY <1>3
  <2>3. i \in 0..n /\ i \in Nat \ {0}
    BY <1>1
  <2> DEFINE u == Placed(k[i - 1], s[i], metric)
  <2>4. PICK p : p = Place(k[i - 1], s[i], metric)
    OBVIOUS
  <2>5. Len(k[i - 1]) = i - 1
    BY <2>1 DEF Arranges
  <2>6. p \in 1..i
    BY <2>2, <2>3, <2>4, <2>5, PlaceIs
  <2>7. /\ u \in Seq(Ranked(metric)) /\ Len(u) = i
        /\ \A j \in 1..i : u[j] = IF j < p THEN k[i - 1][j] ELSE IF j = p THEN s[i] ELSE k[i - 1][j - 1]
    <3>1. /\ u \in Seq(Ranked(metric)) /\ Len(u) = Len(k[i - 1]) + 1
          /\ \A j \in 1..(Len(k[i - 1]) + 1) :
               u[j] = IF j < p THEN k[i - 1][j] ELSE IF j = p THEN s[i] ELSE k[i - 1][j - 1]
      BY <2>2, <2>4, PlacedIs
    <3>2. Len(k[i - 1]) + 1 = i
      BY <2>3, <2>5
    <3> QED
      BY <3>1, <3>2
  <2>8. Falls(u, metric)
    BY <2>2, PlacingFalls
  <2> HIDE DEF u
  <2>9. \E g : Arranges(g, u, s, i)
    <3>1. PutAmong(u, k[i - 1], s[i], p, i)
      BY <2>6, <2>7 DEF PutAmong
    <3>2. i \in Nat \ {0} /\ Arranges(f, k[i - 1], s, i - 1)
      BY <2>1, <2>3
    <3> HIDE DEF n
    <3> QED
      BY <3>1, <3>2, PlacingArranges
  <2>10. k[i] = u
    BY <1>1 DEF u
  <2> QED
    BY <2>3, <2>7, <2>8, <2>9, <2>10
<1>4. n \in P
  <2> HIDE DEF P
  <2>1. \A i \in 0..n : i \in P
    BY <1>1, <1>2, <1>3, InductionUpTo
  <2> QED
    BY <1>1, <2>1
<1>5. t = k[n]
  BY SortedInRounds DEF k
<1> QED
  BY <1>4, <1>5

-----------------------------------------------------------------------------
LEMMA WholeIsNewest ==
  ASSUME NEW S, NEW s \in Seq(S)
  PROVE  Newest(s, Len(s)) = s
<1>1. Newest(s, Len(s)) = [i \in 1..Len(s) |-> s[Len(s) - Len(s) + i]]
  BY DEF Newest
<1>2. \A i \in 1..Len(s) : Len(s) - Len(s) + i = i
  OBVIOUS
<1>3. Newest(s, Len(s)) = [i \in 1..Len(s) |-> s[i]]
  BY <1>1, <1>2
<1> QED
  BY <1>3

\* The answer is the front of the sorted samples.
LEMMA TopIsFront ==
  ASSUME NEW S, NEW samples \in Seq(S), NEW metric, NEW limit \in Nat,
         NEW t \in Seq(S), t = SortProcessesByMetric(samples, metric), Len(t) = Len(samples),
         NEW top, top = GetTopProcesses(samples, metric, limit)
  PROVE  /\ top \in Seq(S) /\ Len(top) \in 0..Len(t)
         /\ Len(top) = IF limit < Len(samples) THEN limit ELSE Len(samples)
         /\ \A i \in 1..Len(top) : top[i] = t[i]
<1>1. top = IF Len(t) > limit THEN SubSeq(t, 1, limit) ELSE t
  <2>1. SortProcessesByMetric(Newest(samples, Len(samples)), metric) = t
    BY WholeIsNewest, Zenon
  <2> QED
    BY <2>1, Zenon DEF GetTopProcesses
<1>2. CASE Len(t) > limit
  <2>1. top = SubSeq(t, 1, limit)
    BY <1>1, <1>2
  <2>2. top \in Seq(S) /\ Len(top) = limit /\ \A i \in 1..limit : top[i] = t[i]
    BY <1>2, <2>1
  <2> QED
    BY <1>2, <2>2
<1>3. CASE ~(Len(t) > limit)
  <2>1. top = t
    BY <1>1, <1>3
  <2> QED
    BY <1>3, <2>1
<1> QED
  BY <1>2, <1>3

\* From any samples: none that is left out has more than one that is returned.
LEMMA AlwaysTop ==
  ASSUME NEW samples \in Seq(ProcessSample), NEW metric \in Metrics, NEW limit \in Nat
  PROVE  TopIsTop(samples, metric, limit)
<1> DEFINE top == GetTopProcesses(samples, metric, limit)
           t == SortProcessesByMetric(samples, metric)
           n == Len(samples)
           S == Ranked(metric)
           atLeast(m) == {i \in DOMAIN samples : ~More(m, samples[i], metric)}
<1> SUFFICES ASSUME metric = "io" => \A i \in DOMAIN samples : samples[i].io # NoCounters
             PROVE  /\ Len(top) = IF limit < Len(samples) THEN limit ELSE Len(samples)
                    /\ \A i \in DOMAIN top : Cardinality(atLeast(top[i])) >= i
                    /\ \A i, j \in DOMAIN top : i < j => ~More(top[j], top[i], metric)
                    /\ \A i \in DOMAIN samples :
                         Contains(top, samples[i]) \/ \A j \in DOMAIN top : ~More(samples[i], top[j], metric)
  BY Zenon DEF TopIsTop
<1>1. samples \in Seq(S) /\ n \in Nat /\ DOMAIN samples = 1..n
  <2>1. \A i \in 1..n : samples[i] \in S
    BY DEF Ranked
  <2> QED
    BY <2>1
<1>2. t \in Seq(S) /\ Falls(t, metric) /\ \E f : Arranges(f, t, samples, n)
  <2> HIDE DEF S, n
  <2> QED
    BY <1>1, SortArranges DEF S, n
<1>3. PICK f : Arranges(f, t, samples, n)
  BY <1>2
<1>4. /\ f \in [1..n -> 1..n] /\ Len(t) = n
      /\ \A a, b \in 1..n : f[a] = f[b] => a = b
      /\ \A w \in 1..n : \E v \in 1..n : f[v] = w
      /\ \A j \in 1..n : t[j] = samples[f[j]]
  BY <1>3 DEF Arranges
<1>5. /\ top \in Seq(S) /\ Len(top) \in 0..n /\ DOMAIN top = 1..Len(top)
      /\ Len(top) = IF limit < n THEN limit ELSE n
      /\ \A i \in 1..Len(top) : top[i] = t[i] /\ i \in 1..n
  <2>1. /\ top \in Seq(S) /\ Len(top) \in 0..Len(t)
        /\ Len(top) = IF limit < n THEN limit ELSE n
        /\ \A i \in 1..Len(top) : top[i] = t[i]
    <3> HIDE DEF S, t, top
    <3> QED
      BY <1>1, <1>2, <1>4, TopIsFront DEF t, top
  <2> HIDE DEF S, t, top, n
  <2> QED
    BY <1>1, <1>4, <2>1
<1> HIDE DEF top, t
<1>6. ASSUME NEW a \in 1..n, NEW b \in 1..n, a <= b PROVE ~More(t[b], t[a], metric)
  <2>1. a = b \/ Rank(t[a], metric) >= Rank(t[b], metric)
    BY <1>1, <1>2, <1>4, <1>6 DEF Falls
  <2>2. t[a] \in S /\ t[b] \in S
    BY <1>2, <1>4, SMTT(30)
  <2> HIDE DEF S
  <2> QED
    BY <2>1, <2>2, MoreIsRank DEF S
<1>7. ASSUME NEW i \in 1..Len(top) PROVE Cardinality(atLeast(top[i])) >= i
  <2> DEFINE g == [a \in 1..i |-> f[a]]
             A == atLeast(top[i])
  <2>1. i \in 1..n /\ top[i] = t[i] /\ \A a \in 1..i : a \in 1..n /\ a <= i
    BY <1>1, <1>5
  <2>2. \A a \in 1..i : f[a] \in A
    <3> SUFFICES ASSUME NEW a \in 1..i PROVE f[a] \in A
      OBVIOUS
    <3>1. f[a] \in 1..n /\ samples[f[a]] = t[a]
      BY <1>4, <2>1
    <3>2. ~More(t[i], t[a], metric)
      BY <1>6, <2>1
    <3> QED
      BY <1>1, <2>1, <3>1, <3>2
  <2>3. IsFiniteSet(A) /\ Cardinality(A) \in Nat
    <3>1. A \subseteq 1..n /\ IsFiniteSet(1..n)
      BY <1>1, FS_Interval
    <3> HIDE DEF A
    <3> QED
      BY <3>1, FS_Subset, FS_CardinalityType
  <2> HIDE DEF A
  <2>4. g \in Injection(1..i, A)
    BY <1>4, <2>1, <2>2 DEF Injection, IsInjective
  <2>5. IsFiniteSet(1..i) /\ Cardinality(1..i) = i
    BY <1>1, <2>1, FS_Interval
  <2>6. Cardinality(1..i) <= Cardinality(A)
    <3> HIDE DEF g
    <3> QED
      BY <2>3, <2>4, FS_Injection DEF ExistsInjection
  <2>7. Cardinality(A) >= i
    BY <2>1, <2>3, <2>5, <2>6
  <2> QED
    BY <2>7 DEF A
<1>8. ASSUME NEW i \in 1..Len(top), NEW j \in 1..Len(top), i < j PROVE ~More(top[j], top[i], metric)
  BY <1>1, <1>5, <1>6, <1>8
<1>9. ASSUME NEW i \in 1..n, NEW j \in 1..Len(top), More(samples[i], top[j], metric)
      PROVE  Contains(top, samples[i])
  <2>1. PICK v \in 1..n : f[v] = i
    BY <1>4
  <2>2. t[v] = samples[i] /\ top[j] = t[j] /\ j \in 1..n
    BY <1>4, <1>5, <2>1
  <2>3. v < j
    BY <1>1, <1>6, <1>9, <2>2
  <2>4. v \in 1..Len(top) /\ top[v] = samples[i]
    BY <1>1, <1>5, <2>2, <2>3
  <2> QED
    BY <2>4 DEF Contains
<1> HIDE DEF atLeast, S
<1> QED
  BY <1>1, <1>5, <1>7, <1>8, <1>9

-----------------------------------------------------------------------------
(***************************************************************************)
(* Aggregation: the total of some values, and what their average is        *)
(* between.                                                                *)
(***************************************************************************)
TotalUpTo(values) ==
  LET total[i \in 0..Len(values)] == IF i = 0 THEN 0 ELSE total[i - 1] + values[i]
  IN  total

LEMMA TotalRounds ==
  ASSUME NEW values \in Seq(Nat)
  PROVE  /\ TotalUpTo(values)[0] = 0 /\ \A i \in 0..Len(values) : TotalUpTo(values)[i] \in Nat
         /\ \A i \in 1..Len(values) : TotalUpTo(values)[i] = TotalUpTo(values)[i - 1] + values[i]
<1> DEFINE n == Len(values)
           step == [p \in (1..n) \X Nat |-> p[2] + values[p[1]]]
           body(f) == [i \in 0..n |-> IF i = 0 THEN 0 ELSE f[i - 1] + values[i]]
<1>1. n \in Nat /\ \A i \in 1..n : values[i] \in Nat
  OBVIOUS
<1>2. step \in [(1..n) \X Nat -> Nat]
  <2>1. ASSUME NEW p \in (1..n) \X Nat PROVE p[2] + values[p[1]] \in Nat
    <3>1. p[2] \in Nat /\ values[p[1]] \in Nat
      OBVIOUS
    <3> QED
      BY <3>1
  <2> QED
    BY <2>1
<1>3. PICK f : IsRecursive(f, n, Nat, 0, step)
  <2> HIDE DEF n, step
  <2> QED
    BY <1>1, <1>2, RecursionExists
<1>4. f \in [0..n -> Nat] /\ f[0] = 0 /\ \A i \in 1..n : f[i] = step[<<i, f[i - 1]>>]
  BY <1>3 DEF IsRecursive
<1>5. ASSUME NEW i \in 1..n PROVE f[i] = f[i - 1] + values[i]
  <2>1. i - 1 \in 0..n
    BY <1>1
  <2>2. f[i - 1] \in Nat
    BY <1>4, <2>1
  <2>3. step[<<i, f[i - 1]>>] = f[i - 1] + values[i]
    BY <2>2
  <2> QED
    BY <1>4, <2>3
<1>6. f = body(f)
  <2>1. ASSUME NEW i \in 0..n PROVE f[i] = IF i = 0 THEN 0 ELSE f[i - 1] + values[i]
    <3>1. CASE i = 0
      BY <1>4, <3>1, Zenon
    <3>2. CASE i # 0
      <4>1. i \in 1..n
        BY <1>1, <3>2
      <4> QED
        BY <1>5, <3>2, <4>1, Zenon
    <3> QED
      BY <3>1, <3>2, Zenon
  <2> QED
    BY <1>4, <2>1
<1> DEFINE k == TotalUpTo(values)
<1>7. k = body(k)
  <2>1. k = CHOOSE g : g = body(g)
    BY DEF TotalUpTo
  <2> QED
    BY <1>6, <2>1, Zenon
<1>8. k[0] = 0
  BY <1>7
<1>9. ASSUME NEW i \in 1..n PROVE k[i] = k[i - 1] + values[i]
  <2>1. i \in 0..n /\ i # 0
    BY <1>1
  <2>2. k[i] = body(k)[i]
    BY <1>7, Zenon
  <2> HIDE DEF k, n
  <2> QED
    BY <2>1, <2>2
<1> DEFINE P == {i \in 0..n : k[i] \in Nat}
<1>10. \A i \in 0..n : i \in P
  <2>1. 0 \in P
    BY <1>8
  <2>2. ASSUME NEW i \in 1..n, i - 1 \in P PROVE i \in P
    <3>1. i \in 0..n /\ k[i - 1] \in Nat /\ values[i] \in Nat
      BY <1>1, <2>2
    <3>2. k[i - 1] + values[i] \in Nat
      <4> HIDE DEF k
      <4> QED
        BY <3>1
    <3>3. k[i] \in Nat
      BY <1>9, <3>2
    <3> QED
      BY <3>1, <3>3
  <2> HIDE DEF P
  <2> QED
    BY <1>1, <2>1, <2>2, InductionUpTo
<1> QED
  BY <1>8, <1>9, <1>10

LEMMA TimesNext ==
  ASSUME NEW i \in Nat, NEW m \in Nat
  PROVE  (i + 1) * m = i * m + m
OBVIOUS

\* The total of values between low and high.
LEMMA TotalBetween ==
  ASSUME NEW values \in Seq(Nat), NEW low \in Nat, NEW high \in Nat,
         \A i \in 1..Len(values) : low <= values[i] /\ values[i] <= high
  PROVE  /\ Total(values) \in Nat
         /\ Len(values) * low <= Total(values) /\ Total(values) <= Len(values) * high
<1> DEFINE n == Len(values)
           k == TotalUpTo(values)
           P == {i \in 0..n : i * low <= k[i] /\ k[i] <= i * high}
<1>1. /\ n \in Nat /\ k[0] = 0 /\ \A i \in 0..n : k[i] \in Nat
      /\ \A i \in 1..n : k[i] = k[i - 1] + values[i]
  BY TotalRounds
<1> HIDE DEF k
<1>2. 0 \in P
  <2>1. 0 * low = 0 /\ 0 * high = 0
    OBVIOUS
  <2> QED
    BY <1>1, <2>1
<1>3. ASSUME NEW i \in 1..n, i - 1 \in P PROVE i \in P
  <2>1. /\ i - 1 \in Nat /\ i - 1 \in 0..n /\ i \in 0..n /\ (i - 1) + 1 = i
        /\ k[i - 1] \in Nat /\ values[i] \in Nat /\ low <= values[i] /\ values[i] <= high
    BY <1>1
  <2>2. i * low = (i - 1) * low + low /\ i * high = (i - 1) * high + high
    BY <2>1, TimesNext
  <2>3. (i - 1) * low \in Nat /\ (i - 1) * high \in Nat
    BY <2>1
  <2>4. (i - 1) * low <= k[i - 1] /\ k[i - 1] <= (i - 1) * high /\ k[i] = k[i - 1] + values[i]
    BY <1>1, <1>3
  <2>5. i * low <= k[i] /\ k[i] <= i * high
    <3> DEFINE a == (i - 1) * low
               b == (i - 1) * high
               c == i * low
               d == i * high
    <3>1. a \in Nat /\ b \in Nat /\ a <= k[i - 1] /\ k[i - 1] <= b /\ c = a + low /\ d = b + high
          /\ k[i] = k[i - 1] + values[i]
      BY <2>2, <2>3, <2>4
    <3> HIDE DEF a, b, c, d
    <3>2. c <= k[i] /\ k[i] <= d
      BY <2>1, <3>1, SMTT(30)
    <3> QED
      BY <3>2 DEF c, d
  <2> QED
    BY <2>1, <2>5
<1>4. n \in P
  <2> HIDE DEF P
  <2>1. \A i \in 0..n : i \in P
    BY <1>1, <1>2, <1>3, InductionUpTo
  <2> QED
    BY <1>1, <2>1
<1>5. Total(values) = k[n]
  BY DEF Total, TotalUpTo, k
<1>6. n \in 0..n
  BY <1>1
<1> QED
  BY <1>1, <1>4, <1>5, <1>6

\* No value is more than the total.
LEMMA TotalCovers ==
  ASSUME NEW values \in Seq(Nat), NEW j \in 1..Len(values)
  PROVE  values[j] <= Total(values)
<1> DEFINE n == Len(values)
           k == TotalUpTo(values)
           P == {i \in 0..n : j <= i => values[j] <= k[i]}
<1>1. /\ n \in Nat /\ k[0] = 0 /\ \A i \in 0..n : k[i] \in Nat
      /\ \A i \in 1..n : k[i] = k[i - 1] + values[i]
  BY TotalRounds
<1> HIDE DEF k
<1>2. 0 \in P
  BY <1>1
<1>3. ASSUME NEW i \in 1..n, i - 1 \in P PROVE i \in P
  <2>1. /\ i - 1 \in 0..n /\ i \in 0..n /\ k[i - 1] \in Nat /\ values[i] \in Nat /\ values[j] \in Nat
        /\ k[i] = k[i - 1] + values[i]
    BY <1>1, SMTT(30)
  <2>2. j <= i - 1 => values[j] <= k[i - 1]
    BY <1>3
  <2>3. ASSUME j <= i PROVE values[j] <= k[i]
    <3>1. j = i \/ j <= i - 1
      BY <2>3
    <3> QED
      BY <2>1, <2>2, <3>1
  <2> QED
    BY <2>1, <2>3
<1>4. n \in P
  <2> HIDE DEF P
  <2>1. \A i \in 0..n : i \in P
    BY <1>1, <1>2, <1>3, InductionUpTo
  <2> QED
    BY <1>1, <2>1
<1>5. Total(values) = k[n]
  BY DEF Total, TotalUpTo, k
<1> QED
  BY <1>4, <1>5

LEMMA TimesMonotone ==
  ASSUME NEW n \in Nat, NEW a \in Nat, NEW b \in Nat, a <= b
  PROVE  n * a <= n * b
<1> DEFINE P == {i \in 0..n : i * a <= i * b}
<1>1. 0 \in P
  OBVIOUS
<1>2. ASSUME NEW i \in 1..n, i - 1 \in P PROVE i \in P
  <2>1. i \in 0..n /\ i - 1 \in Nat /\ (i - 1) + 1 = i /\ (i - 1) * a <= (i - 1) * b
    BY <1>2
  <2>2. i * a = (i - 1) * a + a /\ i * b = (i - 1) * b + b
    BY <2>1, TimesNext
  <2>3. (i - 1) * a \in Nat /\ (i - 1) * b \in Nat
    BY <2>1
  <2>4. i * a <= i * b
    <3> DEFINE c == (i - 1) * a
               d == (i - 1) * b
    <3>1. c \in Nat /\ d \in Nat /\ c <= d
      BY <2>1, <2>3
    <3> HIDE DEF c, d
    <3>2. c + a <= d + b
      BY <3>1
    <3> QED
      BY <2>2, <3>2 DEF c, d
  <2> QED
    BY <2>1, <2>4
<1>3. n \in P
  <2> HIDE DEF P
  <2>1. \A i \in 0..n : i \in P
    BY <1>1, <1>2, InductionUpTo
  <2> QED
    BY <2>1
<1> QED
  BY <1>3

\* A quotient lies between the bounds of what is divided.
LEMMA QuotientBetween ==
  ASSUME NEW n \in Nat \ {0}, NEW t \in Nat, NEW low \in Nat, NEW high \in Nat,
         n * low <= t, t <= n * high
  PROVE  /\ t \div n \in Nat /\ low <= t \div n /\ t \div n <= high /\ n * (t \div n) <= t
<1>1. PICK q : q = t \div n
  OBVIOUS
<1>2. q \in Int /\ n * q <= t /\ t < n * q + n
  BY <1>1
<1>3. q \in Nat
  BY <1>1
<1>4. n * q \in Nat /\ n * low \in Nat /\ n * high \in Nat
  BY <1>3
<1>5. low <= q
  <2> SUFFICES ASSUME q + 1 <= low PROVE FALSE
    BY <1>3
  <2>1. n * (q + 1) <= n * low
    BY <1>3, TimesMonotone
  <2>2. n * (q + 1) = n * q + n
    BY <1>3
  <2> QED
    BY <1>2, <1>4, <2>1, <2>2
<1>6. q <= high
  <2> SUFFICES ASSUME high + 1 <= q PROVE FALSE
    BY <1>3
  <2>1. n * (high + 1) <= n * q
    BY <1>3, TimesMonotone
  <2>2. n * (high + 1) = n * high + n
    OBVIOUS
  <2> QED
    BY <1>2, <1>4, <2>1, <2>2
<1> QED
  BY <1>1, <1>2, <1>3, <1>5, <1>6

\* The extremes of some values are among them.
LEMMA ExtremesAre ==
  ASSUME NEW values \in Seq(Nat), values # << >>
  PROVE  /\ Least(values) \in Nat /\ Most(values) \in Nat
         /\ {Least(values), Most(values)} \subseteq ToSet(values)
         /\ \A i \in 1..Len(values) : Least(values) <= values[i] /\ values[i] <= Most(values)
<1> DEFINE T == ToSet(values)
           R == {Total(values) - v : v \in T}
<1>1. T \subseteq Nat /\ T # {} /\ \A i \in 1..Len(values) : values[i] \in T
  <2>1. DOMAIN values = 1..Len(values) /\ 1 \in 1..Len(values) /\ \A i \in 1..Len(values) : values[i] \in Nat
    OBVIOUS
  <2>2. T = {values[i] : i \in 1..Len(values)}
    BY <2>1 DEF ToSet
  <2> HIDE DEF T
  <2> QED
    BY <2>1, <2>2
<1>2. Total(values) \in Nat /\ \A v \in T : v <= Total(values)
  <2>1. \A i \in 1..Len(values) : values[i] <= Total(values)
    BY TotalCovers
  <2>2. \A v \in T : \E i \in 1..Len(values) : v = values[i]
    BY DEF ToSet
  <2>3. Total(values) = TotalUpTo(values)[Len(values)]
    BY DEF Total, TotalUpTo
  <2>4. Total(values) \in Nat
    <3>1. Len(values) \in 0..Len(values)
      OBVIOUS
    <3> QED
      BY <2>3, <3>1, TotalRounds
  <2> QED
    BY <2>1, <2>2, <2>4
<1> HIDE DEF T
<1>3. \E x \in T : \A y \in T : x <= y
  BY <1>1, LeastNumber
<1>4. \E x \in T : \A y \in T : x >= y
  <2>1. R \subseteq Nat /\ R # {}
    <3>1. \A v \in T : v \in Nat /\ Total(values) - v \in Nat
      BY <1>1, <1>2
    <3> QED
      BY <1>1, <3>1
  <2>2. PICK r \in R : \A y \in R : r <= y
    <3> HIDE DEF R
    <3> QED
      BY <2>1, LeastNumber
  <2>3. PICK x \in T : r = Total(values) - x
    BY <2>2
  <2>4. ASSUME NEW y \in T PROVE x >= y
    <3>1. r <= Total(values) - y
      BY <2>2
    <3> QED
      BY <1>1, <1>2, <2>3, <3>1
  <2> QED
    BY <2>4
<1>5. Least(values) \in T /\ \A y \in T : Least(values) <= y
  <2>1. Least(values) = CHOOSE x \in T : \A y \in T : x <= y
    BY DEF Least, Min, T
  <2> QED
    BY <1>3, <2>1, Zenon
<1>6. Most(values) \in T /\ \A y \in T : Most(values) >= y
  <2>1. Most(values) = CHOOSE x \in T : \A y \in T : x >= y
    BY DEF Most, Max, T
  <2> QED
    BY <1>4, <2>1, Zenon
<1> QED
  BY <1>1, <1>5, <1>6 DEF T

\* One sample that stands for many is between their extremes.
LEMMA AlwaysBracket ==
  ASSUME NEW samples \in Seq(ProcessSample), samples # << >>
  PROVE  AggregatesBracket(samples)
<1> DEFINE at(type) == AggregateProcessMetrics(samples, type)
           usage == [i \in DOMAIN samples |-> samples[i].usage]
           bytes == [i \in DOMAIN samples |-> IF samples[i].io = NoCounters THEN 0 ELSE samples[i].io]
           n == Len(samples)
<1>1. /\ n \in Nat \ {0} /\ DOMAIN samples = 1..n /\ samples[1] \in ProcessSample
      /\ \A i \in 1..n : samples[i].usage \in Nat /\ samples[i].io \in Nat \cup {NoCounters}
  <2>1. n \in Nat \ {0} /\ DOMAIN samples = 1..n /\ 1 \in 1..n /\ \A i \in 1..n : samples[i] \in ProcessSample
    OBVIOUS
  <2>2. \A s \in ProcessSample : s.usage \in Nat /\ s.io \in Nat \cup {NoCounters}
    BY DEF ProcessSample
  <2> QED
    BY <2>1, <2>2
<1>2. /\ usage \in Seq(Nat) /\ Len(usage) = n /\ usage # << >>
      /\ \A i \in 1..n : usage[i] = samples[i].usage
  <2>1. usage \in [1..n -> Nat]
    BY <1>1
  <2> HIDE DEF usage
  <2>2. usage \in Seq(Nat) /\ Len(usage) = n
    BY <1>1, <2>1
  <2> QED
    BY <1>1, <2>2 DEF usage
<1>3. /\ bytes \in Seq(Nat) /\ Len(bytes) = n
      /\ \A i \in 1..n : bytes[i] = IF samples[i].io = NoCounters THEN 0 ELSE samples[i].io
  <2>1. bytes \in [1..n -> Nat]
    BY <1>1
  <2> HIDE DEF bytes
  <2>2. bytes \in Seq(Nat) /\ Len(bytes) = n
    BY <1>1, <2>1
  <2> QED
    BY <1>1, <2>2 DEF bytes
<1> DEFINE average == Total(usage) \div Len(usage)
           io == IF Total(bytes) > 0 THEN Total(bytes) \div Len(bytes) ELSE NoCounters
<1>4. /\ at("average") = [samples[1] EXCEPT !.usage = average, !.io = io]
      /\ at("min") = [samples[1] EXCEPT !.usage = Least(usage)]
      /\ at("max") = [samples[1] EXCEPT !.usage = Most(usage)]
      /\ at("sum") = samples[1]
  BY DEF AggregateProcessMetrics
<1> HIDE DEF usage, bytes
<1>5. /\ Least(usage) \in Nat /\ Most(usage) \in Nat /\ {Least(usage), Most(usage)} \subseteq ToSet(usage)
      /\ \A i \in 1..n : Least(usage) <= usage[i] /\ usage[i] <= Most(usage)
  BY <1>2, ExtremesAre
<1>6. Total(usage) \in Nat /\ n * Least(usage) <= Total(usage) /\ Total(usage) <= n * Most(usage)
  BY <1>2, <1>5, TotalBetween
<1>7. /\ average \in Nat /\ Least(usage) <= average /\ average <= Most(usage)
      /\ Len(usage) * average <= Total(usage)
  BY <1>1, <1>2, <1>5, <1>6, QuotientBetween
<1>8. /\ at("average").usage = average /\ at("average").io = io /\ at("average").pid = samples[1].pid
      /\ at("min").usage = Least(usage) /\ at("min").pid = samples[1].pid
      /\ at("max").usage = Most(usage) /\ at("max").pid = samples[1].pid
      /\ at("sum").pid = samples[1].pid
  <2> HIDE DEF at, average, io
  <2> QED
    BY <1>1, <1>4 DEF ProcessSample
<1>9. ASSUME io = NoCounters, NEW i \in 1..n PROVE samples[i].io \in {0, NoCounters}
  <2>1. Total(bytes) \in Nat
    <3>1. \A j \in 1..n : 0 <= bytes[j] /\ bytes[j] <= Total(bytes)
      BY <1>3, TotalCovers
    <3>2. Total(bytes) = TotalUpTo(bytes)[n]
      BY <1>3 DEF Total, TotalUpTo
    <3> QED
      BY <1>1, <1>3, <3>2, TotalRounds
  <2>2. ~(Total(bytes) > 0)
    <3> SUFFICES ASSUME Total(bytes) > 0 PROVE FALSE
      OBVIOUS
    <3>1. n * 0 <= Total(bytes) /\ Total(bytes) <= n * Total(bytes)
      <4>1. 1 * Total(bytes) <= n * Total(bytes)
        <5>1. Total(bytes) * 1 <= Total(bytes) * n
          <6>1. 1 \in Nat /\ n \in Nat /\ 1 <= n
            BY <1>1
          <6> HIDE DEF n
          <6> QED
            BY <2>1, <6>1, TimesMonotone
        <5> QED
          BY <1>1, <2>1, <5>1
      <4> QED
        BY <1>1, <2>1, <4>1
    <3>2. Total(bytes) \div n \in Nat
      BY <1>1, <2>1, <3>1, QuotientBetween
    <3>3. NoCounters \in Nat
      BY <1>3, <1>9, <3>2
    <3> QED
      BY <3>3, QueriesAssumption
  <2>3. bytes[i] <= Total(bytes) /\ bytes[i] \in Nat
    BY <1>3, TotalCovers
  <2>4. bytes[i] = 0
    BY <2>1, <2>2, <2>3
  <2> QED
    BY <1>3, <2>4
<1>10. \A type \in {"average", "min", "max"} : AggregateSystemMetrics(usage, type) = at(type).usage
  BY <1>8 DEF AggregateSystemMetrics
<1>11. AggregateSystemMetrics(usage, "sum") = Total(usage)
  BY DEF AggregateSystemMetrics
<1>12. Len(usage) * average \in Nat
  BY <1>1, <1>2, <1>7
<1>13. AggregateSystemMetrics(usage, "sum") >= Len(usage) * at("average").usage
  <2> DEFINE product == Len(usage) * average
  <2>1. product \in Nat /\ product <= Total(usage)
    BY <1>7, <1>12
  <2> HIDE DEF product
  <2>2. Total(usage) >= product
    BY <1>6, <2>1
  <2> QED
    BY <1>8, <1>11, <2>2 DEF product
<1> HIDE DEF at, average, io, n
<1>14. at("min").usage <= at("average").usage /\ at("average").usage <= at("max").usage
  BY <1>7, <1>8
<1>15. {at("min").usage, at("max").usage} \subseteq ToSet(usage)
  BY <1>5, <1>8
<1>16. at("average").io = NoCounters => \A i \in DOMAIN samples : samples[i].io \in {0, NoCounters}
  BY <1>1, <1>8, <1>9
<1>17. \A type \in {"average", "min", "max", "sum"} : at(type).pid = samples[1].pid
  BY <1>8
<1> QED
  BY <1>10, <1>13, <1>14, <1>15, <1>16, <1>17, Zenon DEF AggregatesBracket, at, usage

\* Whatever is held, the processes with most of a metric are those with most
\* of it, in falling order, and an aggregate lies between the extremes of what
\* it stands for (memory.go, GetTopProcesses and AggregateMetrics).
THEOREM AnswersAlwaysRight == MCSpec => []AnswersAreRight
<1>1. ProcessSamples \subseteq ProcessSample
  BY QueriesAssumption DEF ProcessSamples, ProcessSample
<1>2. ASSUME NEW samples \in Inputs PROVE samples \in Seq(ProcessSample) /\ samples # << >>
  <2>1. PICK n \in 1..MaxSamples : samples \in [1..n -> ProcessSamples]
    BY DEF Inputs
  <2>2. n \in Nat \ {0} /\ samples \in [1..n -> ProcessSample]
    BY <1>1, <2>1, QueriesAssumption
  <2> QED
    BY <2>2
<1>3. EveryAnswerIsRight
  <2> SUFFICES ASSUME NEW samples \in Inputs
               PROVE  /\ AggregatesBracket(samples)
                      /\ \A metric \in {"usage", "io", "pid"} :
                           \A limit \in 0..MaxSamples : TopIsTop(samples, metric, limit)
    BY DEF EveryAnswerIsRight
  <2>1. \A limit \in 0..MaxSamples : limit \in Nat
    BY QueriesAssumption
  <2> QED
    BY <1>2, <2>1, AlwaysBracket, AlwaysTop DEF Metrics
<1>4. AnswersAreRight
  BY <1>3 DEF AnswersAreRight
<1> QED
  BY <1>4, PTL
=============================================================================
